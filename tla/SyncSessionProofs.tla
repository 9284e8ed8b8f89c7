------------------------- MODULE SyncSessionProofs -------------------------
(***************************************************************************)
(* The sync session implements the abstract exchange, wherever the streams *)
(* are cut.  First what the parser makes of its texts, then what the two   *)
(* ends hold at each time, then the steps of the exchange.                 *)
(***************************************************************************)
EXTENDS SyncSession, SharedProofs, FiniteSetTheorems
-----------------------------------------------------------------------------
(* The words of a session and what the parser makes of them.               *)

Keys == SessionKeys \cup GameName \cup SyncWords

Words == SessionKeys \cup {Backslash, "SEC", "RET", "invalid!", Msid, SelfGame, Cipher[SelfGame]}
    \cup {LowerCase[w] : w \in DOMAIN LowerCase} \cup {ValidKeys[k] : k \in DOMAIN ValidKeys}
    \cup GameName \cup {AddressText[a] : a \in Address} \cup SyncWords

LEMMA WordsClosed ==
    /\ Closed(Words) /\ Backslash \in Words
    /\ SessionKeys \subseteq Words /\ GameName \subseteq Words /\ SyncWords \subseteq Words
    /\ {"SEC", "RET", "invalid!", Msid, SelfGame, Cipher[SelfGame]} \subseteq Words \ {Backslash}
    /\ SyncWords \subseteq Words \ {Backslash}
    /\ \A a \in Address : AddressText[a] \in Words \ {Backslash}
<1>1. Closed(Words)
  BY DEF Closed, Words
<1>2. /\ Backslash \in Words /\ SessionKeys \subseteq Words /\ GameName \subseteq Words
      /\ SyncWords \subseteq Words
  BY DEF Words
<1>3. /\ SelfGame # Backslash /\ Cipher[SelfGame] # Backslash /\ Msid # Backslash
      /\ \A w \in SyncWords : w # Backslash
      /\ \A a \in Address : AddressText[a] # Backslash
  BY SessionAssumption DEF SyncWords
<1>4. "SEC" # Backslash /\ "RET" # Backslash /\ "invalid!" # Backslash
  BY DEF Backslash
<1>5. {"SEC", "RET", "invalid!", Msid, SelfGame, Cipher[SelfGame]} \subseteq Words
  BY DEF Words
<1>6. \A a \in Address : AddressText[a] \in Words
  BY DEF Words
<1> QED
  BY <1>1, <1>2, <1>3, <1>4, <1>5, <1>6

LEMMA PlainWords == \A k \in Keys : Plain(k) /\ k \in Words
<1>1. \A k \in SessionKeys : k # Backslash
  BY DEF SessionKeys, Backslash
<1> QED
  BY <1>1, SessionAssumption, WordsClosed DEF Plain, Keys

\* The buffer b has been read as the entries E, and a key comes next.
Reads(b, E) == b \in Seq(Words) /\ Scan(b) = [key |-> << >>, entries |-> E]

LEMMA ReadsNothing == Reads(<< >>, << >>)
  BY EmptySeq, ScanOfNothing, WordsClosed DEF Reads, Start

LEMMA ReadsTyped == ASSUME NEW b, NEW E, Reads(b, E) PROVE E \in Seq(Entries(Words))
<1>1. Scan(b) \in States(Words)
  BY WordsClosed, ScanTyped DEF Reads
<1> QED
  BY <1>1 DEF Reads, States

LEMMA PairTyped ==
    ASSUME NEW k \in Words, NEW v \in Seq(Words)
    PROVE  Pair(k, v) \in Seq(Words)
  BY WordsClosed, TextOfOne

LEMMA ReadsPair ==
    ASSUME NEW b, NEW E, Reads(b, E), NEW k \in Keys,
           NEW v \in Seq(Words \ {Backslash})
    PROVE  Reads(b \o Pair(k, v), Append(E, Entry(k, v)))
<1>1. /\ Closed(Words) /\ Backslash \in Words /\ b \in Seq(Words) /\ Scan(b).key = << >>
      /\ k \in Words /\ Plain(k) /\ Scan(b).entries = E
  BY WordsClosed, PlainWords DEF Reads
<1>2. Scan(b \o Pair(k, v)) = [key |-> << >>, entries |-> Append(Scan(b).entries, Entry(k, v))]
  BY <1>1, ScanPair
<1>3. v \in Seq(Words)
  BY SeqMonotonic
<1>4. Pair(k, v) \in Seq(Words)
  BY <1>1, <1>3, PairTyped
<1>5. b \o Pair(k, v) \in Seq(Words)
  BY <1>1, <1>4, ConcatProperties
<1> QED
  BY <1>1, <1>2, <1>5 DEF Reads

LEMMA ReadsKey ==
    ASSUME NEW b, NEW E, Reads(b, E), NEW k \in Keys
    PROVE  /\ b \o <<Backslash, k>> \in Seq(Words)
           /\ Scan(b \o <<Backslash, k>>) = [key |-> <<k>>, entries |-> E]
<1>1. /\ Closed(Words) /\ Backslash \in Words /\ b \in Seq(Words) /\ Scan(b).key = << >>
      /\ k \in Words /\ Plain(k) /\ Scan(b).entries = E
  BY WordsClosed, PlainWords DEF Reads
<1>2. Scan(b \o <<Backslash, k>>) = [key |-> <<k>>, entries |-> Scan(b).entries]
  BY <1>1, ScanKey
<1>3. <<Backslash, k>> \in Seq(Words)
  BY <1>1
<1> QED
  BY <1>1, <1>2, <1>3, ConcatProperties

LEMMA ReadsBlank ==
    ASSUME NEW b, NEW E, Reads(b, E)
    PROVE  Reads(b \o <<Backslash>>, E)
<1>1. /\ Closed(Words) /\ Backslash \in Words /\ b \in Seq(Words) /\ Scan(b).key = << >>
  BY WordsClosed DEF Reads
<1>2. Scan(b \o <<Backslash>>) = Scan(b)
  BY <1>1, ScanBlank
<1>3. <<Backslash>> \in Seq(Words)
  BY <1>1
<1> QED
  BY <1>1, <1>2, <1>3, ConcatProperties DEF Reads

\* Gamenames are read as they are written.
LEMMA ParseOf ==
    ASSUME NEW b \in Seq(Words), NEW E, E = Scan(b).entries,
           \A i \in 1 .. Len(E) : E[i].key = <<"gamename">> => E[i].value = <<SelfGame>>
    PROVE  ParseGameSpy0Buffer(b) = E /\ E \in Seq(Entries(Words))
<1>1. E \in Seq(Entries(Words))
  BY WordsClosed, ScanTyped DEF States
<1>2. ParseGameSpy0Buffer(b) = [i \in DOMAIN E |-> NormalGamename(E[i])]
  BY DEF ParseGameSpy0Buffer, Scan, StoreAll, Start
<1>3. OverrideGamename(<<SelfGame>>) = <<SelfGame>>
  <2>1. ToLower(<<SelfGame>>) = <<SelfGame>>
    BY SessionAssumption DEF ToLower
  <2> QED
    BY <2>1, SessionAssumption DEF OverrideGamename
<1>4. ASSUME NEW i \in DOMAIN E PROVE NormalGamename(E[i]) = E[i]
  <2>1. i \in 1 .. Len(E) /\ E[i] \in Entries(Words)
    BY <1>1, ElementOfSeq
  <2>2. CASE E[i].key = <<"gamename">>
    <3>1. NormalGamename(E[i]) = [E[i] EXCEPT !.value = <<SelfGame>>]
      BY <1>3, <2>1, <2>2 DEF NormalGamename
    <3> QED
      BY <2>1, <2>2, <3>1 DEF Entries
  <2> QED
    BY <2>2 DEF NormalGamename
<1>5. ParseGameSpy0Buffer(b) = [i \in DOMAIN E |-> E[i]]
  BY <1>2, <1>4
<1>6. [i \in DOMAIN E |-> E[i]] = E
  BY <1>1
<1> QED
  BY <1>1, <1>5, <1>6
-----------------------------------------------------------------------------
(* The greeting and the answer.                                            *)

\* Three words before a sequence.
LEMMA ThreeMore ==
    ASSUME NEW W, NEW x \in W, NEW y \in W, NEW z \in W, NEW v \in Seq(W)
    PROVE  LET u == <<x, y, z>> \o v
           IN  /\ u \in Seq(W) /\ Len(u) = 3 + Len(v) /\ u[1] = x /\ u[2] = y /\ u[3] = z
               /\ \A i \in 1 .. Len(v) : u[3 + i] = v[i]
<1> DEFINE t == <<x, y, z>>
           u == t \o v
<1>1. t \in Seq(W) /\ Len(t) = 3 /\ t[1] = x /\ t[2] = y /\ t[3] = z
  OBVIOUS
<1> HIDE DEF t
<1>2. /\ u \in Seq(W) /\ Len(u) = 3 + Len(v) /\ Len(v) \in Nat
      /\ \A i \in 1 .. 3 + Len(v) : u[i] = IF i <= 3 THEN t[i] ELSE v[i - 3]
  <2>1. /\ u \in Seq(W) /\ Len(u) = Len(t) + Len(v)
        /\ \A i \in 1 .. Len(t) + Len(v) : u[i] = IF i <= Len(t) THEN t[i] ELSE v[i - Len(t)]
    BY <1>1, ConcatProperties
  <2>2. Len(v) \in Nat
    BY LenProperties
  <2> HIDE DEF u
  <2> QED
    BY <1>1, <2>1, <2>2
<1> HIDE DEF u
<1>3. \A i \in 1 .. Len(v) : 3 + i \in 1 .. 3 + Len(v) /\ ~(3 + i <= 3) /\ (3 + i) - 3 = i
  BY <1>2
<1>4. \A i \in 1 .. Len(v) : u[3 + i] = v[i]
  BY <1>2, <1>3
<1>5. 1 \in 1 .. 3 + Len(v) /\ 2 \in 1 .. 3 + Len(v) /\ 3 \in 1 .. 3 + Len(v)
  BY <1>2
<1> QED
  BY <1>1, <1>2, <1>4, <1>5 DEF u, t

LEMMA AppendTwo == ASSUME NEW x, NEW y PROVE Append(<<x>>, y) = <<x, y>>
<1> DEFINE S == {x, y}
           u == <<x>>
           t == <<x, y>>
           w == Append(u, y)
<1>1. u \in Seq(S) /\ y \in S /\ t \in Seq(S) /\ Len(u) = 1 /\ Len(t) = 2 /\ t[1] = x /\ t[2] = y /\ u[1] = x
  OBVIOUS
<1> HIDE DEF S, u, t
<1>2. w \in Seq(S) /\ Len(w) = 2 /\ w[1] = x /\ w[2] = y
  <2>1. u \in Seq(S) /\ y \in S
    BY <1>1
  <2>2. /\ w \in Seq(S) /\ Len(w) = Len(u) + 1 /\ w[Len(u) + 1] = y
        /\ \A i \in 1 .. Len(u) : w[i] = u[i]
    BY <2>1, AppendProperties
  <2> HIDE DEF w
  <2> QED
    BY <1>1, <2>2
<1> HIDE DEF w
<1>3. Len(w) = Len(t) /\ \A i \in 1 .. Len(w) : w[i] = t[i]
  BY <1>1, <1>2
<1>4. w = t
  BY <1>1, <1>2, <1>3, SeqEqual
<1> QED
  BY <1>4 DEF w, u, t

LEMMA SixTwo ==
    ASSUME NEW a, NEW b, NEW c, NEW d, NEW e, NEW f, NEW g, NEW h
    PROVE <<a,b,c,d,e,f>> \o <<g,h>> = <<a,b,c,d,e,f,g,h>>
<1> DEFINE S == {a, b, c, d, e, f, g, h}
           u == <<a, b, c, d, e, f>>
           v == <<g, h>>
           t == <<a, b, c, d, e, f, g, h>>
<1>1. u \in Seq(S) /\ v \in Seq(S) /\ t \in Seq(S) /\ Len(u) = 6 /\ Len(v) = 2 /\ Len(t) = 8
  OBVIOUS
<1>2. \A i \in 1 .. 8 : t[i] = IF i <= 6 THEN u[i] ELSE v[i - 6]
  OBVIOUS
<1> HIDE DEF S, u, v, t
<1>3. u \o v = t
  <2> DEFINE w == u \o v
  <2>1. w \in Seq(S) /\ Len(w) = 8 /\ \A i \in 1 .. 8 : w[i] = IF i <= 6 THEN u[i] ELSE v[i - 6]
    <3>1. /\ w \in Seq(S) /\ Len(w) = Len(u) + Len(v)
          /\ \A i \in 1 .. Len(u) + Len(v) : w[i] = IF i <= Len(u) THEN u[i] ELSE v[i - Len(u)]
      BY <1>1, ConcatProperties
    <3> HIDE DEF w
    <3> QED
      BY <1>1, <3>1
  <2> HIDE DEF w
  <2>2. Len(w) = Len(t) /\ \A i \in 1 .. Len(w) : w[i] = t[i]
    BY <1>1, <1>2, <2>1
  <2>3. w = t
    BY <1>1, <2>1, <2>2, SeqEqual
  <2> QED
    BY <2>3 DEF w
<1> QED
  BY <1>3 DEF u, v, t

\* The shapes of a greeting, whole or cut.
LEMMA Shape ==
    ASSUME NEW v \in Seq(Words), NEW a \in Seq(Words), Len(a) = 6 + Len(v),
           a[1] = Backslash, a[2] = "basic", a[3] = Backslash,
           a[4] = Backslash, a[5] = "secure", a[6] = Backslash,
           \A i \in 1 .. Len(v) : a[6 + i] = v[i]
    PROVE  a = <<Backslash, "basic", Backslash>> \o Pair("secure", v)
<1> DEFINE W == Words
           x == Backslash
           y == "basic"
           z == "secure"
<1>0. x \in W /\ y \in W /\ z \in W
  BY WordsClosed DEF SessionKeys
<1> HIDE DEF W, x, y, z
<1> DEFINE p == <<x, z, x>> \o v
           c == <<x, y, x>> \o p
<1>1. /\ p \in Seq(W) /\ Len(p) = 3 + Len(v) /\ p[1] = x /\ p[2] = z /\ p[3] = x
      /\ \A i \in 1 .. Len(v) : p[3 + i] = v[i]
  BY <1>0, ThreeMore DEF W
<1> HIDE DEF p
<1>2. /\ c \in Seq(W) /\ Len(c) = 3 + Len(p) /\ c[1] = x /\ c[2] = y /\ c[3] = x
      /\ \A i \in 1 .. Len(p) : c[3 + i] = p[i]
  BY <1>0, <1>1, ThreeMore
<1> HIDE DEF c
<1>3. Len(v) \in Nat
  BY LenProperties
<1>4. c[4] = x /\ c[5] = z /\ c[6] = x
  <2>1. 1 \in 1 .. Len(p) /\ 2 \in 1 .. Len(p) /\ 3 \in 1 .. Len(p)
    BY <1>1, <1>3
  <2>2. c[3 + 1] = p[1] /\ c[3 + 2] = p[2] /\ c[3 + 3] = p[3]
    BY <1>2, <2>1
  <2> QED
    BY <1>1, <2>2
<1>5. ASSUME NEW i \in 1 .. Len(v) PROVE c[6 + i] = v[i]
  <2>1. 3 + i \in 1 .. Len(p) /\ 3 + (3 + i) = 6 + i
    BY <1>1, <1>3
  <2> QED
    BY <1>1, <1>2, <2>1
<1>6. ASSUME NEW j \in 1 .. Len(a) PROVE a[j] = c[j]
  <2>1. CASE j > 6
    <3>1. j - 6 \in 1 .. Len(v) /\ 6 + (j - 6) = j
      BY <1>3, <2>1
    <3> QED
      BY <1>5, <3>1
  <2>2. CASE ~(j > 6)
    <3>1. j = 1 \/ j = 2 \/ j = 3 \/ j = 4 \/ j = 5 \/ j = 6
      BY <1>3, <2>2
    <3> QED
      BY <1>2, <1>4, <3>1 DEF x, y, z
  <2> QED
    BY <2>1, <2>2
<1>7. Len(a) = Len(c)
  BY <1>1, <1>2, <1>3
<1>8. a = c
  BY <1>2, <1>6, <1>7, SeqEqual DEF W
<1> QED
  BY <1>8 DEF c, p, x, y, z, Pair

LEMMA ShapeShort ==
    ASSUME NEW W, NEW x \in W, NEW y \in W, NEW z \in W, NEW a \in Seq(W),
           Len(a) = 5, a[1] = x, a[2] = y, a[3] = x, a[4] = x, a[5] = z
    PROVE  a = <<x, y, x>> \o <<x, z>>
<1> DEFINE v == <<x, z>>
           c == <<x, y, x>> \o v
<1>1. v \in Seq(W) /\ Len(v) = 2 /\ v[1] = x /\ v[2] = z
  OBVIOUS
<1> HIDE DEF v
<1>2. /\ c \in Seq(W) /\ Len(c) = 3 + Len(v) /\ c[1] = x /\ c[2] = y /\ c[3] = x
      /\ \A i \in 1 .. Len(v) : c[3 + i] = v[i]
  <2>1. v \in Seq(W)
    BY <1>1
  <2> QED
    BY <2>1, ThreeMore
<1> HIDE DEF c
<1>3. c[3 + 1] = x /\ c[3 + 2] = z
  BY <1>1, <1>2
<1>4. \A j \in 1 .. Len(a) : a[j] = c[j]
  BY <1>2, <1>3
<1>5. a = c
  BY <1>1, <1>2, <1>4, SeqEqual
<1> QED
  BY <1>5 DEF c, v

\* The answer with the word v of the cipher, or with none.
ReplyOf(v) == (IF v = << >> THEN << >> ELSE Text(<< <<"validate", v>> >>))
    \o Text(<< <<"gamename", <<SelfGame>> >> >>) \o Final

LEMMA KeysDiffer ==
    /\ \A k, l \in SessionKeys \cup {"list", "echo"} : <<k>> = <<l>> => k = l
    /\ "final" # Backslash /\ "secure" # Backslash
    /\ "SEC" \notin SessionKeys /\ "RET" \notin SessionKeys /\ "invalid!" \notin SessionKeys
    /\ "list" \notin SessionKeys /\ "echo" \notin SessionKeys
  BY DEF SessionKeys, Backslash

LEMMA GreetingText ==
    /\ Greeting = <<Backslash, "basic", Backslash, Backslash, "secure", Backslash, "SEC", "RET">>
    /\ Greeting \in Seq(Words) /\ Len(Greeting) = 8
<1>1. Greeting = <<Backslash, "basic", Backslash, Backslash, "secure", Backslash, "SEC", "RET">>
  BY SixTwo DEF Greeting, ChallengeText
<1>2. Backslash \in Words /\ "basic" \in Words /\ "secure" \in Words /\ "SEC" \in Words /\ "RET" \in Words
  BY WordsClosed DEF SessionKeys
<1> QED
  BY <1>1, <1>2

\* What the client answers to a greeting that has been read so far.
LEMMA ReplyTo ==
    ASSUME NEW S, NEW data \in Seq(S), NEW v, OnlyValue(data, "secure", v),
           \E i \in 1 .. Len(data) : data[i].key = <<"basic">>
    PROVE  Reply(data) = ReplyOf(IF v = <<"SEC", "RET">> THEN <<Cipher[SelfGame]>> ELSE <<"invalid!">>)
<1>4. HasKey(data, "secure") /\ Value(data, "secure", << >>) = v /\ HasKey(data, "basic")
  <2>1. HasKey(data, "secure") /\ Value(data, "secure", << >>) = v
    BY ValueOf
  <2>2. HasKey(data, "basic")
    BY ValuesOfKey
  <2> QED
    BY <2>1, <2>2
<1>5. SelfGame \in DOMAIN Cipher /\ SelfGame \in SupportedGames
  BY SessionAssumption, HandlerAssumption
<1>6. /\ ReturnValidate(SelfGame, Challenge)[1] = Cipher[SelfGame]
      /\ ReturnValidate(SelfGame, NoSecure)[1] = "invalid!"
  BY <1>5 DEF ReturnValidate, GenerateValidateString, Challenge, NoSecure, Invalid
<1>7. ReturnValidate(SelfGame, IF v = ChallengeText THEN Challenge ELSE NoSecure)[1]
        = IF v = <<"SEC", "RET">> THEN Cipher[SelfGame] ELSE "invalid!"
  BY <1>6 DEF ChallengeText
<1>8. Answers(data) = Text(<< <<"validate", <<IF v = <<"SEC", "RET">> THEN Cipher[SelfGame] ELSE "invalid!">> >> >>)
  BY <1>4, <1>5, <1>7 DEF Answers
<1> DEFINE u == IF v = <<"SEC", "RET">> THEN <<Cipher[SelfGame]>> ELSE <<"invalid!">>
<1>9. u # << >> /\ u = <<IF v = <<"SEC", "RET">> THEN Cipher[SelfGame] ELSE "invalid!">>
  OBVIOUS
<1>10. Answers(data) = Text(<< <<"validate", u>> >>)
  BY <1>8, <1>9
<1> HIDE DEF u
<1>11. Reply(data) = ReplyOf(u)
  BY <1>4, <1>9, <1>10 DEF Reply, ReplyOf
<1> QED
  BY <1>11 DEF u

LEMMA ReplyToNothing == Reply(<<Entry("basic", << >>)>>) = ReplyOf(<< >>)
<1> DEFINE data == <<Entry("basic", << >>)>>
           S == {Entry("basic", << >>)}
<1>1. data \in Seq(S) /\ Len(data) = 1 /\ data[1].key = <<"basic">> /\ data[1].key # <<"secure">>
  BY DEF Entry
<1> HIDE DEF S, data
<1>2. /\ \E i \in 1 .. Len(data) : data[i].key = <<"basic">>
      /\ \A i \in 1 .. Len(data) : data[i].key # <<"secure">>
  BY <1>1
<1>3. HasKey(data, "basic")
  BY <1>1, <1>2, ValuesOfKey
<1>4. ~HasKey(data, "secure")
  BY <1>1, <1>2, NoKey
<1>5. Answers(data) = << >>
  BY <1>4 DEF Answers
<1> QED
  BY <1>3, <1>5 DEF Reply, ReplyOf, data

\* A prefix of the greeting that has the key of the challenge.
LEMMA GreetingCut ==
    ASSUME NEW a \in Seq(Words), NEW d \in Seq(Words), SameStream(a, d, Greeting, << >>), Has(a, "secure")
    PROVE  /\ Len(a) \in 5 .. 8 /\ (d = << >> <=> Len(a) = 8)
           /\ \A i \in 1 .. Len(a) : a[i] = Greeting[i]
           /\ \A i \in 1 .. Len(d) : d[i] \in {Backslash, "SEC", "RET"}
<1>1. a \o d = Greeting
  <2>1. Greeting \o << >> = Greeting
    BY GreetingText, ConcatEmptySeq
  <2> QED
    BY <2>1 DEF SameStream
<1>2. /\ Len(a) \in Nat /\ Len(d) \in Nat /\ Len(a) + Len(d) = 8
      /\ \A i \in 1 .. Len(a) + Len(d) : Greeting[i] = IF i <= Len(a) THEN a[i] ELSE d[i - Len(a)]
  <2>1. /\ Len(a \o d) = Len(a) + Len(d)
        /\ \A i \in 1 .. Len(a) + Len(d) : (a \o d)[i] = IF i <= Len(a) THEN a[i] ELSE d[i - Len(a)]
    BY ConcatProperties
  <2>2. Len(a) \in Nat /\ Len(d) \in Nat /\ Len(Greeting) = 8
    BY GreetingText, LenProperties
  <2> QED
    BY <1>1, <2>1, <2>2
<1>3. \A i \in 1 .. Len(a) : a[i] = Greeting[i]
  BY <1>2
<1>4. PICK i \in 1 .. Len(a) : a[i] = "secure"
  BY DEF Has
<1>5. i = 5
  <2>1. Greeting[i] = "secure" /\ i \in 1 .. 8
    BY <1>2, <1>3, <1>4
  <2>2. \A j \in 1 .. 8 : Greeting[j] = "secure" => j = 5
    BY GreetingText DEF Backslash
  <2> QED
    BY <2>1, <2>2
<1>6. ASSUME NEW j \in 1 .. Len(d) PROVE d[j] \in {Backslash, "SEC", "RET"}
  <2> DEFINE k == j + Len(a)
  <2>1. k \in 1 .. Len(a) + Len(d) /\ ~(k <= Len(a)) /\ k - Len(a) = j /\ k \in 6 .. 8
    BY <1>2, <1>4, <1>5
  <2> HIDE DEF k
  <2>2. d[j] = Greeting[k]
    BY <1>2, <2>1
  <2>3. \A l \in 6 .. 8 : Greeting[l] \in {Backslash, "SEC", "RET"}
    BY GreetingText
  <2> QED
    BY <2>1, <2>2, <2>3
<1>7. d = << >> <=> Len(d) = 0
  BY EmptySeq
<1>8. Len(a) \in 5 .. 8 /\ (Len(d) = 0 <=> Len(a) = 8)
  <2>1. 5 <= Len(a)
    BY <1>2, <1>4, <1>5
  <2>2. Len(a) \in Nat /\ Len(d) \in Nat /\ Len(a) + Len(d) = 8
    BY <1>2
  <2>3. \A m, k \in Nat : m + k = 8 /\ 5 <= m => m \in 5 .. 8 /\ (k = 0 <=> m = 8)
    OBVIOUS
  <2> QED
    BY <2>1, <2>2, <2>3
<1> QED
  BY <1>3, <1>6, <1>7, <1>8

\* It is answered rightly when it is whole, and with a word no cipher gives, or with
\* none, when it is not.
LEMMA GreetingAnswered ==
    ASSUME NEW a \in Seq(Words), NEW d \in Seq(Words), SameStream(a, d, Greeting, << >>), Has(a, "secure")
    PROVE  IF d = << >> THEN Reply(ParseGameSpy0Buffer(a)) = ReplyOf(<<Cipher[SelfGame]>>)
           ELSE \E v \in {<< >>, <<"invalid!">>} : Reply(ParseGameSpy0Buffer(a)) = ReplyOf(v)
<1>1. /\ Len(a) \in 5 .. 8 /\ (d = << >> <=> Len(a) = 8)
      /\ \A i \in 1 .. Len(a) : a[i] = Greeting[i]
  BY GreetingCut
<1> DEFINE g == Pair("basic", << >>)
           E == <<Entry("basic", << >>)>>
<1>2. g = <<Backslash, "basic", Backslash>>
  BY DEF Pair
<1>3. Reads(g, E)
  <2>1. << >> \in Seq(Words \ {Backslash}) /\ "basic" \in SessionKeys
    BY EmptySeq DEF SessionKeys
  <2>2. Reads(<< >> \o g, Append(<< >>, Entry("basic", << >>)))
    BY <2>1, ReadsNothing, ReadsPair DEF Keys
  <2>3. << >> \o g = g /\ Append(<< >>, Entry("basic", << >>)) = E
    BY <1>2
  <2> QED
    BY <2>2, <2>3
<1>4. CASE Len(a) = 5
  <2>1. a = g \o <<Backslash, "secure">>
    <3>1. /\ a[1] = Backslash /\ a[2] = "basic" /\ a[3] = Backslash /\ a[4] = Backslash
          /\ a[5] = "secure"
      BY <1>1, <1>4, GreetingText
    <3>2. Backslash \in Words /\ "basic" \in Words /\ "secure" \in Words
      BY WordsClosed DEF SessionKeys
    <3>3. a = <<Backslash, "basic", Backslash>> \o <<Backslash, "secure">>
      BY <1>4, <3>1, <3>2, ShapeShort
    <3> QED
      BY <1>2, <3>3
  <2>2. Scan(a) = [key |-> <<"secure">>, entries |-> E]
    BY <1>3, <2>1, ReadsKey DEF SessionKeys, Keys
  <2>3. ParseGameSpy0Buffer(a) = E
    <3>1. Len(E) = 1 /\ E[1].key = <<"basic">> /\ <<"basic">> # <<"gamename">>
      BY DEF Entry
    <3>2. \A i \in 1 .. Len(E) : E[i].key = <<"gamename">> => E[i].value = <<SelfGame>>
      BY <3>1
    <3> HIDE DEF E
    <3>3. E = Scan(a).entries
      BY <2>2
    <3> QED
      BY <3>2, <3>3, ParseOf
  <2>4. Reply(ParseGameSpy0Buffer(a)) = ReplyOf(<< >>)
    BY <2>3, ReplyToNothing
  <2> QED
    BY <1>1, <1>4, <2>4
<1>5. ASSUME NEW v \in {<< >>, <<"SEC">>, <<"SEC", "RET">>}, a = g \o Pair("secure", v)
      PROVE  Reply(ParseGameSpy0Buffer(a))
                 = ReplyOf(IF v = <<"SEC", "RET">> THEN <<Cipher[SelfGame]>> ELSE <<"invalid!">>)
  <2> DEFINE F == <<Entry("basic", << >>), Entry("secure", v)>>
  <2>1. "SEC" \in Words \ {Backslash} /\ "RET" \in Words \ {Backslash} /\ "secure" \in SessionKeys
    BY WordsClosed DEF SessionKeys
  <2>2. v \in Seq(Words \ {Backslash})
    <3> DEFINE U == Words \ {Backslash}
    <3> HIDE DEF U
    <3>1. << >> \in Seq(U) /\ <<"SEC">> \in Seq(U) /\ <<"SEC", "RET">> \in Seq(U)
      BY <2>1, EmptySeq DEF U
    <3> QED
      BY <3>1 DEF U
  <2>3. Reads(g \o Pair("secure", v), Append(E, Entry("secure", v)))
    BY <1>3, <2>1, <2>2, ReadsPair DEF Keys
  <2>4. Append(E, Entry("secure", v)) = F
    BY AppendTwo
  <2>5. Scan(a).entries = F
    BY <1>5, <2>3, <2>4 DEF Reads
  <2>6. ParseGameSpy0Buffer(a) = F
    <3>1. Len(F) = 2 /\ F[1].key = <<"basic">> /\ F[2].key = <<"secure">>
          /\ <<"basic">> # <<"gamename">> /\ <<"secure">> # <<"gamename">>
      BY DEF Entry
    <3>2. \A i \in 1 .. Len(F) : F[i].key = <<"gamename">> => F[i].value = <<SelfGame>>
      BY <3>1
    <3> HIDE DEF F
    <3> QED
      BY <2>5, <3>2, ParseOf
  <2>7. /\ F \in Seq({F[1], F[2]})
        /\ OnlyValue(F, "secure", v)
        /\ \E i \in 1 .. Len(F) : F[i].key = <<"basic">>
    <3>1. /\ Len(F) = 2 /\ F[1].key = <<"basic">> /\ F[2].key = <<"secure">> /\ F[2].value = v
          /\ <<"basic">> # <<"secure">> /\ F \in Seq({F[1], F[2]})
      BY DEF Entry
    <3> HIDE DEF F
    <3> QED
      BY <3>1 DEF OnlyValue
  <2> HIDE DEF F
  <2>8. Reply(F) = ReplyOf(IF v = <<"SEC", "RET">> THEN <<Cipher[SelfGame]>> ELSE <<"invalid!">>)
    BY <2>7, ReplyTo
  <2> QED
    BY <2>6, <2>8
<1>10. ASSUME NEW v \in Seq(Words), Len(a) = 6 + Len(v), \A i \in 1 .. Len(v) : a[6 + i] = v[i]
       PROVE  a = g \o Pair("secure", v)
  <2>1. 6 <= Len(a)
    BY <1>10, LenProperties
  <2>2. /\ a[1] = Backslash /\ a[2] = "basic" /\ a[3] = Backslash /\ a[4] = Backslash
        /\ a[5] = "secure" /\ a[6] = Backslash
    <3>1. \A i \in 1 .. 6 : i \in 1 .. Len(a)
      BY <1>1, <2>1
    <3>2. \A i \in 1 .. 6 : a[i] = Greeting[i]
      BY <1>1, <3>1
    <3> QED
      BY <3>2, GreetingText
  <2>3. Backslash \in Words /\ "basic" \in Words /\ "secure" \in Words
    BY WordsClosed DEF SessionKeys
  <2>4. a = <<Backslash, "basic", Backslash>> \o Pair("secure", v)
    BY <1>10, <2>2, Shape
  <2> QED
    BY <1>2, <2>4
<1>6. CASE Len(a) = 6
  <2>1. a = g \o Pair("secure", << >>)
    <3>1. << >> \in Seq(Words) /\ Len(<< >>) = 0
      BY WordsClosed, EmptySeq
    <3>2. \A i \in 1 .. Len(<< >>) : a[6 + i] = << >>[i]
      BY <1>1, <1>6, <3>1, GreetingText
    <3>3. 6 + 0 = 6 /\ 6 + 1 = 7 /\ 6 + 2 = 8
      OBVIOUS
    <3> QED
      BY <1>6, <1>10, <3>1, <3>2, <3>3, Zenon
  <2> QED
    BY <1>1, <1>5, <1>6, <2>1
<1>7. CASE Len(a) = 7
  <2>1. a = g \o Pair("secure", <<"SEC">>)
    <3>1. <<"SEC">> \in Seq(Words) /\ Len(<<"SEC">>) = 1
      BY WordsClosed, EmptySeq
    <3>2. \A i \in 1 .. Len(<<"SEC">>) : a[6 + i] = <<"SEC">>[i]
      BY <1>1, <1>7, <3>1, GreetingText
    <3>3. 6 + 0 = 6 /\ 6 + 1 = 7 /\ 6 + 2 = 8
      OBVIOUS
    <3> QED
      BY <1>7, <1>10, <3>1, <3>2, <3>3, Zenon
  <2>2. <<"SEC">> # <<"SEC", "RET">>
    OBVIOUS
  <2> QED
    BY <1>1, <1>5, <1>7, <2>1, <2>2
<1>8. CASE Len(a) = 8
  <2>1. a = g \o Pair("secure", <<"SEC", "RET">>)
    <3>1. <<"SEC", "RET">> \in Seq(Words) /\ Len(<<"SEC", "RET">>) = 2
      BY WordsClosed, EmptySeq
    <3>2. \A i \in 1 .. Len(<<"SEC", "RET">>) : a[6 + i] = <<"SEC", "RET">>[i]
      BY <1>1, <1>8, <3>1, GreetingText
    <3>3. 6 + 0 = 6 /\ 6 + 1 = 7 /\ 6 + 2 = 8
      OBVIOUS
    <3> QED
      BY <1>8, <1>10, <3>1, <3>2, <3>3, Zenon
  <2> QED
    BY <1>1, <1>5, <1>8, <2>1
<1>9. Len(a) = 5 \/ Len(a) = 6 \/ Len(a) = 7 \/ Len(a) = 8
  BY <1>1
<1> QED
  BY <1>4, <1>6, <1>7, <1>8, <1>9
-----------------------------------------------------------------------------
(* The answer and the request, as the handler reads them.                  *)

LEMMA FirstIsTyped ==
    ASSUME NEW W, NEW U, NEW u \in Seq(W), NEW t \in Seq(W), NEW v \in Seq(U), u \o t = v
    PROVE  u \in Seq(U)
<1>1. /\ Len(u) \in Nat /\ Len(t) \in Nat /\ Len(u \o t) = Len(u) + Len(t)
      /\ \A i \in 1 .. Len(u) + Len(t) : (u \o t)[i] = IF i <= Len(u) THEN u[i] ELSE t[i - Len(u)]
  BY ConcatProperties, LenProperties
<1>2. ASSUME NEW i \in 1 .. Len(u) PROVE u[i] \in U
  <2>1. i \in 1 .. Len(v) /\ v[i] = u[i]
    BY <1>1
  <2> QED
    BY <2>1, ElementOfSeq
<1> QED
  BY <1>2, IsASeq

\* A text that ends inside a pair: the pair is not there yet, or it has the first words
\* of its value.
PairRead(b, E, k, v, whole) ==
    \/ ~whole /\ Scan(b).entries = E
    \/ \E u \in Seq(Words \ {Backslash}), t \in Seq(Words) :
           /\ u \o t = v /\ (whole => u = v)
           /\ Scan(b).entries = Append(E, Entry(k, u))

LEMMA PairStart ==
    ASSUME NEW b, NEW E, Reads(b, E), NEW k \in SessionKeys, NEW s \in Seq(Words), NEW t \in Seq(Words),
           s \o t = <<Backslash, k, Backslash>>
    PROVE  /\ Scan(b \o s).entries = E \/ Scan(b \o s).entries = Append(E, Entry(k, << >>))
           /\ t = << >> => Scan(b \o s).entries = Append(E, Entry(k, << >>))
<1> DEFINE K == <<Backslash, k, Backslash>>
<1>1. K \in Seq(Words) /\ Len(K) = 3 /\ K[1] = Backslash /\ K[2] = k /\ K[3] = Backslash
  BY WordsClosed
<1>2. /\ Len(s) \in Nat /\ Len(t) \in Nat /\ Len(s) + Len(t) = 3
      /\ \A i \in 1 .. Len(s) : s[i] = K[i]
  <2>1. /\ Len(s \o t) = Len(s) + Len(t) /\ Len(s) \in Nat /\ Len(t) \in Nat
        /\ \A i \in 1 .. Len(s) + Len(t) : (s \o t)[i] = IF i <= Len(s) THEN s[i] ELSE t[i - Len(s)]
    BY ConcatProperties, LenProperties
  <2>2. s \o t = K
    OBVIOUS
  <2> HIDE DEF K
  <2> QED
    BY <1>1, <2>1, <2>2
<1> HIDE DEF K
<1>3. Len(s) = 0 \/ Len(s) = 1 \/ Len(s) = 2 \/ Len(s) = 3
  <2>1. \A m, n \in Nat : m + n = 3 => m = 0 \/ m = 1 \/ m = 2 \/ m = 3
    OBVIOUS
  <2> QED
    BY <1>2, <2>1
<1>4. b \in Seq(Words) /\ Scan(b).entries = E /\ k \in Keys
  BY DEF Reads, Keys
<1>5. CASE Len(s) = 0
  <2>1. b \o s = b
    BY <1>4, <1>5, EmptySeq, ConcatEmptySeq
  <2>2. t # << >>
    BY <1>2, <1>5, EmptySeq
  <2> QED
    BY <1>4, <2>1, <2>2
<1>6. CASE Len(s) = 1
  <2>1. s = <<Backslash>>
    BY <1>1, <1>2, <1>6
  <2>2. t # << >>
    BY <1>2, <1>6, EmptySeq
  <2>3. Scan(b \o <<Backslash>>).entries = E
    BY ReadsBlank DEF Reads
  <2> QED
    BY <2>1, <2>2, <2>3
<1>7. CASE Len(s) = 2
  <2>1. s = <<Backslash, k>>
    BY <1>1, <1>2, <1>7
  <2>2. t # << >>
    BY <1>2, <1>7, EmptySeq
  <2>3. Scan(b \o <<Backslash, k>>).entries = E
    <3>1. Scan(b \o <<Backslash, k>>) = [key |-> <<k>>, entries |-> E]
      BY <1>4, ReadsKey
    <3> QED
      BY <3>1
  <2> QED
    BY <2>1, <2>2, <2>3
<1>8. CASE Len(s) = 3
  <2>1. s = K
    <3>1. Len(s) = Len(K) /\ \A i \in 1 .. Len(s) : s[i] = K[i]
      BY <1>1, <1>2, <1>8
    <3> QED
      BY <1>1, <3>1, SeqEqual
  <2>2. Pair(k, << >>) = K
    BY <1>1, ConcatEmptySeq DEF Pair, K
  <2>3. << >> \in Seq(Words \ {Backslash})
    BY EmptySeq
  <2>4. Reads(b \o Pair(k, << >>), Append(E, Entry(k, << >>)))
    BY <1>4, <2>3, ReadsPair
  <2> QED
    BY <2>1, <2>2, <2>4 DEF Reads
<1> QED
  BY <1>3, <1>5, <1>6, <1>7, <1>8

LEMMA PairPrefix ==
    ASSUME NEW b, NEW E, Reads(b, E), NEW k \in SessionKeys, NEW v \in Seq(Words \ {Backslash}),
           NEW s \in Seq(Words), NEW d \in Seq(Words), SameStream(s, d, Pair(k, v), << >>)
    PROVE  PairRead(b \o s, E, k, v, d = << >>)
<1> DEFINE K == <<Backslash, k, Backslash>>
<1>1. K \in Seq(Words) /\ v \in Seq(Words) /\ k \in Keys /\ k \in Words
  BY WordsClosed, SeqMonotonic DEF Keys
<1>2. SameStream(s, d, K, v)
  <2>1. Pair(k, v) \in Seq(Words)
    BY <1>1, PairTyped
  <2>2. Pair(k, v) \o << >> = Pair(k, v)
    BY <2>1, ConcatEmptySeq
  <2> QED
    BY <2>2 DEF SameStream, Pair
<1> HIDE DEF K
<1>3. CASE Begins(Words, s, d, K, v)
  <2>1. PICK u \in Seq(Words) : s = K \o u /\ u \o d = v
    BY <1>3 DEF Begins
  <2>2. u \in Seq(Words \ {Backslash})
    BY <2>1, FirstIsTyped
  <2>3. Reads(b \o Pair(k, u), Append(E, Entry(k, u)))
    BY <1>1, <2>2, ReadsPair
  <2>4. s = Pair(k, u)
    BY <2>1 DEF K, Pair
  <2>5. d = << >> => u = v
    BY <2>1, ConcatEmptySeq
  <2>6. Scan(b \o s).entries = Append(E, Entry(k, u))
    BY <2>3, <2>4 DEF Reads
  <2>7. u \o d = v /\ (d = << >> => u = v)
    BY <2>1, <2>5
  <2> QED
    BY <2>2, <2>6, <2>7 DEF PairRead
<1>4. CASE Begins(Words, K, v, s, d)
  <2>1. PICK t \in Seq(Words) : K = s \o t /\ t \o v = d
    BY <1>4 DEF Begins
  <2>2. s \o t = <<Backslash, k, Backslash>>
    BY <2>1 DEF K
  <2>3. /\ Scan(b \o s).entries = E \/ Scan(b \o s).entries = Append(E, Entry(k, << >>))
        /\ t = << >> => Scan(b \o s).entries = Append(E, Entry(k, << >>))
    BY <2>2, PairStart, ZenonT(30)
  <2>4. d = << >> => t = << >> /\ v = << >>
    BY <1>1, <2>1, ConcatEqualIffEmpty
  <2>5. << >> \in Seq(Words \ {Backslash}) /\ << >> \o v = v
    BY <1>1, EmptySeq, ConcatEmptySeq
  <2>6. CASE d # << >> /\ Scan(b \o s).entries = E
    BY <2>6 DEF PairRead
  <2>7. CASE Scan(b \o s).entries = Append(E, Entry(k, << >>))
    BY <1>1, <2>4, <2>5, <2>7 DEF PairRead
  <2> QED
    BY <2>3, <2>4, <2>6, <2>7
<1> QED
  BY <1>1, <1>2, <1>3, <1>4, DivideTwice

Elements(data) == {data[i] : i \in 1 .. Len(data)}

LEMMA ElementsAppend ==
    ASSUME NEW S, NEW data \in Seq(S), NEW e \in S
    PROVE  Elements(Append(data, e)) = Elements(data) \cup {e}
<1> DEFINE c == Append(data, e)
<1>1. /\ Len(data) \in Nat /\ Len(c) = Len(data) + 1 /\ c[Len(data) + 1] = e
      /\ \A i \in 1 .. Len(data) : c[i] = data[i]
  BY AppendProperties, LenProperties
<1> HIDE DEF c
<1>2. ASSUME NEW x \in Elements(c) PROVE x \in Elements(data) \cup {e}
  <2>1. PICK i \in 1 .. Len(data) + 1 : x = c[i]
    BY <1>1 DEF Elements
  <2>2. i = Len(data) + 1 \/ i \in 1 .. Len(data)
    BY <1>1
  <2> QED
    BY <1>1, <2>1, <2>2 DEF Elements
<1>3. Elements(data) \subseteq Elements(c)
  <2>1. \A i \in 1 .. Len(data) : i \in 1 .. Len(c)
    BY <1>1
  <2> QED
    BY <1>1, <2>1 DEF Elements
<1>4. e \in Elements(c)
  <2>1. Len(data) + 1 \in 1 .. Len(c)
    BY <1>1
  <2> QED
    BY <1>1, <2>1 DEF Elements
<1> QED
  BY <1>2, <1>3, <1>4 DEF c

LEMMA NoElements == Elements(<< >>) = {}
  BY EmptySeq DEF Elements

\* The answer up to the terminator, and what it is read as.
Fore(v) == (IF v = << >> THEN << >> ELSE Pair("validate", v)) \o Pair("gamename", <<SelfGame>>)

Answered(v) == (IF v = << >> THEN {} ELSE {Entry("validate", v)})
    \cup {Entry("gamename", <<SelfGame>>), Entry("final", << >>)}

AnswerWords == {<< >>, <<"invalid!">>, <<Cipher[SelfGame]>>}

LEMMA AnswerTyped ==
    /\ AnswerWords \subseteq Seq(Words \ {Backslash}) /\ AnswerWords \subseteq Seq(Words)
    /\ <<SelfGame>> \in Seq(Words \ {Backslash}) /\ <<Msid>> \in Seq(Words \ {Backslash})
    /\ << >> \in Seq(Words \ {Backslash}) /\ SyncGames \in Seq(Words \ {Backslash})
    /\ <<SelfGame>> \in Seq(Words) /\ <<Msid>> \in Seq(Words)
    /\ << >> \in Seq(Words) /\ SyncGames \in Seq(Words)
    /\ SyncGames \in Seq(SyncWords)
<1>1. /\ {"SEC", "RET", "invalid!", Msid, SelfGame, Cipher[SelfGame]} \subseteq Words \ {Backslash}
      /\ SyncWords \subseteq Words \ {Backslash}
  BY WordsClosed
<1>2. SyncGames \in Seq(SyncWords)
  BY SessionAssumption DEF SyncWords
<1>3. << >> \in Seq(Words \ {Backslash})
  BY EmptySeq
<1>4. /\ <<SelfGame>> \in Seq(Words \ {Backslash}) /\ <<Msid>> \in Seq(Words \ {Backslash})
      /\ <<"invalid!">> \in Seq(Words \ {Backslash}) /\ <<Cipher[SelfGame]>> \in Seq(Words \ {Backslash})
  BY <1>1
<1>5. SyncGames \in Seq(Words \ {Backslash})
  BY <1>1, <1>2, SeqMonotonic
<1>6. Seq(Words \ {Backslash}) \subseteq Seq(Words)
  BY SeqMonotonic
<1> QED
  BY <1>2, <1>3, <1>4, <1>5, <1>6 DEF AnswerWords

LEMMA ReplyRead ==
    ASSUME NEW v \in AnswerWords
    PROVE  /\ ReplyOf(v) = Fore(v) \o Final /\ Fore(v) \in Seq(Words) /\ Final \in Seq(Words)
           /\ \E E : Reads(ReplyOf(v), E) /\ Elements(E) = Answered(v)
<1>1. /\ v \in Seq(Words \ {Backslash}) /\ v \in Seq(Words) /\ <<SelfGame>> \in Seq(Words)
      /\ <<SelfGame>> \in Seq(Words \ {Backslash}) /\ << >> \in Seq(Words \ {Backslash})
      /\ {"validate", "gamename", "final"} \subseteq SessionKeys /\ SessionKeys \subseteq Words
      /\ Backslash \in Words
  BY AnswerTyped, WordsClosed DEF SessionKeys
<1>2. /\ Text(<< <<"gamename", <<SelfGame>> >> >>) = Pair("gamename", <<SelfGame>>)
      /\ Pair("gamename", <<SelfGame>>) \in Seq(Words)
  BY <1>1, TextOfOne
<1>3. v # << >> => Text(<< <<"validate", v>> >>) = Pair("validate", v) /\ Pair("validate", v) \in Seq(Words)
  BY <1>1, TextOfOne
<1> DEFINE a == IF v = << >> THEN << >> ELSE Pair("validate", v)
           g == Pair("gamename", <<SelfGame>>)
           E1 == IF v = << >> THEN << >> ELSE Append(<< >>, Entry("validate", v))
           E2 == Append(E1, Entry("gamename", <<SelfGame>>))
           E3 == Append(E2, Entry("final", << >>))
<1>4. a \in Seq(Words) /\ g \in Seq(Words)
  BY <1>2, <1>3, EmptySeq
<1>5. Final \in Seq(Words) /\ Final = Pair("final", << >>)
  <2>1. Final \in Seq(Words)
    BY <1>1 DEF Final
  <2>2. Final \o << >> = Final
    BY <2>1, ConcatEmptySeq
  <2> QED
    BY <2>1, <2>2 DEF Final, Pair
<1>6. Fore(v) \in Seq(Words) /\ Fore(v) = a \o g
  BY <1>4, ConcatProperties DEF Fore
<1>7. ReplyOf(v) = Fore(v) \o Final
  <2>1. ReplyOf(v) = a \o g \o Final
    BY <1>2, <1>3 DEF ReplyOf
  <2> QED
    BY <1>6, <2>1
<1>8. Reads(a, E1) /\ Elements(E1) = (IF v = << >> THEN {} ELSE {Entry("validate", v)})
  <2>1. CASE v = << >>
    BY <2>1, ReadsNothing, NoElements
  <2>2. CASE v # << >>
    <3>1. Reads(<< >> \o Pair("validate", v), Append(<< >>, Entry("validate", v)))
      BY <1>1, ReadsNothing, ReadsPair DEF Keys
    <3>2. << >> \o Pair("validate", v) = Pair("validate", v)
      BY <1>3, <2>2, ConcatEmptySeq
    <3>3. Entry("validate", v) \in {Entry("validate", v)} /\ << >> \in Seq({Entry("validate", v)})
      BY EmptySeq
    <3>4. Elements(Append(<< >>, Entry("validate", v))) = {} \cup {Entry("validate", v)}
      BY <3>3, ElementsAppend, NoElements
    <3> QED
      BY <2>2, <3>1, <3>2, <3>4
  <2> QED
    BY <2>1, <2>2
<1> HIDE DEF a, g, E1
<1>9. Reads(a \o g, E2) /\ E2 \in Seq(Entries(Words)) /\ Elements(E2) = Elements(E1) \cup {Entry("gamename", <<SelfGame>>)}
  <2>1. Reads(a \o Pair("gamename", <<SelfGame>>), Append(E1, Entry("gamename", <<SelfGame>>)))
    BY <1>1, <1>8, ReadsPair DEF Keys
  <2>2. E1 \in Seq(Entries(Words))
    BY <1>8, ReadsTyped
  <2>3. Entry("gamename", <<SelfGame>>) \in Entries(Words)
    <3>1. <<"gamename">> \in Seq(Words)
      BY <1>1
    <3> QED
      BY <1>1, <3>1 DEF Entry, Entries
  <2> QED
    BY <2>1, <2>2, <2>3, ElementsAppend, ReadsTyped DEF g
<1> HIDE DEF E2
<1>10. Reads((a \o g) \o Final, E3) /\ Elements(E3) = Elements(E2) \cup {Entry("final", << >>)}
  <2>1. Reads((a \o g) \o Pair("final", << >>), Append(E2, Entry("final", << >>)))
    BY <1>1, <1>9, ReadsPair DEF Keys
  <2>2. Entry("final", << >>) \in Entries(Words)
    <3>1. <<"final">> \in Seq(Words) /\ << >> \in Seq(Words)
      BY <1>1, EmptySeq
    <3> QED
      BY <3>1 DEF Entry, Entries
  <2> QED
    BY <1>5, <1>9, <2>1, <2>2, ElementsAppend
<1>11. Elements(E3) = Answered(v)
  BY <1>8, <1>9, <1>10 DEF Answered
<1> QED
  BY <1>5, <1>6, <1>7, <1>10, <1>11

\* What can be read of the request behind an answer: nothing, some of the games, or all
\* of them and some of the identity.
RequestRead(data, v, whole) ==
    \/ ~whole /\ Elements(data) = Answered(v)
    \/ ~whole /\ \E u \in Seq(SyncWords), t \in Seq(Words) :
           u \o t = SyncGames /\ Elements(data) = Answered(v) \cup {Entry("sync", u)}
    \/ \E m \in Seq(Words) :
           /\ whole => m = <<Msid>>
           /\ Elements(data) = Answered(v) \cup {Entry("sync", SyncGames), Entry("msid", m)}

LEMMA ConcatOfThree == \A b, c, d \in Seq(Words) : (b \o c) \o d = b \o (c \o d)
  BY ConcatAssociative

TwoPairs(k, v, l, w) == Text(<< <<k, v>>, <<l, w>> >>)

LEMMA TextOfTwo ==
    ASSUME NEW k \in Words, NEW v \in Seq(Words), NEW l \in Words, NEW w \in Seq(Words)
    PROVE  TwoPairs(k, v, l, w) = Pair(k, v) \o Pair(l, w)
<1>1. Pair(k, v) \in Seq(Words) /\ Pair(l, w) \in Seq(Words)
  BY PairTyped
<1> DEFINE pairs == << <<k, v>>, <<l, w>> >>
<1>2. [i \in DOMAIN pairs |-> <<Backslash, pairs[i][1], Backslash>> \o pairs[i][2]]
        = << Pair(k, v), Pair(l, w) >>
  BY DEF Pair
<1> QED
  BY <1>1, <1>2, FlattenTwo DEF Text, TwoPairs

LEMMA RequestText ==
    /\ SyncRequest = Pair("sync", SyncGames) \o Pair("msid", <<Msid>>)
    /\ Pair("sync", SyncGames) \in Seq(Words) /\ Pair("msid", <<Msid>>) \in Seq(Words)
    /\ SyncRequest \in Seq(Words)
<1>1. Backslash \in Words /\ "sync" \in Words /\ "msid" \in Words
  BY WordsClosed DEF SessionKeys
<1>2. SyncGames \in Seq(Words) /\ <<Msid>> \in Seq(Words)
  BY AnswerTyped
<1>3. SyncRequest = Pair("sync", SyncGames) \o Pair("msid", <<Msid>>)
  <2> DEFINE k == "sync"
             l == "msid"
             w == <<Msid>>
  <2>1. Backslash \in Words /\ k \in Words /\ l \in Words /\ SyncGames \in Seq(Words) /\ w \in Seq(Words)
    BY <1>1, <1>2
  <2>2. SyncRequest = TwoPairs(k, SyncGames, l, w)
    BY DEF SyncRequest, TwoPairs
  <2> HIDE DEF k, l, w
  <2>3. TwoPairs(k, SyncGames, l, w) = Pair(k, SyncGames) \o Pair(l, w)
    BY <2>1, TextOfTwo
  <2>4. SyncRequest = Pair(k, SyncGames) \o Pair(l, w)
    BY <2>2, <2>3
  <2> QED
    BY <2>4 DEF k, l, w
<1>4. Pair("sync", SyncGames) \in Seq(Words) /\ Pair("msid", <<Msid>>) \in Seq(Words)
  BY <1>1, <1>2, PairTyped
<1> QED
  BY <1>3, <1>4, ConcatProperties

LEMMA ElementsOfEntries ==
    ASSUME NEW E \in Seq(Entries(Words)), NEW k \in Words, NEW u \in Seq(Words)
    PROVE  Elements(Append(E, Entry(k, u))) = Elements(E) \cup {Entry(k, u)}
<1>1. Entry(k, u) \in Entries(Words)
  <2>1. <<k>> \in Seq(Words)
    OBVIOUS
  <2> QED
    BY <2>1 DEF Entry, Entries
<1> QED
  BY <1>1, ElementsAppend

LEMMA RequestCut ==
    ASSUME NEW v \in AnswerWords, NEW s \in Seq(Words), NEW d \in Seq(Words),
           SameStream(s, d, SyncRequest, << >>)
    PROVE  RequestRead(Scan(ReplyOf(v) \o s).entries, v, d = << >>)
<1> DEFINE P1 == Pair("sync", SyncGames)
           P2 == Pair("msid", <<Msid>>)
           b == ReplyOf(v)
<1>1. /\ P1 \in Seq(Words) /\ P2 \in Seq(Words) /\ SyncRequest = P1 \o P2 /\ SyncRequest \in Seq(Words)
      /\ << >> \in Seq(Words)
  BY RequestText, EmptySeq
<1>2. PICK E : Reads(b, E) /\ Elements(E) = Answered(v)
  BY ReplyRead
<1>3. SameStream(s, d, P1, P2)
  <2>1. SyncRequest \o << >> = SyncRequest
    BY <1>1, ConcatEmptySeq
  <2> QED
    BY <1>1, <2>1 DEF SameStream
<1>4. /\ "sync" \in SessionKeys /\ "msid" \in SessionKeys /\ "sync" \in Words /\ "msid" \in Words
      /\ SyncGames \in Seq(Words \ {Backslash}) /\ <<Msid>> \in Seq(Words \ {Backslash})
      /\ SyncGames \in Seq(SyncWords) /\ SyncGames \in Seq(Words)
  BY AnswerTyped, WordsClosed DEF SessionKeys
<1>5. E \in Seq(Entries(Words)) /\ b \in Seq(Words)
  BY <1>2, ReadsTyped DEF Reads
<1> DEFINE E1 == Append(E, Entry("sync", SyncGames))
<1>6. Elements(E1) = Answered(v) \cup {Entry("sync", SyncGames)}
  BY <1>2, <1>4, <1>5, ElementsOfEntries
<1>7. Reads(b \o P1, E1) /\ E1 \in Seq(Entries(Words))
  <2>1. Reads(b \o Pair("sync", SyncGames), Append(E, Entry("sync", SyncGames)))
    BY <1>2, <1>4, ReadsPair DEF Keys
  <2> QED
    BY <2>1, ReadsTyped
<1> HIDE DEF P1, P2, b, E1
<1>8. CASE Begins(Words, P1, P2, s, d)
  <2>1. PICK t \in Seq(Words) : P1 = s \o t /\ t \o P2 = d
    BY <1>8 DEF Begins
  <2>2. SameStream(s, t, Pair("sync", SyncGames), << >>)
    <3>1. P1 \o << >> = P1
      BY <1>1, ConcatEmptySeq
    <3> QED
      BY <2>1, <3>1 DEF SameStream, P1
  <2>3. d # << >>
    <3>1. P2 # << >>
      <4>1. Len(P2) = 4
        <5>1. <<Backslash, "msid", Backslash>> \in Seq(Words) /\ Len(<<Backslash, "msid", Backslash>>) = 3
          BY <1>4, WordsClosed
        <5>2. Len(<<Msid>>) = 1
          OBVIOUS
        <5> QED
          BY <1>4, <5>1, <5>2, ConcatProperties, AnswerTyped DEF P2, Pair
      <4> QED
        BY <4>1, EmptySeq
    <3> QED
      BY <1>1, <2>1, <3>1, ConcatEqualIffEmpty
  <2>4. PairRead(b \o s, E, "sync", SyncGames, t = << >>)
    BY <1>2, <1>4, <2>2, PairPrefix
  <2>5. CASE Scan(b \o s).entries = E
    BY <1>2, <2>3, <2>5 DEF RequestRead, b
  <2>6. CASE \E u \in Seq(Words \ {Backslash}), r \in Seq(Words) :
                 u \o r = SyncGames /\ Scan(b \o s).entries = Append(E, Entry("sync", u))
    <3>1. PICK u \in Seq(Words \ {Backslash}), r \in Seq(Words) :
                 u \o r = SyncGames /\ Scan(b \o s).entries = Append(E, Entry("sync", u))
      BY <2>6
    <3>2. u \in Seq(Words)
      BY SeqMonotonic
    <3>3. u \in Seq(SyncWords)
      BY <1>4, <3>1, <3>2, FirstIsTyped
    <3>4. Elements(Scan(b \o s).entries) = Answered(v) \cup {Entry("sync", u)}
      BY <1>2, <1>4, <1>5, <3>1, <3>2, ElementsOfEntries
    <3> QED
      BY <2>3, <3>1, <3>3, <3>4 DEF RequestRead, b
  <2> QED
    BY <2>4, <2>5, <2>6 DEF PairRead
<1>9. CASE Begins(Words, s, d, P1, P2)
  <2>1. PICK r \in Seq(Words) : s = P1 \o r /\ r \o d = P2
    BY <1>9 DEF Begins
  <2>2. SameStream(r, d, Pair("msid", <<Msid>>), << >>)
    <3>1. P2 \o << >> = P2
      BY <1>1, ConcatEmptySeq
    <3> QED
      BY <2>1, <3>1 DEF SameStream, P2
  <2>3. PairRead((b \o P1) \o r, E1, "msid", <<Msid>>, d = << >>)
    BY <1>4, <1>7, <2>2, PairPrefix
  <2>4. (b \o P1) \o r = b \o s
    <3>1. b \in Seq(Words) /\ P1 \in Seq(Words) /\ r \in Seq(Words)
      BY <1>1, <1>5
    <3>4. (b \o P1) \o r = b \o (P1 \o r)
      BY <3>1, ConcatOfThree, ZenonT(30)
    <3> QED
      BY <2>1, <3>4
  <2>5. CASE d # << >> /\ Scan(b \o s).entries = E1
    <3>1. SyncGames \o << >> = SyncGames
      BY <1>4, ConcatEmptySeq
    <3> QED
      BY <1>1, <1>4, <1>6, <2>5, <3>1 DEF RequestRead, b
  <2>6. CASE \E u \in Seq(Words \ {Backslash}) :
                 (d = << >> => u = <<Msid>>) /\ Scan(b \o s).entries = Append(E1, Entry("msid", u))
    <3>1. PICK u \in Seq(Words \ {Backslash}) :
                 (d = << >> => u = <<Msid>>) /\ Scan(b \o s).entries = Append(E1, Entry("msid", u))
      BY <2>6
    <3>2. u \in Seq(Words)
      BY SeqMonotonic
    <3>3. Elements(Scan(b \o s).entries) = Elements(E1) \cup {Entry("msid", u)}
      BY <1>4, <1>7, <3>1, <3>2, ElementsOfEntries
    <3>4. Elements(Scan(b \o s).entries) = Answered(v) \cup {Entry("sync", SyncGames), Entry("msid", u)}
      BY <1>6, <3>3
    <3> QED
      BY <3>1, <3>2, <3>4 DEF RequestRead, b
  <2> QED
    BY <2>3, <2>4, <2>5, <2>6 DEF PairRead
<1> QED
  BY <1>1, <1>3, <1>8, <1>9, DivideTwice
-----------------------------------------------------------------------------
(* What the handler makes of an answer and a request.                      *)

\* The first of the games that are asked for; "all" stands alone.
Asked(u) == /\ u \in Seq(SyncWords)
            /\ IF SyncGames = <<"all">> THEN u \in {<< >>, <<"all">>} ELSE u # <<"all">>

Understood(data, v, whole) ==
    /\ data \in Seq(Entries(Words))
    /\ ~HasKey(data, "list") /\ ~HasKey(data, "echo")
    /\ OnlyValue(data, "gamename", <<SelfGame>>)
    /\ v = << >> => ~HasKey(data, "validate")
    /\ v # << >> => OnlyValue(data, "validate", v)
    /\ \/ ~whole /\ ~HasKey(data, "sync")
       \/ \E u : /\ Asked(u) /\ OnlyValue(data, "sync", u)
                 /\ whole => u = SyncGames /\ OnlyValue(data, "msid", <<Msid>>)

LEMMA OnlyElement ==
    ASSUME NEW data, NEW k, NEW v, Entry(k, v) \in Elements(data),
           \A e \in Elements(data) : e.key = <<k>> => e.value = v
    PROVE  OnlyValue(data, k, v)
<1>1. Entry(k, v).key = <<k>>
  BY DEF Entry
<1> QED
  BY <1>1 DEF OnlyValue, Elements

LEMMA NoElement ==
    ASSUME NEW S, NEW data \in Seq(S), NEW k, \A e \in Elements(data) : e.key # <<k>>
    PROVE  ~HasKey(data, k)
<1>1. \A i \in 1 .. Len(data) : data[i].key # <<k>>
  BY DEF Elements
<1> QED
  BY <1>1, NoKey

LEMMA EntryFields == \A k, v : Entry(k, v).key = <<k>> /\ Entry(k, v).value = v
  BY DEF Entry

LEMMA AskedFirst ==
    ASSUME NEW u \in Seq(SyncWords), NEW t \in Seq(Words), u \o t = SyncGames
    PROVE  Asked(u)
<1>1. ASSUME u = <<"all">> PROVE "all" \in SyncWords
  <2>1. Len(u) = 1 /\ u[1] = "all"
    BY <1>1
  <2>2. 1 \in 1 .. Len(u)
    BY <2>1
  <2>3. u[1] \in SyncWords
    BY <2>2, ElementOfSeq
  <2> QED
    BY <2>1, <2>3
<1>2. ASSUME SyncGames = <<"all">> PROVE u \in {<< >>, <<"all">>}
  <2>1. u \in Seq(Words) /\ Len(u) \in Nat /\ Len(t) \in Nat
    BY WordsClosed, SeqMonotonic, LenProperties
  <2>2. Len(u) + Len(t) = 1
    <3>1. Len(u \o t) = Len(u) + Len(t)
      BY <2>1, ConcatProperties
    <3> QED
      BY <1>2, <3>1
  <2>3. Len(u) = 0 \/ Len(u) = 1
    <3>1. \A m, n \in Nat : m + n = 1 => m = 0 \/ m = 1
      OBVIOUS
    <3> QED
      BY <2>1, <2>2, <3>1
  <2>4. CASE Len(u) = 0
    BY <2>4, EmptySeq
  <2>5. CASE Len(u) = 1
    <3>1. SyncWords = {"all"}
      <4>1. DOMAIN SyncGames = {1} /\ SyncGames[1] = "all"
        BY <1>2
      <4> QED
        BY <4>1 DEF SyncWords
    <3>2. u[1] \in SyncWords
      <4>1. 1 \in 1 .. Len(u)
        BY <2>5
      <4> QED
        BY <4>1, ElementOfSeq
    <3>3. u[1] = "all"
      BY <3>1, <3>2
    <3> QED
      BY <2>5, <3>3
  <2> QED
    BY <2>3, <2>4, <2>5
<1> QED
  BY <1>1, <1>2, SessionAssumption DEF Asked

LEMMA RequestUnderstood ==
    ASSUME NEW v \in AnswerWords, NEW s \in Seq(Words), NEW d \in Seq(Words),
           SameStream(s, d, SyncRequest, << >>)
    PROVE  Understood(ParseGameSpy0Buffer(ReplyOf(v) \o s), v, d = << >>)
<1> DEFINE b == ReplyOf(v) \o s
           data == Scan(b).entries
<1>1. RequestRead(data, v, d = << >>)
  BY RequestCut
<1>2. b \in Seq(Words)
  <2>1. ReplyOf(v) \in Seq(Words)
    BY ReplyRead DEF Reads
  <2> QED
    BY <2>1, ConcatProperties
<1>3. data \in Seq(Entries(Words))
  BY <1>2, WordsClosed, ScanTyped DEF States
<1> HIDE DEF b, data
<1>4. \A e \in Elements(data) : \/ v # << >> /\ e = Entry("validate", v)
                                \/ e = Entry("gamename", <<SelfGame>>)
                                \/ e = Entry("final", << >>)
                                \/ \E u : e = Entry("sync", u)
                                \/ \E m : e = Entry("msid", m)
  BY <1>1 DEF RequestRead, Answered
<1>5. /\ \A k, l \in {"validate", "gamename", "final", "sync", "msid", "list", "echo"} : <<k>> = <<l>> => k = l
      /\ \A k \in {"validate", "gamename", "final", "sync", "msid"} : k # "list" /\ k # "echo"
      /\ \A k, l \in {"validate", "gamename", "final", "sync", "msid"} : k = l \/ <<k>> # <<l>>
      /\ <<"gamename">> # <<"validate">> /\ <<"gamename">> # <<"final">> /\ <<"gamename">> # <<"sync">>
      /\ <<"gamename">> # <<"msid">>
  OBVIOUS
<1>6. \A e \in Elements(data) : e.key = <<"gamename">> => e.value = <<SelfGame>>
  <2>1. ASSUME NEW e \in Elements(data), e.key = <<"gamename">> PROVE e = Entry("gamename", <<SelfGame>>)
    BY <1>4, <1>5, <2>1, EntryFields
  <2> QED
    BY <2>1, EntryFields
<1>7. ParseGameSpy0Buffer(b) = data
  <2>1. \A i \in 1 .. Len(data) : data[i].key = <<"gamename">> => data[i].value = <<SelfGame>>
    BY <1>6 DEF Elements
  <2> QED
    BY <1>2, <2>1, ParseOf DEF data
<1>8. ~HasKey(data, "list") /\ ~HasKey(data, "echo")
  <2>1. \A e \in Elements(data) : e.key # <<"list">> /\ e.key # <<"echo">>
    BY <1>4, <1>5, EntryFields
  <2> QED
    BY <1>3, <2>1, NoElement
<1>9. OnlyValue(data, "gamename", <<SelfGame>>)
  <2>1. Entry("gamename", <<SelfGame>>) \in Elements(data)
    BY <1>1 DEF RequestRead, Answered
  <2> QED
    BY <1>6, <2>1, OnlyElement
<1>10. v = << >> => ~HasKey(data, "validate")
  <2>1. v = << >> => \A e \in Elements(data) : e.key # <<"validate">>
    BY <1>4, <1>5, EntryFields
  <2> QED
    BY <1>3, <2>1, NoElement
<1>11. v # << >> => OnlyValue(data, "validate", v)
  <2>1. v # << >> => Entry("validate", v) \in Elements(data)
    BY <1>1 DEF RequestRead, Answered
  <2>2. \A e \in Elements(data) : e.key = <<"validate">> => e.value = v
    BY <1>4, <1>5, EntryFields
  <2> QED
    BY <2>1, <2>2, OnlyElement
<1>12. CASE d # << >> /\ Elements(data) = Answered(v)
  <2>1. \A e \in Elements(data) : e.key # <<"sync">>
    BY <1>5, <1>12, EntryFields DEF Answered
  <2>2. ~HasKey(data, "sync")
    BY <1>3, <2>1, NoElement
  <2> QED
    BY <1>3, <1>7, <1>8, <1>9, <1>10, <1>11, <1>12, <2>2 DEF Understood, b
<1>13. CASE d # << >> /\ \E u \in Seq(SyncWords), t \in Seq(Words) :
                u \o t = SyncGames /\ Elements(data) = Answered(v) \cup {Entry("sync", u)}
  <2>1. PICK u \in Seq(SyncWords), t \in Seq(Words) :
                u \o t = SyncGames /\ Elements(data) = Answered(v) \cup {Entry("sync", u)}
    BY <1>13
  <2>2. Asked(u)
    BY <2>1, AskedFirst
  <2>3. \A e \in Elements(data) : e.key = <<"sync">> => e.value = u
    BY <1>5, <2>1, EntryFields DEF Answered
  <2>4. OnlyValue(data, "sync", u)
    BY <2>1, <2>3, OnlyElement
  <2> QED
    BY <1>3, <1>7, <1>8, <1>9, <1>10, <1>11, <1>13, <2>2, <2>4 DEF Understood, b
<1>14. CASE \E m \in Seq(Words) :
                /\ d = << >> => m = <<Msid>>
                /\ Elements(data) = Answered(v) \cup {Entry("sync", SyncGames), Entry("msid", m)}
  <2>1. PICK m \in Seq(Words) :
                /\ d = << >> => m = <<Msid>>
                /\ Elements(data) = Answered(v) \cup {Entry("sync", SyncGames), Entry("msid", m)}
    BY <1>14
  <2>2. Asked(SyncGames)
    <3>1. SyncGames \o << >> = SyncGames /\ SyncGames \in Seq(SyncWords) /\ << >> \in Seq(Words)
      BY AnswerTyped, ConcatEmptySeq
    <3> QED
      BY <3>1, AskedFirst
  <2>3. \A e \in Elements(data) : /\ e.key = <<"sync">> => e.value = SyncGames
                                  /\ e.key = <<"msid">> => e.value = m
    BY <1>5, <2>1, EntryFields DEF Answered
  <2>4. OnlyValue(data, "sync", SyncGames) /\ OnlyValue(data, "msid", m)
    BY <2>1, <2>3, OnlyElement
  <2> QED
    BY <1>3, <1>7, <1>8, <1>9, <1>10, <1>11, <2>1, <2>2, <2>4 DEF Understood, b
<1> QED
  BY <1>1, <1>12, <1>13, <1>14 DEF RequestRead
-----------------------------------------------------------------------------
(* The games of a request.                                                 *)

LEMMA PickTyped ==
    ASSUME NEW T, NEW s \in Seq(T), NEW ids
    PROVE  /\ Pick(s, ids) \in Seq(T)
           /\ \A j \in 1 .. Len(Pick(s, ids)) : \E i \in 1 .. Len(s) : i \in ids /\ Pick(s, ids)[j] = s[i]
           /\ \A i \in 1 .. Len(s) : i \in ids => \E j \in 1 .. Len(Pick(s, ids)) : Pick(s, ids)[j] = s[i]
<1>1. Pick(s, ids) \in Seq(T) /\ PickedUpTo(Pick(s, ids), s, ids, Len(s))
  BY PickMembers
<1>2. DOMAIN Pick(s, ids) = 1 .. Len(Pick(s, ids))
  BY <1>1, LenProperties
<1> QED
  BY <1>1, <1>2 DEF PickedUpTo

LEMMA SyncWordsRead ==
    ASSUME NEW u \in Seq(SyncWords)
    PROVE  /\ ToLower(u) = u
           /\ [i \in DOMAIN u |-> Word(OverrideGamename(<<u[i]>>))] = u
<1>1. \A i \in DOMAIN u : u[i] \in SyncWords
  BY ElementOfSeq, LenProperties
<1>2. \A g \in SyncWords : g \notin DOMAIN LowerCase /\ g \notin DOMAIN ValidGamenames
  BY SessionAssumption
<1>3. u = [i \in DOMAIN u |-> u[i]]
  OBVIOUS
<1>4. ToLower(u) = u
  BY <1>1, <1>2, <1>3 DEF ToLower
<1>5. ASSUME NEW g \in SyncWords PROVE Word(OverrideGamename(<<g>>)) = g
  <2>1. ToLower(<<g>>) = <<g>>
    BY <1>2 DEF ToLower
  <2>2. OverrideGamename(<<g>>) = <<g>>
    BY <1>2, <2>1 DEF OverrideGamename
  <2> QED
    BY <2>2 DEF Word
<1>6. \A i \in DOMAIN u : Word(OverrideGamename(<<u[i]>>)) = u[i]
  BY <1>1, <1>5
<1> QED
  BY <1>3, <1>4, <1>6

\* Those that are served were asked for, and when all that was asked for has arrived
\* the games that have servers and are supported are served.
LEMMA GamesServed ==
    ASSUME serverlist \in Table, NEW S, NEW data \in Seq(S), NEW u, Asked(u), OnlyValue(data, "sync", u)
    PROVE  /\ GamesToSync(data) \in Seq(WantedGames)
           /\ u = SyncGames => \A g \in WantedGames :
                  (IF SyncGames = <<"all">> THEN g \in ActiveGames(serverlist, Ttl, Now) ELSE g \in SupportedGames)
                      => \E k \in 1 .. Len(GamesToSync(data)) : GamesToSync(data)[k] = g
<1> DEFINE active == ActiveGames(serverlist, Ttl, Now)
           ids == {i \in DOMAIN u : u[i] \in SupportedGames}
<1>1. u \in Seq(SyncWords) /\ Value(data, "sync", << >>) = u
  BY ValueOf DEF Asked
<1>2. ToLower(u) = u /\ [i \in DOMAIN u |-> Word(OverrideGamename(<<u[i]>>))] = u
  BY <1>1, SyncWordsRead
<1>3. GamesToSync(data) = IF u = <<"all">> THEN SetToSeq(active) ELSE Pick(u, ids)
  BY <1>1, <1>2, Zenon DEF GamesToSync
<1>4. active \in SUBSET GameName /\ IsFiniteSet(active)
  BY ActiveGamesFinite
<1>5. Lists(SetToSeq(active), active)
  BY <1>4, SetToSeqLists
<1> HIDE DEF active
<1>6. CASE u = <<"all">>
  <2>1. SyncGames = <<"all">>
    BY <1>6 DEF Asked
  <2>2. WantedGames = GameName
    BY <2>1 DEF WantedGames
  <2>3. SetToSeq(active) \in Seq(GameName)
    <3>1. SetToSeq(active) \in Seq(active)
      BY <1>5 DEF Lists
    <3> QED
      BY <1>4, <3>1, SeqMonotonic
  <2>4. GamesToSync(data) = SetToSeq(active)
    BY <1>3, <1>6
  <2>5. \A g \in active : \E k \in 1 .. Len(SetToSeq(active)) : SetToSeq(active)[k] = g
    BY <1>5 DEF Lists
  <2> HIDE DEF ids
  <2> QED
    BY <2>1, <2>2, <2>3, <2>4, <2>5 DEF active
<1>7. CASE u # <<"all">> /\ SyncGames = <<"all">>
  <2>1. u = << >>
    BY <1>7 DEF Asked
  <2>2. Pick(u, ids) = << >>
    <3>1. u \in Seq(WantedGames)
      BY <2>1, EmptySeq
    <3>2. Pick(u, ids) \in Seq(WantedGames) /\ \A j \in 1 .. Len(Pick(u, ids)) : \E i \in 1 .. Len(u) : TRUE
      BY <3>1, PickTyped
    <3>3. Len(Pick(u, ids)) \in Nat /\ Len(u) = 0
      BY <2>1, <3>2, LenProperties
    <3>4. Len(Pick(u, ids)) = 0
      BY <3>2, <3>3
    <3> QED
      BY <3>2, <3>4, EmptySeq
  <2>3. u # SyncGames /\ << >> \in Seq(WantedGames)
    BY <1>7, EmptySeq
  <2> QED
    BY <1>3, <1>7, <2>2, <2>3
<1>8. CASE u # <<"all">> /\ SyncGames # <<"all">>
  <2>1. WantedGames = SyncWords
    BY <1>8 DEF WantedGames
  <2> HIDE DEF ids
  <2>2. /\ Pick(u, ids) \in Seq(SyncWords)
        /\ \A i \in 1 .. Len(u) : i \in ids => \E j \in 1 .. Len(Pick(u, ids)) : Pick(u, ids)[j] = u[i]
    BY <1>1, PickTyped
  <2>3. GamesToSync(data) = Pick(u, ids)
    BY <1>3, <1>8
  <2>4. ASSUME u = SyncGames, NEW g \in WantedGames, g \in SupportedGames
        PROVE  \E k \in 1 .. Len(Pick(u, ids)) : Pick(u, ids)[k] = g
    <3>1. PICK i \in DOMAIN u : u[i] = g
      BY <2>1, <2>4 DEF SyncWords
    <3>2. i \in 1 .. Len(u) /\ i \in ids
      BY <1>1, <2>4, <3>1, LenProperties DEF ids
    <3> QED
      BY <2>2, <3>1, <3>2
  <2> QED
    BY <1>8, <2>1, <2>2, <2>3, <2>4
<1> QED
  BY <1>6, <1>7, <1>8
-----------------------------------------------------------------------------
(* The text of a list.                                                     *)

Addr(g) == Addresses(SelectServerList(serverlist, g, Ttl, 0, Now))

Part(g) == Pair(g, Addr(g))

Body(games) == FlattenSeq([i \in DOMAIN games |-> Part(games[i])])

LEMMA WantedWords ==
    /\ WantedGames \subseteq Keys /\ WantedGames \subseteq Words
    /\ \A g \in WantedGames : g \notin SessionKeys
<1>1. WantedGames \subseteq GameName \cup SyncWords
  BY DEF WantedGames
<1> QED
  BY <1>1, WordsClosed, SessionAssumption DEF Keys

LEMMA AddressesTyped ==
    ASSUME serverlist \in Table, NEW ids
    PROVE  /\ Addresses(ids) \in Seq({AddressText[a] : a \in Address})
           /\ \A j \in 1 .. Len(Addresses(ids)) : \E i \in DOMAIN serverlist :
                  i \in ids /\ Addresses(ids)[j] = AddressText[serverlist[i].addr]
           /\ \A i \in DOMAIN serverlist : i \in ids => \E j \in 1 .. Len(Addresses(ids)) :
                  Addresses(ids)[j] = AddressText[serverlist[i].addr]
<1> DEFINE rows == Pick(serverlist, ids)
           list == Addresses(ids)
<1>1. DOMAIN serverlist = 1 .. Len(serverlist) /\ \A i \in DOMAIN serverlist : serverlist[i] \in Row
  BY DEF Table
<1>2. /\ rows \in Seq(Row)
      /\ \A j \in 1 .. Len(rows) : \E i \in 1 .. Len(serverlist) : i \in ids /\ rows[j] = serverlist[i]
      /\ \A i \in 1 .. Len(serverlist) : i \in ids => \E j \in 1 .. Len(rows) : rows[j] = serverlist[i]
  <2>1. serverlist \in Seq(Row)
    BY DEF Table
  <2> HIDE DEF rows
  <2>2. rows = Pick(serverlist, ids)
    BY DEF rows
  <2>3. Pick(serverlist, ids) \in Seq(Row)
    BY <2>1, PickTyped
  <2>4. \A j \in 1 .. Len(Pick(serverlist, ids)) : \E i \in 1 .. Len(serverlist) :
            i \in ids /\ Pick(serverlist, ids)[j] = serverlist[i]
    BY <2>1, PickTyped
  <2>5. \A i \in 1 .. Len(serverlist) : i \in ids => \E j \in 1 .. Len(Pick(serverlist, ids)) :
            Pick(serverlist, ids)[j] = serverlist[i]
    BY <2>1, PickTyped
  <2> QED
    BY <2>2, <2>3, <2>4, <2>5
<1>3. list = [i \in DOMAIN rows |-> AddressText[rows[i].addr]]
  BY DEF Addresses
<1> HIDE DEF list, rows
<1>4. Len(rows) \in Nat /\ DOMAIN rows = 1 .. Len(rows) /\ \A i \in 1 .. Len(rows) : rows[i].addr \in Address
  <2>1. \A i \in 1 .. Len(rows) : rows[i] \in Row
    BY <1>2, ElementOfSeq
  <2> QED
    BY <1>2, <2>1, LenProperties DEF Row
<1>5. list \in Seq({AddressText[a] : a \in Address}) /\ Len(list) = Len(rows)
  <2> DEFINE T == {AddressText[a] : a \in Address}
  <2>1. \A i \in 1 .. Len(rows) : AddressText[rows[i].addr] \in T
    BY <1>4
  <2> HIDE DEF T
  <2>2. list \in [1 .. Len(rows) -> T]
    BY <1>3, <1>4, <2>1
  <2>3. list \in Seq(T) /\ Len(list) = Len(rows)
    BY <1>4, <2>2
  <2> QED
    BY <2>3 DEF T
<1>6. \A j \in 1 .. Len(rows) : list[j] = AddressText[rows[j].addr]
  BY <1>3, <1>4
<1>7. \A j \in 1 .. Len(list) : \E i \in DOMAIN serverlist :
                  i \in ids /\ list[j] = AddressText[serverlist[i].addr]
  <2>1. ASSUME NEW j \in 1 .. Len(rows)
        PROVE  \E i \in DOMAIN serverlist : i \in ids /\ list[j] = AddressText[serverlist[i].addr]
    <3>1. PICK i \in 1 .. Len(serverlist) : i \in ids /\ rows[j] = serverlist[i]
      BY <1>2
    <3>2. list[j] = AddressText[serverlist[i].addr]
      BY <1>6, <3>1
    <3> QED
      BY <1>1, <3>1, <3>2
  <2> QED
    BY <1>5, <2>1
<1>8. \A i \in DOMAIN serverlist : i \in ids => \E j \in 1 .. Len(list) :
                  list[j] = AddressText[serverlist[i].addr]
  <2>1. ASSUME NEW i \in DOMAIN serverlist, i \in ids
        PROVE  \E j \in 1 .. Len(list) : list[j] = AddressText[serverlist[i].addr]
    <3>1. PICK j \in 1 .. Len(rows) : rows[j] = serverlist[i]
      BY <1>1, <1>2, <2>1
    <3>2. list[j] = AddressText[serverlist[i].addr]
      BY <1>6, <3>1
    <3> QED
      BY <1>5, <3>2
  <2> QED
    BY <2>1
<1> QED
  BY <1>5, <1>7, <1>8 DEF list

LEMMA PartTyped ==
    ASSUME serverlist \in Table, NEW g \in WantedGames
    PROVE  Part(g) \in Seq(Words) /\ Addr(g) \in Seq(Words \ {Backslash}) /\ Addr(g) \in Seq(Words)
<1>1. Addr(g) \in Seq({AddressText[a] : a \in Address})
  BY AddressesTyped DEF Addr
<1>2. {AddressText[a] : a \in Address} \subseteq Words \ {Backslash}
  BY WordsClosed
<1>3. Addr(g) \in Seq(Words \ {Backslash}) /\ Addr(g) \in Seq(Words)
  BY <1>1, <1>2, SeqMonotonic
<1>4. Part(g) \in Seq(Words)
  BY <1>3, PairTyped, WantedWords DEF Part
<1> QED
  BY <1>3, <1>4

LEMMA BodyParts ==
    ASSUME serverlist \in Table, NEW games \in Seq(WantedGames)
    PROVE  LET parts == [i \in DOMAIN games |-> Part(games[i])]
           IN  /\ parts \in Seq(Seq(Words)) /\ Len(parts) = Len(games)
               /\ \A i \in 1 .. Len(games) : parts[i] = Part(games[i]) /\ games[i] \in WantedGames
<1> DEFINE parts == [i \in DOMAIN games |-> Part(games[i])]
<1>1. Len(games) \in Nat /\ DOMAIN games = 1 .. Len(games) /\ \A i \in 1 .. Len(games) : games[i] \in WantedGames
  BY ElementOfSeq, LenProperties
<1>2. \A i \in 1 .. Len(games) : Part(games[i]) \in Seq(Words)
  BY <1>1, PartTyped
<1>3. parts \in [1 .. Len(games) -> Seq(Words)] /\ \A i \in 1 .. Len(games) : parts[i] = Part(games[i])
  BY <1>1, <1>2
<1> HIDE DEF parts
<1>4. parts \in Seq(Seq(Words)) /\ Len(parts) = Len(games)
  BY <1>1, <1>3
<1> QED
  BY <1>1, <1>3, <1>4 DEF parts

LEMMA ListTyped ==
    ASSUME serverlist \in Table, NEW games \in Seq(WantedGames)
    PROVE  /\ CompileSyncList(games) = Body(games) \o Final
           /\ Body(games) \in Seq(Words) /\ Final \in Seq(Words)
           /\ CompileSyncList(games) \in Seq(Words) /\ CompileSyncList(games) # << >>
<1>1. CompileSyncList(games) = Body(games) \o Final
  BY DEF CompileSyncList, Body, Part, Pair, Addr
<1>2. Body(games) \in Seq(Words)
  BY BodyParts, FlattenTyped DEF Body
<1>3. Final \in Seq(Words) /\ Final # << >>
  BY WordsClosed DEF Final, SessionKeys
<1>4. Body(games) \o Final \in Seq(Words) /\ Body(games) \o Final # << >>
  BY <1>2, <1>3, ConcatProperties, ConcatEqualIffEmpty
<1> QED
  BY <1>1, <1>2, <1>3, <1>4

LEMMA ListOfNothing ==
    ASSUME serverlist \in Table
    PROVE  << >> \in Seq(WantedGames) /\ CompileSyncList(<< >>) = Final
<1>1. << >> \in Seq(WantedGames)
  BY EmptySeq
<1>2. Body(<< >>) = << >>
  <2> DEFINE parts == [i \in DOMAIN << >> |-> Part(<< >>[i])]
  <2>1. parts = << >>
    OBVIOUS
  <2>2. << >> \in Seq(Seq(Words))
    BY EmptySeq
  <2>3. PICK r : FlattenChain(r, << >>) /\ r[Len(<< >>)] = FlattenSeq(<< >>)
    BY <2>2, FlattenPasses
  <2>4. r[0] = << >> /\ Len(<< >>) = 0
    BY <2>3, EmptySeq DEF FlattenChain
  <2> QED
    BY <2>1, <2>3, <2>4 DEF Body
<1>3. Final \in Seq(Words)
  BY WordsClosed DEF Final, SessionKeys
<1> QED
  BY <1>1, <1>2, <1>3, ListTyped, ConcatEmptySeq
-----------------------------------------------------------------------------
(* What a request that is understood does to the handler.                  *)

Sent == [type : {"sync", "self"}, games : Seq(WantedGames), enctype2 : {0}]

Handlers == [state : SocketState, timer : Timer, rxBuffer : Seq(Words), hasValidated : Bit,
             requestEnctype2 : Bit, out : Seq(Words), served : Seq(Sent)]

Idle(h) == h.out = << >> /\ h.served = << >>

LEMMA DisconnectIdle ==
    ASSUME NEW h \in Handlers, Idle(h)
    PROVE  /\ Disconnect(h) \in Handlers /\ Idle(Disconnect(h))
           /\ Disconnect(h).state = "closed" /\ Disconnect(h).timer = "stopped"
           /\ Disconnect(h).hasValidated = h.hasValidated
  BY DEF Disconnect, Idle, Handlers, SocketState, Timer

LEMMA PassesOnly ==
    ASSUME NEW v \in AnswerWords, v # << >>, NEW data, NEW whole, Understood(data, v, whole)
    PROVE  Passes(data) <=> v = <<Cipher[SelfGame]>>
<1> DEFINE games == Values(data, "gamename")
<1>1. /\ data \in Seq(Entries(Words)) /\ OnlyValue(data, "gamename", <<SelfGame>>)
      /\ OnlyValue(data, "validate", v)
  BY DEF Understood
<1>2. /\ Value(data, "gamename", << >>) = <<SelfGame>> /\ Len(games) \in Nat \ {0}
      /\ \A j \in 1 .. Len(games) : games[j] = <<SelfGame>>
  BY <1>1, ValueOf
<1>3. Value(data, "validate", << >>) = v
  BY <1>1, ValueOf
<1>4. Word(<<SelfGame>>) = SelfGame
  BY DEF Word
<1>5. GameToValidate(data) = SelfGame
  <2>1. Last(games) = games[Len(games)]
    BY DEF Last
  <2>2. Len(games) \in 1 .. Len(games)
    BY <1>2
  <2>3. Last(games) = <<SelfGame>>
    BY <1>2, <2>1, <2>2
  <2> QED
    BY <1>2, <1>4, <2>3 DEF GameToValidate
<1>6. SelfGame \in SupportedGames /\ SelfGame \in DOMAIN Cipher /\ SelfGame \notin OverrideClient
  BY SessionAssumption, HandlerAssumption
<1>7. ReturnValidate(SelfGame, Challenge) = <<Cipher[SelfGame], 1>>
  BY <1>6 DEF ReturnValidate, GenerateValidateString, Challenge, NoSecure
<1>8. Passes(data) <=> AnswerOf(Word(v)) = <<Cipher[SelfGame], 1>>
  BY <1>3, <1>5, <1>6, <1>7 DEF Passes, ValidateGamename
<1>9. CASE v = <<Cipher[SelfGame]>>
  <2>1. Word(v) = Cipher[SelfGame]
    BY <1>9 DEF Word
  <2>2. AnswerOf(Word(v)) = <<Cipher[SelfGame], 1>>
    BY <1>6, <2>1 DEF AnswerOf, GenerateValidateString, Challenge
  <2> QED
    BY <1>8, <1>9, <2>2
<1>10. CASE v = <<"invalid!">>
  <2>1. Word(v) = "invalid!" /\ Cipher[SelfGame] # "invalid!"
    BY <1>10, SessionAssumption DEF Word
  <2>2. AnswerOf("invalid!")[1] = "invalid!"
    BY DEF AnswerOf, GenerateValidateString, Invalid
  <2>3. AnswerOf(Word(v)) # <<Cipher[SelfGame], 1>>
    BY <2>1, <2>2
  <2>4. v # <<Cipher[SelfGame]>>
    BY <1>10, <2>1
  <2> QED
    BY <1>8, <2>3, <2>4
<1> QED
  BY <1>9, <1>10 DEF AnswerWords

LEMMA WrongAnswer ==
    ASSUME NEW v \in {<< >>, <<"invalid!">>}, NEW data, NEW whole, Understood(data, v, whole),
           NEW h \in Handlers, Idle(h), h.hasValidated = 0
    PROVE  Interaction(h, data) \in Handlers /\ Idle(Interaction(h, data))
<1> DEFINE validated == Validate(h, data)
<1>1. v \in AnswerWords /\ (v # << >> => v # <<Cipher[SelfGame]>>)
  <2>1. Cipher[SelfGame] # "invalid!"
    BY SessionAssumption
  <2> QED
    BY <2>1 DEF AnswerWords
<1>2. /\ v = << >> => ~HasKey(data, "validate")
      /\ v # << >> => HasKey(data, "validate") /\ ~Passes(data)
  <2>1. v # << >> => OnlyValue(data, "validate", v) /\ data \in Seq(Entries(Words))
    BY DEF Understood
  <2>2. v # << >> => HasKey(data, "validate")
    BY <2>1, ValueOf
  <2> QED
    BY <1>1, <2>2, PassesOnly DEF Understood
<1>3. ~HasKey(data, "list") /\ ~HasKey(data, "echo")
  BY DEF Understood
<1>4. validated \in Handlers /\ Idle(validated) /\ validated.hasValidated = 0
  <2>1. CASE v = << >>
    BY <1>2, <2>1 DEF Validate
  <2>2. CASE v # << >>
    <3> DEFINE asked == [h EXCEPT !.requestEnctype2 = WantsEnctype2(data)]
    <3>1. asked \in Handlers /\ Idle(asked) /\ asked.hasValidated = 0
      BY DEF Handlers, Idle, WantsEnctype2, Bit
    <3>2. validated = Disconnect(asked)
      BY <1>2, <2>2 DEF Validate
    <3> HIDE DEF asked
    <3> QED
      BY <3>1, <3>2, DisconnectIdle
  <2> QED
    BY <2>1, <2>2
<1> HIDE DEF validated
<1>5. CASE HasKey(data, "sync")
  <2>1. Interaction(h, data) = Disconnect(validated)
    BY <1>4, <1>5 DEF Interaction, validated
  <2> QED
    BY <1>4, <2>1, DisconnectIdle
<1>6. CASE ~HasKey(data, "sync")
  <2>1. ServeEcho(validated, data) = validated
    BY <1>3 DEF ServeEcho
  <2>2. Interaction(h, data) = IF Known(data) THEN validated ELSE Disconnect(validated)
    BY <1>3, <1>6, <2>1 DEF Interaction, validated
  <2> QED
    BY <1>4, <2>2, DisconnectIdle
<1> QED
  BY <1>5, <1>6

\* What a list holds when the whole request has arrived.
Complete(games) == \A g \in WantedGames :
    (IF SyncGames = <<"all">> THEN g \in ActiveGames(serverlist, Ttl, Now) ELSE g \in SupportedGames)
        => \E k \in 1 .. Len(games) : games[k] = g

Entered(type, games) == [type |-> type, games |-> games, enctype2 |-> 0]

\* A list of games has been written and the socket closes behind it.
Listing(h, games) ==
    /\ \E type \in {"sync", "self"} : h.served = <<Entered(type, games)>>
    /\ h.state = "closing" /\ h.timer = "stopped"
    /\ h.out = CompileSyncList(games)

LEMMA ListWritten ==
    ASSUME serverlist \in Table, NEW h \in Handlers, Idle(h), h.state = "open",
           NEW games \in Seq(WantedGames), NEW type \in {"sync", "self"}
    PROVE  LET r == Disconnect(Write(h, CompileSyncList(games), Entered(type, games)))
           IN  r \in Handlers /\ Listing(r, games)
<1> DEFINE L == CompileSyncList(games)
           e == Entered(type, games)
           w == Write(h, L, e)
           r == Disconnect(w)
<1>1. L \in Seq(Words) /\ L # << >>
  BY ListTyped
<1>2. e \in Sent
  BY DEF Sent, Entered
<1> HIDE DEF L, e
<1>3. << >> \o L = L /\ Append(<< >>, e) = <<e>> /\ <<e>> \in Seq(Sent)
  BY <1>1, <1>2, ConcatEmptySeq
<1>4. w = [h EXCEPT !.out = L, !.served = <<e>>]
  BY <1>3 DEF Write, Idle, Handlers
<1>5. r = [h EXCEPT !.out = L, !.served = <<e>>, !.timer = "stopped", !.state = "closing"]
  BY <1>1, <1>4 DEF Disconnect, Handlers
<1> HIDE DEF w, r
<1>6. r \in Handlers
  BY <1>1, <1>3, <1>5 DEF Handlers, SocketState, Timer
<1>7. r.served = <<e>> /\ r.state = "closing" /\ r.timer = "stopped" /\ r.out = L
  BY <1>5 DEF Handlers
<1>8. Listing(r, games)
  BY <1>7 DEF Listing, L, e
<1> QED
  BY <1>6, <1>8 DEF r, w, L, e

LEMMA RightAnswer ==
    ASSUME serverlist \in Table, NEW data, NEW whole, Understood(data, <<Cipher[SelfGame]>>, whole),
           NEW h \in Handlers, Idle(h), h.state = "open"
    PROVE  /\ Interaction(h, data) \in Handlers
           /\ \/ ~whole /\ Idle(Interaction(h, data))
              \/ \E games \in Seq(WantedGames) :
                     /\ Listing(Interaction(h, data), games)
                     /\ whole /\ Msid # Identity => Complete(games)
<1> DEFINE v == <<Cipher[SelfGame]>>
           validated == Validate(h, data)
           r == Interaction(h, data)
<1>1. v \in AnswerWords /\ v # << >>
  BY DEF AnswerWords
<1>2. /\ data \in Seq(Entries(Words)) /\ OnlyValue(data, "validate", v)
      /\ ~HasKey(data, "list") /\ ~HasKey(data, "echo")
  BY <1>1 DEF Understood
<1>3. HasKey(data, "validate") /\ Passes(data)
  <2>1. HasKey(data, "validate")
    BY <1>2, ValueOf
  <2>2. Passes(data)
    BY <1>1, PassesOnly
  <2> QED
    BY <2>1, <2>2
<1> HIDE DEF v
<1>4. /\ validated \in Handlers /\ Idle(validated) /\ validated.state = "open"
      /\ validated.hasValidated = 1
  <2>1. validated = [[h EXCEPT !.requestEnctype2 = WantsEnctype2(data)] EXCEPT !.hasValidated = 1]
    BY <1>3 DEF Validate
  <2>2. WantsEnctype2(data) \in Bit
    BY DEF WantsEnctype2, Bit
  <2> QED
    BY <2>1, <2>2 DEF Handlers, Idle, Bit
<1>5. Known(data)
  BY <1>3 DEF Known
<1> HIDE DEF validated
<1>6. CASE ~HasKey(data, "sync")
  <2>1. ~whole
    <3>1. ASSUME NEW u, OnlyValue(data, "sync", u) PROVE FALSE
      BY <1>2, <1>6, <3>1, ValueOf
    <3> QED
      BY <3>1 DEF Understood
  <2>2. ServeEcho(validated, data) = validated
    BY <1>2 DEF ServeEcho
  <2>3. Interaction(h, data) = validated
    BY <1>2, <1>4, <1>5, <1>6, <2>2 DEF Interaction, validated
  <2> QED
    BY <1>4, <2>1, <2>3
<1>7. CASE HasKey(data, "sync")
  <2>1. PICK u : /\ Asked(u) /\ OnlyValue(data, "sync", u)
                 /\ whole => u = SyncGames /\ OnlyValue(data, "msid", <<Msid>>)
    BY <1>7 DEF Understood
  <2> DEFINE games == GamesToSync(data)
  <2>2. games \in Seq(WantedGames) /\ (u = SyncGames => Complete(games))
    <3>1. u = SyncGames => Complete(games)
      BY <1>2, <2>1, GamesServed DEF Complete
    <3>2. games \in Seq(WantedGames)
      BY <1>2, <2>1, GamesServed
    <3> QED
      BY <3>1, <3>2
  <2> HIDE DEF games
  <2>3. CASE Value(data, "msid", << >>) = <<Identity>>
    <3>1. << >> \in Seq(WantedGames) /\ CompileSyncList(<< >>) = Final
      BY ListOfNothing
    <3>2. r = Disconnect(Write(validated, CompileSyncList(<< >>), Entered("self", << >>)))
      BY <1>2, <1>4, <1>7, <2>3, <3>1 DEF Interaction, ServeSync, validated, Entered
    <3>3. r \in Handlers /\ Listing(r, << >>)
      <4> HIDE DEF r
      <4> QED
        BY <1>4, <3>1, <3>2, ListWritten
    <3>4. whole => Msid = Identity
      <4>1. whole => Value(data, "msid", << >>) = <<Msid>>
        BY <1>2, <2>1, ValueOf
      <4> QED
        BY <2>3, <4>1
    <3> QED
      BY <3>1, <3>3, <3>4
  <2>4. CASE Value(data, "msid", << >>) # <<Identity>>
    <3> DEFINE w == Disconnect(Write(validated, CompileSyncList(games), Entered("sync", games)))
    <3>1. w \in Handlers /\ Listing(w, games)
      BY <1>4, <2>2, ListWritten
    <3>2. ServeSync(validated, data) = w
      BY <2>4 DEF ServeSync, Entered, games
    <3> HIDE DEF w
    <3>3. ServeEcho(w, data) = w
      BY <1>2 DEF ServeEcho
    <3>4. r = w
      BY <1>2, <1>4, <1>5, <1>7, <2>4, <3>2, <3>3 DEF Interaction, validated
    <3> QED
      BY <2>1, <2>2, <3>1, <3>4
  <2> QED
    BY <2>3, <2>4
<1> QED
  BY <1>6, <1>7
-----------------------------------------------------------------------------
(* The list, as the client reads it.                                       *)

Sections(games, n) == {Entry(games[i], Addr(games[i])) : i \in 1 .. n}

BodyReads(b, games, n) == \E E : Reads(b, E) /\ Elements(E) = Sections(games, n)

LEMMA PartRead ==
    ASSUME serverlist \in Table, NEW games, NEW n \in Nat, games[n + 1] \in WantedGames,
           NEW b, BodyReads(b, games, n)
    PROVE  BodyReads(b \o Part(games[n + 1]), games, n + 1)
<1> DEFINE g == games[n + 1]
<1>1. PICK E : Reads(b, E) /\ Elements(E) = Sections(games, n)
  BY DEF BodyReads
<1>2. g \in Keys /\ g \in Words /\ Addr(g) \in Seq(Words \ {Backslash}) /\ Addr(g) \in Seq(Words)
  BY WantedWords, PartTyped
<1> HIDE DEF g
<1>3. Reads(b \o Pair(g, Addr(g)), Append(E, Entry(g, Addr(g))))
  BY <1>1, <1>2, ReadsPair
<1>4. Elements(Append(E, Entry(g, Addr(g)))) = Elements(E) \cup {Entry(g, Addr(g))}
  <2>1. E \in Seq(Entries(Words))
    BY <1>1, ReadsTyped
  <2> QED
    BY <1>2, <2>1, ElementsOfEntries
<1>5. Sections(games, n + 1) = Sections(games, n) \cup {Entry(g, Addr(g))}
  <2>1. 1 .. n + 1 = (1 .. n) \cup {n + 1}
    OBVIOUS
  <2> QED
    BY <2>1 DEF Sections, g
<1> QED
  BY <1>1, <1>3, <1>4, <1>5 DEF BodyReads, Part, g

LEMMA BodyRead ==
    ASSUME serverlist \in Table, NEW games \in Seq(WantedGames)
    PROVE  BodyReads(Body(games), games, Len(games))
<1> DEFINE parts == [i \in DOMAIN games |-> Part(games[i])]
           n == Len(games)
<1>1. /\ parts \in Seq(Seq(Words)) /\ Len(parts) = n /\ n \in Nat
      /\ \A i \in 1 .. n : parts[i] = Part(games[i]) /\ games[i] \in WantedGames
  BY BodyParts, LenProperties
<1>2. PICK r : FlattenChain(r, parts) /\ r[Len(parts)] = FlattenSeq(parts)
  BY <1>1, FlattenPasses
<1>3. Body(games) = FlattenSeq(parts)
  BY DEF Body
<1> HIDE DEF parts, n
<1> DEFINE T == {k \in Nat : k <= n => BodyReads(r[k], games, k)}
<1>4. 0 \in T
  <2>1. r[0] = << >>
    BY <1>2 DEF FlattenChain
  <2>2. Sections(games, 0) = {}
    BY DEF Sections
  <2> QED
    BY <2>1, <2>2, ReadsNothing, NoElements DEF BodyReads
<1>5. ASSUME NEW k \in Nat, k \in T PROVE k + 1 \in T
  <2> SUFFICES ASSUME k + 1 <= n PROVE BodyReads(r[k + 1], games, k + 1)
    OBVIOUS
  <2>1. k + 1 \in 1 .. n /\ k <= n /\ (k + 1) - 1 = k
    BY <1>1
  <2>2. r[k + 1] = r[k] \o Part(games[k + 1]) /\ games[k + 1] \in WantedGames
    BY <1>1, <1>2, <2>1 DEF FlattenChain
  <2>3. BodyReads(r[k], games, k)
    BY <1>5, <2>1
  <2> QED
    BY <2>2, <2>3, PartRead
<1> HIDE DEF T
<1>6. Nat \subseteq T
  BY <1>4, <1>5, NatSetInduction
<1>7. BodyReads(r[n], games, n)
  BY <1>1, <1>6 DEF T
<1> QED
  BY <1>1, <1>2, <1>3, <1>7 DEF n

\* The keys of the exchange are not words of a list.
LEMMA BodyWords ==
    ASSUME serverlist \in Table, NEW games \in Seq(WantedGames), NEW k \in SessionKeys
    PROVE  ~Has(Body(games), k)
<1> DEFINE parts == [i \in DOMAIN games |-> Part(games[i])]
<1>1. /\ parts \in Seq(Seq(Words)) /\ Len(parts) = Len(games)
      /\ \A i \in 1 .. Len(games) : parts[i] = Part(games[i]) /\ games[i] \in WantedGames
  BY BodyParts
<1>2. Body(games) = FlattenSeq(parts)
  BY DEF Body
<1> HIDE DEF parts
<1> SUFFICES ASSUME Has(Body(games), k) PROVE FALSE
  OBVIOUS
<1>3. PICK i \in 1 .. Len(parts) : \E j \in 1 .. Len(parts[i]) : parts[i][j] = k
  <2>1. \A p \in 1 .. Len(FlattenSeq(parts)) : \E i \in 1 .. Len(parts) :
            \E j \in 1 .. Len(parts[i]) : FlattenSeq(parts)[p] = parts[i][j]
    BY <1>1, FlattenMembers
  <2>2. PICK p \in 1 .. Len(FlattenSeq(parts)) : FlattenSeq(parts)[p] = k
    BY <1>2 DEF Has
  <2>3. PICK i \in 1 .. Len(parts) : \E j \in 1 .. Len(parts[i]) : FlattenSeq(parts)[p] = parts[i][j]
    BY <2>1
  <2> QED
    BY <2>2, <2>3
<1> DEFINE g == games[i]
<1>4. g \in WantedGames /\ Has(Part(g), k)
  BY <1>1, <1>3 DEF Has
<1> HIDE DEF g
<1>5. g \in Words /\ g # k /\ k # Backslash
  BY <1>4, WantedWords DEF SessionKeys, Backslash
<1> DEFINE K == <<Backslash, g, Backslash>>
<1>6. K \in Seq(Words) /\ ~Has(K, k)
  <2>1. Len(K) = 3 /\ K[1] = Backslash /\ K[2] = g /\ K[3] = Backslash
    OBVIOUS
  <2> QED
    BY <1>5, <2>1, WordsClosed DEF Has
<1> HIDE DEF K
<1>7. Addr(g) \in Seq(Words) /\ ~Has(Addr(g), k)
  <2>1. Addr(g) \in Seq({AddressText[a] : a \in Address})
    BY AddressesTyped DEF Addr
  <2>2. \A a \in Address : AddressText[a] # k
    BY SessionAssumption
  <2>3. \A j \in 1 .. Len(Addr(g)) : Addr(g)[j] \in {AddressText[a] : a \in Address}
    BY <2>1, ElementOfSeq
  <2> QED
    BY <1>4, <2>2, <2>3, PartTyped DEF Has
<1>8. ~Has(K \o Addr(g), k)
  BY <1>6, <1>7, HasConcat
<1> QED
  BY <1>4, <1>8 DEF Part, Pair, K

LEMMA ListWords ==
    ASSUME serverlist \in Table, NEW games \in Seq(WantedGames), NEW k \in SessionKeys, k # "final"
    PROVE  ~Has(CompileSyncList(games), k)
<1>1. ~Has(Body(games), k)
  BY BodyWords
<1>2. ~Has(Final, k)
  <2>1. k # Backslash
    BY DEF SessionKeys, Backslash
  <2> QED
    BY <2>1 DEF Has, Final
<1> QED
  BY <1>1, <1>2, ListTyped, HasConcat, ZenonT(30)

\* The entries of a list: the games, and the terminator.
ListRead(data, games) ==
    /\ data \in Seq(Entries(Words))
    /\ {data[i] : i \in Games(data)} = Sections(games, Len(games))

LEMMA FinalCut ==
    ASSUME NEW s \in Seq(Words), NEW d \in Seq(Words), s \o d = Final, Has(s, "final")
    PROVE  s = <<Backslash, "final">> \/ s = Final
<1>1. Final \in Seq(Words) /\ Len(Final) = 3 /\ Final[1] = Backslash /\ Final[2] = "final" /\ Final[3] = Backslash
  BY WordsClosed DEF Final, SessionKeys
<1>2. /\ Len(s) \in Nat /\ Len(d) \in Nat /\ Len(s) + Len(d) = 3
      /\ \A i \in 1 .. Len(s) : s[i] = Final[i]
  <2>1. /\ Len(s \o d) = Len(s) + Len(d) /\ Len(s) \in Nat /\ Len(d) \in Nat
        /\ \A i \in 1 .. Len(s) + Len(d) : (s \o d)[i] = IF i <= Len(s) THEN s[i] ELSE d[i - Len(s)]
    BY ConcatProperties, LenProperties
  <2> DEFINE c == s \o d
  <2>2. c = Final
    OBVIOUS
  <2>3. /\ Len(c) = Len(s) + Len(d) /\ Len(s) \in Nat /\ Len(d) \in Nat
        /\ \A i \in 1 .. Len(s) + Len(d) : c[i] = IF i <= Len(s) THEN s[i] ELSE d[i - Len(s)]
    BY <2>1
  <2> HIDE DEF c
  <2>4. Len(s) + Len(d) = 3
    BY <1>1, <2>2, <2>3
  <2>5. \A i \in 1 .. Len(s) : c[i] = s[i]
    BY <2>3
  <2> QED
    BY <2>2, <2>3, <2>4, <2>5
<1>3. PICK i \in 1 .. Len(s) : s[i] = "final"
  BY DEF Has
<1>4. i = 2
  <2>1. i \in 1 .. 3 /\ Final[i] = "final"
    BY <1>2, <1>3
  <2> QED
    BY <1>1, <2>1 DEF Backslash
<1>5. Len(s) = 2 \/ Len(s) = 3
  <2>1. \A m, n \in Nat : m + n = 3 /\ 2 <= m => m = 2 \/ m = 3
    OBVIOUS
  <2>2. 2 <= Len(s)
    BY <1>2, <1>3, <1>4
  <2> QED
    BY <1>2, <2>1, <2>2
<1>6. CASE Len(s) = 2
  BY <1>1, <1>2, <1>6
<1>7. CASE Len(s) = 3
  <2>1. Len(s) = Len(Final) /\ \A j \in 1 .. Len(s) : s[j] = Final[j]
    BY <1>1, <1>2, <1>7
  <2> QED
    BY <1>1, <2>1, SeqEqual
<1> QED
  BY <1>5, <1>6, <1>7

LEMMA GamesOf ==
    ASSUME NEW data \in Seq(Entries(Words)), NEW S,
           \A e \in S : e.key # <<"final">>,
           Elements(data) = S \/ Elements(data) = S \cup {Entry("final", << >>)}
    PROVE  {data[i] : i \in Games(data)} = S
<1>1. DOMAIN data = 1 .. Len(data)
  BY LenProperties
<1>2. Entry("final", << >>).key = <<"final">>
  BY DEF Entry
<1>3. {data[i] : i \in Games(data)} = {e \in Elements(data) : e.key # <<"final">>}
  BY <1>1 DEF Games, Elements
<1> QED
  BY <1>2, <1>3

LEMMA ListCut ==
    ASSUME serverlist \in Table, NEW games \in Seq(WantedGames), NEW b \in Seq(Words), NEW d \in Seq(Words),
           SameStream(b, d, CompileSyncList(games), << >>), Has(b, "final")
    PROVE  ListRead(ParseGameSpy0Buffer(b), games)
<1> DEFINE B == Body(games)
           S == Sections(games, Len(games))
           data == Scan(b).entries
<1>1. /\ B \in Seq(Words) /\ Final \in Seq(Words) /\ CompileSyncList(games) = B \o Final
      /\ B \o Final \in Seq(Words) /\ ~Has(B, "final")
  BY ListTyped, BodyWords DEF SessionKeys
<1>2. PICK E : Reads(B, E) /\ Elements(E) = S
  BY BodyRead DEF BodyReads
<1>3. SameStream(b, d, B, Final)
  <2>1. (B \o Final) \o << >> = B \o Final
    BY <1>1, ConcatEmptySeq
  <2> QED
    BY <1>1, <2>1 DEF SameStream
<1> HIDE DEF B
<1>4. Begins(Words, b, d, B, Final)
  <2>1. CASE Begins(Words, B, Final, b, d)
    <3>1. PICK t \in Seq(Words) : B = b \o t
      BY <2>1 DEF Begins
    <3> QED
      BY <1>1, <3>1, HasConcat
  <2> QED
    BY <1>1, <1>3, <2>1, DivideTwice
<1>5. PICK s \in Seq(Words) : b = B \o s /\ s \o d = Final
  BY <1>4 DEF Begins
<1>6. Has(s, "final")
  BY <1>1, <1>5, HasConcat
<1>7. \A e \in S : e.key # <<"final">> /\ e.key # <<"gamename">>
  <2>1. \A i \in 1 .. Len(games) : games[i] \in WantedGames
    BY ElementOfSeq
  <2>2. \A g \in WantedGames : <<g>> # <<"final">> /\ <<g>> # <<"gamename">>
    <3>1. \A g \in WantedGames : g # "final" /\ g # "gamename"
      BY WantedWords DEF SessionKeys
    <3> QED
      BY <3>1
  <2> QED
    BY <2>1, <2>2, EntryFields DEF Sections
<1> HIDE DEF S
<1>8. E \in Seq(Entries(Words)) /\ data \in Seq(Entries(Words))
  BY <1>2, ReadsTyped, WordsClosed, ScanTyped DEF States
<1>9. Elements(data) = S \/ Elements(data) = S \cup {Entry("final", << >>)}
  <2>1. "final" \in Keys /\ "final" \in Words /\ << >> \in Seq(Words \ {Backslash}) /\ << >> \in Seq(Words)
    BY WordsClosed, EmptySeq DEF Keys, SessionKeys
  <2>2. CASE s = <<Backslash, "final">>
    <3>1. Scan(B \o <<Backslash, "final">>) = [key |-> <<"final">>, entries |-> E]
      BY <1>2, <2>1, ReadsKey
    <3>2. b = B \o <<Backslash, "final">>
      BY <1>5, <2>2
    <3>3. Scan(b) = [key |-> <<"final">>, entries |-> E]
      BY <3>1, <3>2, Zenon
    <3>4. data = E
      BY <3>3
    <3> QED
      BY <1>2, <3>4
  <2>3. CASE s = Final
    <3>1. Final = Pair("final", << >>)
      <4>1. Final \o << >> = Final
        BY <1>1, ConcatEmptySeq
      <4> QED
        BY <4>1 DEF Final, Pair
    <3>2. Reads(B \o Pair("final", << >>), Append(E, Entry("final", << >>)))
      BY <1>2, <2>1, ReadsPair
    <3>3. data = Append(E, Entry("final", << >>))
      BY <1>5, <2>3, <3>1, <3>2 DEF Reads
    <3>4. Elements(Append(E, Entry("final", << >>))) = Elements(E) \cup {Entry("final", << >>)}
      BY <1>8, <2>1, ElementsOfEntries
    <3> QED
      BY <1>2, <3>3, <3>4
  <2> QED
    BY <1>5, <1>6, <2>2, <2>3, FinalCut
<1>10. ParseGameSpy0Buffer(b) = data
  <2>1. <<"final">> # <<"gamename">>
    OBVIOUS
  <2>2. \A e \in Elements(data) : e.key # <<"gamename">>
    BY <1>7, <1>9, <2>1, EntryFields
  <2>3. \A i \in 1 .. Len(data) : data[i].key = <<"gamename">> => data[i].value = <<SelfGame>>
    BY <2>2 DEF Elements
  <2> QED
    BY <2>3, ParseOf
<1> HIDE DEF data
<1>11. {data[i] : i \in Games(data)} = S
  BY <1>7, <1>8, <1>9, GamesOf
<1> QED
  BY <1>8, <1>10, <1>11 DEF ListRead, S
-----------------------------------------------------------------------------
(* The rows of a list.                                                     *)

Heard(g) == SelectServerList(serverlist, g, Ttl, 0, Now)

PairsOf(games) == UNION {{<<games[k], serverlist[id].addr>> : id \in Heard(games[k])} : k \in 1 .. Len(games)}

RowsOfEntry(e) == LET addresses == AddressesIn(e.value)
                  IN  [i \in DOMAIN addresses |-> <<Word(e.key), addresses[i]>>]

LEMMA AddressChosen ==
    ASSUME NEW a \in Address
    PROVE  (CHOOSE b \in Address : AddressText[b] = AddressText[a]) = a
<1> DEFINE c == CHOOSE b \in Address : AddressText[b] = AddressText[a]
<1>1. c \in Address /\ AddressText[c] = AddressText[a]
  OBVIOUS
<1> HIDE DEF c
<1>2. c = a
  BY <1>1, HandlerAssumption
<1> QED
  BY <1>2 DEF c

LEMMA AddressesRead ==
    ASSUME serverlist \in Table, NEW ids \in SUBSET DOMAIN serverlist
    PROVE  /\ AddressesIn(Addresses(ids)) \in Seq(Address)
           /\ \A j \in 1 .. Len(AddressesIn(Addresses(ids))) : \E i \in ids :
                  AddressesIn(Addresses(ids))[j] = serverlist[i].addr
           /\ \A i \in ids : \E j \in 1 .. Len(AddressesIn(Addresses(ids))) :
                  AddressesIn(Addresses(ids))[j] = serverlist[i].addr
<1> DEFINE T == {AddressText[a] : a \in Address}
           field == Addresses(ids)
           good == {i \in DOMAIN field : \E a \in Address : AddressText[a] = field[i]}
           valid == Pick(field, good)
           found == AddressesIn(field)
<1>1. /\ field \in Seq(T)
      /\ \A j \in 1 .. Len(field) : \E i \in DOMAIN serverlist :
             i \in ids /\ field[j] = AddressText[serverlist[i].addr]
      /\ \A i \in DOMAIN serverlist : i \in ids => \E j \in 1 .. Len(field) :
             field[j] = AddressText[serverlist[i].addr]
  BY AddressesTyped
<1>2. found = [i \in DOMAIN valid |-> CHOOSE a \in Address : AddressText[a] = valid[i]]
  BY DEF AddressesIn
<1>3. \A i \in DOMAIN serverlist : serverlist[i].addr \in Address
  <2>1. \A i \in DOMAIN serverlist : serverlist[i] \in Row
    BY DEF Table
  <2> QED
    BY <2>1 DEF Row
<1> HIDE DEF field, found
<1>4. \A i \in 1 .. Len(field) : i \in good
  <2>1. DOMAIN field = 1 .. Len(field) /\ \A i \in 1 .. Len(field) : field[i] \in T
    BY <1>1, LenProperties, ElementOfSeq
  <2> QED
    BY <2>1
<1> HIDE DEF good
<1>5. /\ valid \in Seq(T)
      /\ \A j \in 1 .. Len(valid) : \E i \in 1 .. Len(field) : valid[j] = field[i]
      /\ \A i \in 1 .. Len(field) : \E j \in 1 .. Len(valid) : valid[j] = field[i]
  <2> HIDE DEF T
  <2>1. /\ Pick(field, good) \in Seq(T)
        /\ \A j \in 1 .. Len(Pick(field, good)) : \E i \in 1 .. Len(field) : i \in good /\ Pick(field, good)[j] = field[i]
        /\ \A i \in 1 .. Len(field) : i \in good => \E j \in 1 .. Len(Pick(field, good)) : Pick(field, good)[j] = field[i]
    BY <1>1, PickTyped
  <2> QED
    BY <1>4, <2>1
<1> HIDE DEF valid
<1>6. /\ Len(valid) \in Nat /\ DOMAIN valid = 1 .. Len(valid)
      /\ \A j \in 1 .. Len(valid) : \E i \in ids : valid[j] = AddressText[serverlist[i].addr]
  <2>1. ASSUME NEW j \in 1 .. Len(valid) PROVE \E i \in ids : valid[j] = AddressText[serverlist[i].addr]
    <3>1. PICK k \in 1 .. Len(field) : valid[j] = field[k]
      BY <1>5
    <3> QED
      BY <1>1, <3>1
  <2> QED
    BY <1>5, <2>1, LenProperties
<1>7. \A j \in 1 .. Len(valid), i \in ids :
          valid[j] = AddressText[serverlist[i].addr] => found[j] = serverlist[i].addr
  <2> SUFFICES ASSUME NEW j \in 1 .. Len(valid), NEW i \in ids, valid[j] = AddressText[serverlist[i].addr]
               PROVE  found[j] = serverlist[i].addr
    OBVIOUS
  <2>1. found[j] = CHOOSE a \in Address : AddressText[a] = AddressText[serverlist[i].addr]
    BY <1>2, <1>6
  <2> QED
    BY <1>3, <2>1, AddressChosen
<1>8. \A j \in 1 .. Len(valid) : \E i \in ids : found[j] = serverlist[i].addr
  BY <1>6, <1>7
<1>9. found \in Seq(Address) /\ Len(found) = Len(valid)
  <2>1. \A j \in 1 .. Len(valid) : found[j] \in Address
    BY <1>3, <1>8
  <2>2. found \in [1 .. Len(valid) -> Address]
    BY <1>2, <1>6, <2>1
  <2> QED
    BY <1>6, <2>2
<1>10. \A i \in ids : \E j \in 1 .. Len(valid) : found[j] = serverlist[i].addr
  <2> TAKE i \in ids
  <2>1. PICK k \in 1 .. Len(field) : field[k] = AddressText[serverlist[i].addr]
    BY <1>1
  <2>2. PICK j \in 1 .. Len(valid) : valid[j] = field[k]
    BY <1>5
  <2> QED
    BY <1>7, <2>1, <2>2
<1> QED
  BY <1>8, <1>9, <1>10 DEF found, field

ServerRows == GameName \X Address

LEMMA SectionRows ==
    ASSUME serverlist \in Table, NEW g
    PROVE  LET rows == RowsOfEntry(Entry(g, Addr(g)))
           IN  /\ rows \in Seq(ServerRows)
               /\ \A j \in 1 .. Len(rows) : \E id \in Heard(g) : rows[j] = <<g, serverlist[id].addr>>
               /\ \A id \in Heard(g) : \E j \in 1 .. Len(rows) : rows[j] = <<g, serverlist[id].addr>>
<1> DEFINE rows == RowsOfEntry(Entry(g, Addr(g)))
           found == AddressesIn(Addr(g))
           n == Len(found)
<1>1. /\ Heard(g) \in SUBSET DOMAIN serverlist
      /\ \A id \in Heard(g) : g \in GameName /\ serverlist[id].addr \in Address
  <2>1. \A id \in DOMAIN serverlist : serverlist[id] \in Row
    BY DEF Table
  <2>2. Heard(g) \subseteq DOMAIN serverlist /\ \A id \in Heard(g) : serverlist[id].gamename = g
    BY DEF Heard, SelectServerList
  <2> QED
    BY <2>1, <2>2 DEF Row
<1>2. /\ found \in Seq(Address)
      /\ \A j \in 1 .. n : \E i \in Heard(g) : found[j] = serverlist[i].addr
      /\ \A i \in Heard(g) : \E j \in 1 .. n : found[j] = serverlist[i].addr
  <2>1. Addr(g) = Addresses(Heard(g))
    BY DEF Addr, Heard
  <2> QED
    BY <1>1, <2>1, AddressesRead
<1>3. rows = [i \in DOMAIN found |-> <<g, found[i]>>]
  <2>1. Entry(g, Addr(g)).value = Addr(g) /\ Word(Entry(g, Addr(g)).key) = g
    BY DEF Entry, Word
  <2> QED
    BY <2>1 DEF RowsOfEntry
<1> HIDE DEF rows, found
<1>4. n \in Nat /\ DOMAIN found = 1 .. n
  BY <1>2, LenProperties
<1>5. \A j \in 1 .. n : rows[j] = <<g, found[j]>>
  BY <1>3, <1>4
<1>6. \A j \in 1 .. n : \E id \in Heard(g) : rows[j] = <<g, serverlist[id].addr>>
  BY <1>2, <1>5
<1>7. \A j \in 1 .. n : rows[j] \in ServerRows
  <2>1. \A id \in Heard(g) : <<g, serverlist[id].addr>> \in ServerRows
    BY <1>1 DEF ServerRows
  <2> QED
    BY <1>6, <2>1
<1>8. rows \in Seq(ServerRows) /\ Len(rows) = n
  <2>1. rows \in [1 .. n -> ServerRows]
    BY <1>3, <1>4, <1>7
  <2> HIDE DEF n
  <2> QED
    BY <1>4, <2>1
<1>9. \A id \in Heard(g) : \E j \in 1 .. n : rows[j] = <<g, serverlist[id].addr>>
  BY <1>2, <1>5
<1> QED
  BY <1>6, <1>8, <1>9 DEF rows

\* The rows of a list are the pairs that were composed, whatever the order of the hash.
Covers(rows, games) ==
    /\ rows \in Seq(ServerRows)
    /\ \A j \in 1 .. Len(rows) : rows[j] \in PairsOf(games)
    /\ \A p \in PairsOf(games) : \E j \in 1 .. Len(rows) : rows[j] = p

LEMMA SectionOf ==
    ASSUME NEW data, NEW games \in Seq(WantedGames), ListRead(data, games), NEW i \in Games(data)
    PROVE  \E k \in 1 .. Len(games) : data[i] = Entry(games[k], Addr(games[k]))
  BY DEF ListRead, Sections

LEMMA SectionFor ==
    ASSUME NEW data, NEW games \in Seq(WantedGames), ListRead(data, games), NEW k \in 1 .. Len(games)
    PROVE  \E i \in Games(data) : data[i] = Entry(games[k], Addr(games[k]))
<1>1. Entry(games[k], Addr(games[k])) \in Sections(games, Len(games))
  BY DEF Sections
<1> QED
  BY <1>1 DEF ListRead

LEMMA RowsListed ==
    ASSUME serverlist \in Table, NEW data, NEW games \in Seq(WantedGames), ListRead(data, games),
           NEW order \in SetToSeqs(Games(data))
    PROVE  Covers(Rows(data, order), games)
<1> DEFINE parts == [k \in DOMAIN order |-> RowsOfEntry(data[order[k]])]
           rows == Rows(data, order)
           n == Len(order)
<1>1. order \in Seq(Games(data)) /\ \A i \in Games(data) : \E k \in 1 .. n : order[k] = i
  <2>1. data \in Seq(Entries(Words)) /\ Games(data) \in SUBSET (1 .. Len(data))
    <3>1. data \in Seq(Entries(Words))
      BY DEF ListRead
    <3> QED
      BY <3>1, LenProperties DEF Games
  <2>2. IsFiniteSet(Games(data))
    BY <2>1, PositionsFinite
  <2> QED
    BY <2>2, OrderLists DEF Lists
<1>2. rows = FlattenSeq(parts)
  BY DEF Rows, RowsOfEntry
<1> HIDE DEF rows
<1>3. n \in Nat /\ DOMAIN order = 1 .. n /\ \A k \in 1 .. n : order[k] \in Games(data)
  BY <1>1, LenProperties, ElementOfSeq
<1>4. \A k \in 1 .. n : parts[k] = RowsOfEntry(data[order[k]])
  BY <1>3
<1>5. \A k \in 1 .. n : \E l \in 1 .. Len(games) : parts[k] = RowsOfEntry(Entry(games[l], Addr(games[l])))
  BY <1>3, <1>4, SectionOf
<1>6. \A l \in 1 .. Len(games) : \E k \in 1 .. n : parts[k] = RowsOfEntry(Entry(games[l], Addr(games[l])))
  <2> TAKE l \in 1 .. Len(games)
  <2>1. PICK i \in Games(data) : data[i] = Entry(games[l], Addr(games[l]))
    BY SectionFor
  <2>2. PICK k \in 1 .. n : order[k] = i
    BY <1>1
  <2> QED
    BY <1>4, <2>1, <2>2
<1>7. parts \in Seq(Seq(ServerRows)) /\ Len(parts) = n
  <2>1. \A k \in 1 .. n : parts[k] \in Seq(ServerRows)
    BY <1>5, SectionRows
  <2>2. DOMAIN parts = 1 .. n /\ parts = [k \in 1 .. n |-> parts[k]]
    BY <1>3
  <2> HIDE DEF parts, n
  <2>3. parts \in [1 .. n -> Seq(ServerRows)]
    BY <2>1, <2>2
  <2> QED
    BY <1>3, <2>3
<1> HIDE DEF parts, n
<1>8. rows \in Seq(ServerRows)
  BY <1>2, <1>7, FlattenTyped
<1>9. ASSUME NEW j \in 1 .. Len(rows) PROVE rows[j] \in PairsOf(games)
  <2>1. PICK k \in 1 .. n : \E i \in 1 .. Len(parts[k]) : rows[j] = parts[k][i]
    <3>1. \A q \in 1 .. Len(FlattenSeq(parts)) : \E k \in 1 .. Len(parts) :
              \E i \in 1 .. Len(parts[k]) : FlattenSeq(parts)[q] = parts[k][i]
      BY <1>7, FlattenMembers
    <3> QED
      BY <1>2, <1>7, <3>1
  <2>2. PICK i \in 1 .. Len(parts[k]) : rows[j] = parts[k][i]
    BY <2>1
  <2>3. PICK l \in 1 .. Len(games) : parts[k] = RowsOfEntry(Entry(games[l], Addr(games[l])))
    BY <1>5
  <2>4. \E id \in Heard(games[l]) : rows[j] = <<games[l], serverlist[id].addr>>
    BY <2>2, <2>3, SectionRows
  <2> QED
    BY <2>4 DEF PairsOf
<1>10. ASSUME NEW p \in PairsOf(games) PROVE \E j \in 1 .. Len(rows) : rows[j] = p
  <2>1. PICK l \in 1 .. Len(games) : \E id \in Heard(games[l]) : p = <<games[l], serverlist[id].addr>>
    BY DEF PairsOf
  <2>2. PICK id \in Heard(games[l]) : p = <<games[l], serverlist[id].addr>>
    BY <2>1
  <2>3. PICK k \in 1 .. n : parts[k] = RowsOfEntry(Entry(games[l], Addr(games[l])))
    BY <1>6
  <2>4. PICK i \in 1 .. Len(parts[k]) : parts[k][i] = p
    BY <2>2, <2>3, SectionRows
  <2>5. \A q \in 1 .. Len(parts) : \A i2 \in 1 .. Len(parts[q]) :
            \E j \in 1 .. Len(FlattenSeq(parts)) : FlattenSeq(parts)[j] = parts[q][i2]
    BY <1>7, FlattenMembers
  <2>6. \E j \in 1 .. Len(FlattenSeq(parts)) : FlattenSeq(parts)[j] = parts[k][i]
    BY <1>7, <2>5
  <2> QED
    BY <1>2, <2>4, <2>6
<1> QED
  BY <1>8, <1>9, <1>10 DEF Covers, rows

LEMMA SyncAllSynced ==
    ASSUME NEW t \in Table, NEW rows \in Seq(ServerRows)
    PROVE  Synced(t, SyncAll(t, rows), [k \in 1 .. Len(rows) |-> rows[k][2]],
                  [k \in 1 .. Len(rows) |-> rows[k][1]], Len(rows), Now)
<1> DEFINE n == Len(rows)
           a == [k \in 1 .. n |-> rows[k][2]]
           g == [k \in 1 .. n |-> rows[k][1]]
           step == [k \in 1 .. n |-> [u \in Table |-> SyncServer(u, a[k], g[k], Now)]]
           eq(iter) == iter = [s \in SUBSET (1 .. n) |-> IF s = {} THEN t
                     ELSE SyncServer(iter[s \ {Max(s)}], rows[Max(s)][2], rows[Max(s)][1], Now)]
<1>0. Now \in Nat
  BY SessionAssumption
<1>1. /\ n \in Nat /\ DOMAIN rows = 1 .. n
      /\ \A k \in 1 .. n : rows[k] \in ServerRows /\ rows[k][1] \in GameName /\ rows[k][2] \in Address
  <2>1. \A k \in 1 .. n : rows[k] \in ServerRows
    BY ElementOfSeq
  <2> QED
    BY <2>1, LenProperties DEF ServerRows
<1>2. a \in [1 .. n -> Address] /\ g \in [1 .. n -> GameName]
  BY <1>1
<1>3. SyncAll(t, rows) = (CHOOSE iter : eq(iter))[1 .. n]
  <2>1. SyncAll(t, rows) = (CHOOSE iter : iter = [s \in SUBSET DOMAIN rows |-> IF s = {} THEN t
                     ELSE SyncServer(iter[s \ {Max(s)}], rows[Max(s)][2], rows[Max(s)][1], Now)])[DOMAIN rows]
    BY DEF SyncAll, FoldLeft, MapThenFoldSet
  <2> QED
    BY <1>1, <2>1
<1>4. step \in [1 .. n -> [Table -> Table]]
  <2>1. \A k \in 1 .. n, u \in Table : SyncServer(u, a[k], g[k], Now) \in Table
    BY <1>0, <1>2, SyncServerInTable
  <2> HIDE DEF n, a, g
  <2> QED
    BY <2>1
<1> DEFINE f == CHOOSE iter : eq(iter)
<1>5. eq(f)
  <2>1. PICK iter : FoldsUpTo(iter, Table, t, step, n)
    <3> HIDE DEF step, n, a, g
    <3> QED
      BY <1>1, <1>4, FoldExists
  <2>2. ASSUME NEW s \in SUBSET (1 .. n), s # {}
        PROVE  step[Max(s)][iter[s \ {Max(s)}]] = SyncServer(iter[s \ {Max(s)}], rows[Max(s)][2], rows[Max(s)][1], Now)
    <3>1. Max(s) \in s
      BY <1>1, <2>2, MaxIsHighest
    <3>2. Max(s) \in 1 .. n /\ s \ {Max(s)} \in SUBSET (1 .. n)
      BY <3>1
    <3>3. iter[s \ {Max(s)}] \in Table
      BY <2>1, <3>2 DEF FoldsUpTo
    <3> QED
      BY <3>2, <3>3
  <2>3. eq(iter)
    <3> HIDE DEF step, n, a, g
    <3> QED
      BY <2>1, <2>2 DEF FoldsUpTo
  <2> HIDE DEF eq
  <2> QED
    BY <2>3
<1> DEFINE r == [k \in 0 .. n |-> f[1 .. k]]
<1> HIDE DEF f, step
<1>6. r[0] = t
  <2>1. 1 .. 0 = {} /\ 0 \in 0 .. n
    BY <1>1
  <2> QED
    BY <1>5, <2>1
<1>7. ASSUME NEW k \in 1 .. n PROVE r[k] = SyncServer(r[k - 1], a[k], g[k], Now)
  <2>1. k \in 0 .. n /\ k - 1 \in 0 .. n /\ k # 0
    BY <1>1
  <2>2. /\ 1 .. k \in SUBSET (1 .. n) /\ 1 .. k # {} /\ Max(1 .. k) = k
        /\ (1 .. k) \ {k} = 1 .. k - 1
    BY <1>1, <2>1, FoldSteps
  <2>3. f[1 .. k] = SyncServer(f[(1 .. k) \ {k}], rows[k][2], rows[k][1], Now)
    BY <1>5, <2>2
  <2> QED
    BY <2>1, <2>2, <2>3
<1>8. r[n] = SyncAll(t, rows)
  BY <1>1, <1>3 DEF f
<1> HIDE DEF r, n, a, g
<1>9. Synced(t, r[n], a, g, n, Now)
  BY <1>0, <1>1, <1>2, <1>6, <1>7, SyncChain
<1> QED
  BY <1>8, <1>9 DEF a, g, n

\* What the client makes of its table: one pass through the pairs that were composed.
Applied(t, u, games) ==
    LET listed == {p[2] : p \in PairsOf(games)}
    IN  /\ u \in Table
        /\ \A id \in DOMAIN t : id \in DOMAIN u /\ u[id] =
               IF t[id].addr \in listed THEN [t[id] EXCEPT !.dt_sync = Now] ELSE t[id]
        /\ \A id \in DOMAIN u \ DOMAIN t : \E p \in PairsOf(games) :
               u[id] = SyncedRow(p[2], p[1], Now) /\ ~ExistServer(t, p[2])
        /\ \A a \in listed : ExistServer(u, a)
        /\ UniqueIn(t) => UniqueIn(u)

LEMMA ListApplied ==
    ASSUME NEW t \in Table, NEW games, NEW rows, Covers(rows, games)
    PROVE  Applied(t, SyncAll(t, rows), games)
<1> DEFINE n == Len(rows)
           a == [k \in 1 .. n |-> rows[k][2]]
           g == [k \in 1 .. n |-> rows[k][1]]
           u == SyncAll(t, rows)
           listed == {p[2] : p \in PairsOf(games)}
<1>1. Synced(t, u, a, g, n, Now)
  BY SyncAllSynced DEF Covers
<1>2. \A k \in 1 .. n : a[k] = rows[k][2] /\ g[k] = rows[k][1] /\ rows[k] \in PairsOf(games)
  BY DEF Covers
<1>3. \A p \in PairsOf(games) : \E k \in 1 .. n : rows[k] = p
  BY DEF Covers
<1> HIDE DEF a, g, u, n
<1>4. \A x : x \in listed <=> \E k \in 1 .. n : a[k] = x
  BY <1>2, <1>3
<1>5. u \in Table /\ (UniqueIn(t) => UniqueIn(u)) /\ DOMAIN t \subseteq DOMAIN u
  BY <1>1 DEF Synced
<1>6. \A id \in DOMAIN t : u[id] = IF \E k \in 1 .. n : a[k] = t[id].addr
                                    THEN [t[id] EXCEPT !.dt_sync = Now] ELSE t[id]
  BY <1>1 DEF Synced
<1>7. ASSUME NEW id \in DOMAIN u \ DOMAIN t
      PROVE  \E p \in PairsOf(games) : u[id] = SyncedRow(p[2], p[1], Now) /\ ~ExistServer(t, p[2])
  <2>1. PICK k \in 1 .. n : u[id] = SyncedRow(a[k], g[k], Now) /\ ~ExistServer(t, a[k])
    BY <1>1 DEF Synced
  <2>2. rows[k] \in PairsOf(games) /\ u[id] = SyncedRow(rows[k][2], rows[k][1], Now) /\ ~ExistServer(t, rows[k][2])
    BY <1>2, <2>1
  <2> QED
    BY <2>2
<1>8. \A k \in 1 .. n : ExistServer(u, a[k])
  BY <1>1 DEF Synced
<1>9. \A x \in listed : ExistServer(u, x)
  BY <1>4, <1>8
<1> HIDE DEF listed
<1>10. \A id \in DOMAIN t : id \in DOMAIN u /\ u[id] =
               IF t[id].addr \in listed THEN [t[id] EXCEPT !.dt_sync = Now] ELSE t[id]
  BY <1>4, <1>5, <1>6
<1> QED
  BY <1>5, <1>7, <1>9, <1>10 DEF Applied, u, listed
-----------------------------------------------------------------------------
(* What the two ends and the streams hold at each time.                    *)

\* The answer and the request are under way until the terminator has been read.
Pending(v) == handler.state = "open" =>
    \/ /\ SameStream(handler.rxBuffer, toServer, ReplyOf(v), SyncRequest)
       /\ ~Holds(handler.rxBuffer, Final) /\ handler.hasValidated = 0
    \/ ~Has(toServer, "final")

Quiet(b) == ~Has(b, "secure") /\ ~Has(b, "final")

Connecting ==
    /\ client.state = "connecting" /\ client.rxBuffer = << >> /\ toClient = << >> /\ toServer = << >>
    /\ Idle(handler)

Greeted ==
    /\ client.state = "open" /\ SameStream(client.rxBuffer, toClient, Greeting, << >>)
    /\ ~Has(client.rxBuffer, "secure") /\ toServer = << >>
    /\ Idle(handler) /\ handler.rxBuffer = << >> /\ handler.hasValidated = 0

Challenged(v) ==
    /\ client.state = "open" /\ Quiet(client.rxBuffer) /\ Quiet(toClient)
    /\ v = <<Cipher[SelfGame]>> => client.rxBuffer = << >> /\ toClient = << >>
    /\ Idle(handler) /\ Pending(v)

\* All addresses of a list are in the table, and marked.
Marked(t, games) == \A p \in PairsOf(games) :
    /\ ExistServer(t, p[2])
    /\ \A id \in DOMAIN t : t[id].addr = p[2] => t[id].dt_sync = Now

\* A part of the list may be lost, its end, but nothing else is on its way.
Written(games) ==
    /\ client.state = "open" /\ games \in Seq(WantedGames)
    /\ \E type \in {"sync", "self"} : handler.served = <<Entered(type, games)>>
    /\ handler.state \in {"closing", "closed"} /\ handler.timer = "stopped"
    /\ handler.state = "closed" => handler.out = << >>
    /\ \E d \in Seq(Words) :
           SameStream((client.rxBuffer \o toClient) \o handler.out, d, CompileSyncList(games), << >>)
    /\ applied = 1 => Marked(local, games)
    /\ network = "whole" /\ Msid # Identity => Complete(games)

Connected ==
    /\ handler \in Handlers /\ peer = "open"
    /\ toServer \in Seq(Words) /\ toClient \in Seq(Words)

Stage ==
    \/ applied = 0 /\ (Connecting \/ Greeted \/ \E v \in AnswerWords : Challenged(v))
    \/ \E games : Written(games)

Clients == [state : {"connecting", "open", "closed"}, timer : Timer, rxBuffer : Seq(Words)]

SessionInv ==
    /\ serverlist \in Table /\ local \in Table /\ applied \in Bit /\ client \in Clients
    /\ client.state # "closed" => Connected /\ Stage
-----------------------------------------------------------------------------
(* The exchange that the session is seen as.                               *)

\* The pairs of a history of what was written, as Composed has them.
PairsServed(served) ==
    LET syncs == {i \in DOMAIN served : served[i].type \in {"sync", "self"}}
        games == IF syncs = {} THEN {}
                 ELSE UNION {{served[i].games[k] : k \in DOMAIN served[i].games} : i \in syncs}
    IN  UNION {{<<g, serverlist[id].addr>> : id \in SelectServerList(serverlist, g, Ttl, 0, Now)} : g \in games}

LEMMA ServedNothing ==
    ASSUME NEW served, served = << >>
    PROVE  {i \in DOMAIN served : served[i].type \in {"sync", "self"}} = {}
  OBVIOUS

LEMMA ServedGames ==
    ASSUME NEW games \in Seq(WantedGames), NEW type \in {"sync", "self"}, NEW served, served = <<Entered(type, games)>>
    PROVE  /\ {i \in DOMAIN served : served[i].type \in {"sync", "self"}} = {1}
           /\ PairsServed(served) = PairsOf(games)
<1> DEFINE named == {games[k] : k \in DOMAIN games}
<1>1. DOMAIN served = {1} /\ served[1].type = type /\ served[1].games = games
  BY DEF Entered
<1>2. {i \in DOMAIN served : served[i].type \in {"sync", "self"}} = {1}
  BY <1>1
<1>3. UNION {{served[i].games[k] : k \in DOMAIN served[i].games} : i \in {1}} = named
  BY <1>1
<1>4. DOMAIN games = 1 .. Len(games)
  OBVIOUS
<1>5. PairsServed(served) = UNION {{<<g, serverlist[id].addr>> : id \in Heard(g)} : g \in named}
  <2> HIDE DEF named
  <2> QED
    BY <1>2, <1>3 DEF PairsServed, Heard
<1>6. UNION {{<<g, serverlist[id].addr>> : id \in Heard(g)} : g \in named} = PairsOf(games)
  BY <1>4 DEF PairsOf
<1> QED
  BY <1>2, <1>5, <1>6

\* The list that is written is one the remote may compose.
LEMMA ListComposed ==
    ASSUME NEW games \in Seq(WantedGames)
    PROVE  \E G \in SUBSET WantedGames :
               PairsOf(games) = {<<g, serverlist[id].addr>> : g \in G, id \in DOMAIN serverlist}
                   \cap UNION {{<<g, serverlist[id].addr>> : id \in SelectServerList(serverlist, g, Ttl, 0, Now)} : g \in G}
<1> DEFINE G == {games[k] : k \in 1 .. Len(games)}
           all == {<<g, serverlist[id].addr>> : g \in G, id \in DOMAIN serverlist}
<1>1. G \in SUBSET WantedGames
  <2>1. \A k \in 1 .. Len(games) : games[k] \in WantedGames
    BY ElementOfSeq
  <2> QED
    BY <2>1
<1>2. \A g : Heard(g) \subseteq DOMAIN serverlist
  BY DEF Heard, SelectServerList
<1>3. PairsOf(games) = UNION {{<<g, serverlist[id].addr>> : id \in Heard(g)} : g \in G}
  BY DEF PairsOf
<1>4. PairsOf(games) \subseteq all
  BY <1>2, <1>3
<1> HIDE DEF all, G
<1>5. PairsOf(games) = all \cap UNION {{<<g, serverlist[id].addr>> : id \in Heard(g)} : g \in G}
  BY <1>3, <1>4
<1> QED
  BY <1>1, <1>5 DEF all, Heard

LEMMA AppliedMarks ==
    ASSUME NEW t \in Table, NEW u, NEW games, Applied(t, u, games)
    PROVE  Marked(u, games)
<1> DEFINE listed == {p[2] : p \in PairsOf(games)}
<1>1. \A a \in listed : ExistServer(u, a)
  BY DEF Applied
<1>2. ASSUME NEW p \in PairsOf(games), NEW id \in DOMAIN u, u[id].addr = p[2]
      PROVE  u[id].dt_sync = Now
  <2>1. CASE id \in DOMAIN t
    <3>1. t[id] \in Row
      BY <2>1 DEF Table
    <3>2. u[id] = IF t[id].addr \in listed THEN [t[id] EXCEPT !.dt_sync = Now] ELSE t[id]
      BY <2>1 DEF Applied
    <3>3. [t[id] EXCEPT !.dt_sync = Now].addr = t[id].addr /\ [t[id] EXCEPT !.dt_sync = Now].dt_sync = Now
      BY <3>1 DEF Row
    <3>4. p[2] \in listed
      OBVIOUS
    <3> HIDE DEF listed
    <3> QED
      BY <1>2, <3>2, <3>3, <3>4
  <2>2. CASE id \notin DOMAIN t
    <3>1. PICK q \in PairsOf(games) : u[id] = SyncedRow(q[2], q[1], Now)
      BY <2>2 DEF Applied
    <3> QED
      BY <3>1 DEF SyncedRow
  <2> QED
    BY <2>1, <2>2
<1> QED
  BY <1>1, <1>2 DEF Marked

\* A list that is read again changes nothing.
LEMMA MarkedStays ==
    ASSUME NEW t \in Table, NEW u, NEW games, Marked(t, games), Applied(t, u, games)
    PROVE  u = t
<1> DEFINE listed == {p[2] : p \in PairsOf(games)}
<1>1. u \in Table /\ DOMAIN t \subseteq DOMAIN u
  BY DEF Applied
<1>2. DOMAIN u \subseteq DOMAIN t
  <2> SUFFICES ASSUME NEW id \in DOMAIN u, id \notin DOMAIN t PROVE FALSE
    OBVIOUS
  <2>1. PICK q \in PairsOf(games) : ~ExistServer(t, q[2])
    BY DEF Applied
  <2> QED
    BY <2>1 DEF Marked
<1>3. ASSUME NEW id \in DOMAIN t
      PROVE  u[id] = t[id]
  <2>1. t[id] \in Row
    BY DEF Table
  <2>2. u[id] = IF t[id].addr \in listed THEN [t[id] EXCEPT !.dt_sync = Now] ELSE t[id]
    BY DEF Applied
  <2>3. t[id].addr \in listed => t[id].dt_sync = Now
    BY DEF Marked
  <2>4. t[id].dt_sync = Now => [t[id] EXCEPT !.dt_sync = Now] = t[id]
    BY <2>1 DEF Row
  <2> HIDE DEF listed
  <2> QED
    BY <2>2, <2>3, <2>4
<1>4. DOMAIN u = DOMAIN t /\ \A id \in DOMAIN t : u[id] = t[id]
  BY <1>1, <1>2, <1>3
<1>5. Len(u) = Len(t) /\ DOMAIN t = 1 .. Len(t) /\ t \in Seq(Row) /\ u \in Seq(Row)
  BY <1>1, <1>4 DEF Table
<1> QED
  BY <1>4, <1>5, SeqEqual
-----------------------------------------------------------------------------
(* How the steps of the session are seen.                                  *)

LEMMA Unseen ==
    ASSUME handler'.served = handler.served, serverlist' = serverlist, local' = local, applied' = applied,
           client'.state = "closed" <=> client.state = "closed"
    PROVE  UNCHANGED Exchange!vars
<1>1. SyncsServed' = SyncsServed /\ Composed' = Composed
  BY DEF SyncsServed, Composed
<1>2. Phase' = Phase
  BY <1>1 DEF Phase
<1> QED
  BY <1>1, <1>2 DEF Exchange!vars

LEMMA UnseenAfterwards ==
    ASSUME client.state = "closed", client'.state = "closed",
           serverlist' = serverlist, local' = local, applied' = applied
    PROVE  UNCHANGED Exchange!vars
<1>1. Phase' = Phase /\ Phase # "listed"
  BY DEF Phase
<1> QED
  BY <1>1 DEF Exchange!vars

LEMMA UnseenOnceApplied ==
    ASSUME applied = 1, applied' = 1, serverlist' = serverlist, local' = local
    PROVE  UNCHANGED Exchange!vars
<1>1. Phase = "applied" /\ Phase' = "applied"
  BY DEF Phase
<1> QED
  BY <1>1 DEF Exchange!vars

LEMMA SeenAsFailure ==
    ASSUME applied = 0, applied' = 0, client.state # "closed", client'.state = "closed",
           serverlist' = serverlist, local' = local
    PROVE  Exchange!Fail
<1>1. Phase \in {"asked", "listed"} /\ Phase' = "failed"
  BY DEF Phase
<1> QED
  BY <1>1 DEF Exchange!Fail

LEMMA SeenAsComposing ==
    ASSUME NEW games \in Seq(WantedGames), NEW type \in {"sync", "self"},
           handler.served = << >>, handler'.served = <<Entered(type, games)>>,
           applied = 0, applied' = 0, client.state # "closed", client'.state # "closed",
           serverlist' = serverlist, local' = local
    PROVE  Exchange!Compose
<1>1. SyncsServed = {} /\ SyncsServed' # {}
  BY ServedNothing, ServedGames DEF SyncsServed
<1>2. Phase = "asked" /\ Phase' = "listed"
  BY <1>1 DEF Phase
<1>3. Composed' = PairsServed(handler'.served)
  BY DEF Composed, PairsServed, SyncsServed
<1>4. Composed' = PairsOf(games)
  BY <1>3, ServedGames
<1>5. PICK G \in SUBSET WantedGames : PairsOf(games) = Exchange!ListOf(G)
  <2>1. PICK G \in SUBSET WantedGames :
               PairsOf(games) = {<<g, serverlist[id].addr>> : g \in G, id \in DOMAIN serverlist}
                   \cap UNION {{<<g, serverlist[id].addr>> : id \in SelectServerList(serverlist, g, Ttl, 0, Now)} : g \in G}
    BY ListComposed
  <2>2. PairsOf(games) = Exchange!ListOf(G)
    BY <2>1 DEF Exchange!ListOf, Exchange!SelectServerList, SelectServerList
  <2> QED
    BY <2>2
<1> QED
  BY <1>2, <1>4, <1>5 DEF Exchange!Compose

LEMMA SeenAsApplying ==
    ASSUME NEW games \in Seq(WantedGames), NEW type \in {"sync", "self"}, handler.served = <<Entered(type, games)>>,
           applied = 0, applied' = 1, client.state # "closed", serverlist' = serverlist,
           Applied(local, local', games)
    PROVE  Exchange!Apply
<1> DEFINE listed == {p[2] : p \in PairsOf(games)}
<1>1. SyncsServed # {} /\ Composed = PairsOf(games)
  <2>1. Composed = PairsServed(handler.served)
    BY DEF Composed, PairsServed, SyncsServed
  <2> QED
    BY <2>1, ServedGames DEF SyncsServed
<1>2. Phase = "listed" /\ Phase' = "applied"
  BY <1>1 DEF Phase
<1>3. local' \in Exchange!Table
  BY DEF Applied, Table, Row, Address, Bit, Exchange!Table, Exchange!Row, Exchange!Address, Exchange!Bit
<1>4. \A p : Exchange!NewRow(p) = SyncedRow(p[2], p[1], Now)
  BY DEF Exchange!NewRow, Exchange!InsertServer, SyncedRow
<1>5. \A id \in DOMAIN local : id \in DOMAIN local' /\ local'[id] =
           IF local[id].addr \in listed THEN [local[id] EXCEPT !.dt_sync = Now] ELSE local[id]
  BY DEF Applied
<1>6. \A id \in DOMAIN local' \ DOMAIN local : \E p \in PairsOf(games) : local'[id] = Exchange!NewRow(p)
  BY <1>4 DEF Applied
<1>7. \A a \in listed : Exchange!ExistServer(local', a)
  <2>1. \A a : ExistServer(local', a) <=> Exchange!ExistServer(local', a)
    BY DEF ExistServer, RowsOf, Exchange!ExistServer, Exchange!RowsOf
  <2> QED
    BY <2>1 DEF Applied
<1>8. Exchange!UniqueIn(local) => Exchange!UniqueIn(local')
  BY DEF Applied, UniqueIn, Exchange!UniqueIn
<1> HIDE DEF listed
<1>9. Exchange!Listed = listed
  BY <1>1, <1>2 DEF Exchange!Listed, listed
<1> QED
  BY <1>1, <1>2, <1>3, <1>5, <1>6, <1>7, <1>8, <1>9 DEF Exchange!Apply
-----------------------------------------------------------------------------
(* The steps in which no request and no list is read.                      *)

\* Of a client that has closed nothing more is seen.
LEMMA ClosedStep ==
    ASSUME SessionInv, Next, client.state = "closed"
    PROVE  SessionInv' /\ UNCHANGED Exchange!vars
<1>1. /\ serverlist' = serverlist /\ local' = local /\ applied' = applied
      /\ client' = client \/ client' = [client EXCEPT !.state = "closed", !.timer = "stopped"]
  <2>1. CASE OnSyncConnect
    BY <2>1 DEF OnSyncConnect
  <2>2. CASE ClientReads
    BY <2>2 DEF ClientReads, OnSyncRead
  <2>3. CASE OnSyncTimeOut
    BY <2>3 DEF OnSyncTimeOut, CloseClient
  <2>4. CASE OnSyncDisconnect
    BY <2>4 DEF OnSyncDisconnect
  <2>5. CASE ServerReads
    BY <2>5 DEF ServerReads, OnListenClientRead
  <2>6. CASE ServerTimeOut
    BY <2>6 DEF ServerTimeOut, OnListenClientTimeOut
  <2>7. CASE ServerDisconnected
    BY <2>7 DEF ServerDisconnected, OnListenClientDisconnect
  <2>8. CASE ServerFlush
    BY <2>8 DEF ServerFlush, Flush
  <2>9. CASE Reset
    BY <2>9 DEF Reset
  <2>10. CASE Over
    BY <2>10 DEF Over, vars
  <2> QED
    BY <2>1, <2>2, <2>3, <2>4, <2>5, <2>6, <2>7, <2>8, <2>9, <2>10 DEF Next
<1>2. client' \in Clients /\ client'.state = "closed"
  BY <1>1 DEF SessionInv, Clients, Timer
<1>3. SessionInv'
  BY <1>1, <1>2 DEF SessionInv
<1> QED
  BY <1>1, <1>2, <1>3, UnseenAfterwards

LEMMA NewHandlerIdle ==
    /\ NewHandler \in Handlers /\ Idle(NewHandler)
    /\ NewHandler.rxBuffer = << >> /\ NewHandler.hasValidated = 0
  BY DEF NewHandler, Handlers, Idle, SocketState, Timer, Bit

\* What has been applied was listed.
LEMMA OnceApplied ==
    ASSUME SessionInv, client.state # "closed", applied = 1
    PROVE  \E games : Written(games)
  BY DEF SessionInv, Stage

LEMMA ConnectStep ==
    ASSUME SessionInv, OnSyncConnect
    PROVE  SessionInv' /\ UNCHANGED Exchange!vars
<1>1. client.state = "connecting" /\ client.state # "closed"
  BY DEF OnSyncConnect
<1>2. Connecting /\ applied = 0
  BY <1>1 DEF SessionInv, Stage, Greeted, Challenged, Written
<1>3. /\ client' = [client EXCEPT !.state = "open", !.timer = "running"] /\ client \in Clients
      /\ handler' = NewHandler /\ toClient' = Greeting /\ toServer' = << >> /\ peer' = "open"
      /\ serverlist' = serverlist /\ local' = local /\ applied' = 0
  BY <1>1, <1>2 DEF OnSyncConnect, SessionInv, Connected, Connecting
<1>4. client' \in Clients /\ client'.state = "open" /\ client'.rxBuffer = << >>
  BY <1>2, <1>3 DEF Clients, Timer, Connecting
<1>5. SameStream(<< >>, Greeting, Greeting, << >>)
  BY GreetingText, ConcatEmptySeq DEF SameStream
<1>6. ~Has(<< >>, "secure") /\ << >> \in Seq(Words) /\ Greeting \in Seq(Words)
  BY GreetingText DEF Has
<1>7. Greeted'
  BY <1>3, <1>4, <1>5, <1>6, NewHandlerIdle DEF Greeted, Idle
<1>8. Connected'
  BY <1>3, <1>6, NewHandlerIdle DEF Connected
<1>9. SessionInv'
  <2>1. Stage'
    BY <1>3, <1>7 DEF Stage
  <2>2. serverlist' \in Table /\ local' \in Table /\ applied' \in Bit
    BY <1>3 DEF SessionInv, Bit
  <2> QED
    BY <1>4, <1>8, <2>1, <2>2 DEF SessionInv
<1>10. handler'.served = handler.served
  BY <1>2, <1>3, NewHandlerIdle DEF Connecting, Idle
<1> QED
  BY <1>1, <1>3, <1>4, <1>9, <1>10, <1>2, Unseen

LEMMA CloseStep ==
    ASSUME SessionInv, client.state # "closed", CloseClient
    PROVE  SessionInv' /\ (Exchange!Fail \/ UNCHANGED Exchange!vars)
<1>1. /\ client' \in Clients /\ client'.state = "closed"
      /\ serverlist' = serverlist /\ local' = local /\ applied' = applied
  BY DEF CloseClient, SessionInv, Clients, Timer
<1>2. SessionInv'
  BY <1>1 DEF SessionInv
<1>3. applied \in {0, 1}
  BY DEF SessionInv, Bit
<1> QED
  BY <1>1, <1>2, <1>3, SeenAsFailure, UnseenOnceApplied

\* The handler's timer does not run behind a list.
LEMMA TimeOutStep ==
    ASSUME SessionInv, client.state # "closed", ServerTimeOut
    PROVE  SessionInv' /\ UNCHANGED Exchange!vars
<1>1. /\ handler.timer = "running" /\ handler' = Disconnect(handler)
      /\ toServer' = toServer /\ peer' = peer /\ serverlist' = serverlist /\ client' = client
      /\ toClient' = toClient /\ local' = local /\ applied' = applied /\ network' = network
  BY DEF ServerTimeOut, OnListenClientTimeOut
<1>2. handler \in Handlers /\ Stage /\ applied \in Bit
  BY DEF SessionInv, Connected
<1>3. /\ applied = 0 /\ Idle(handler)
      /\ Connecting \/ Greeted \/ \E v \in AnswerWords : Challenged(v)
  BY <1>1, <1>2 DEF Stage, Written, Connecting, Greeted, Challenged
<1>4. /\ handler' \in Handlers /\ Idle(handler') /\ handler'.state = "closed"
      /\ handler'.hasValidated = handler.hasValidated
  BY <1>1, <1>2, <1>3, DisconnectIdle
<1>5. handler'.rxBuffer = handler.rxBuffer
  BY <1>1, <1>2 DEF Disconnect, Handlers
<1>6. Connecting => Connecting'
  BY <1>1, <1>4 DEF Connecting, Idle
<1>7. Greeted => Greeted'
  BY <1>1, <1>4, <1>5 DEF Greeted, Idle
<1>8. \A v \in AnswerWords : Challenged(v) => Challenged(v)'
  BY <1>1, <1>4 DEF Challenged, Pending, Idle
<1>9. Stage'
  BY <1>1, <1>3, <1>6, <1>7, <1>8 DEF Stage, AnswerWords
<1>10. SessionInv'
  BY <1>1, <1>4, <1>9 DEF SessionInv, Connected
<1>11. handler'.served = handler.served
  BY <1>3, <1>4 DEF Idle
<1> QED
  BY <1>1, <1>10, <1>11, Unseen
\* A list stays written while the streams move.
LEMMA WrittenStays ==
    ASSUME NEW games, Written(games), applied' = 1 => Marked(local', games),
           serverlist' = serverlist, network' = network, client'.state = "open", handler'.served = handler.served,
           handler'.state \in {"closing", "closed"}, handler'.timer = "stopped",
           handler'.state = "closed" => handler'.out = << >>,
           NEW d \in Seq(Words),
           SameStream((client'.rxBuffer \o toClient') \o handler'.out, d, CompileSyncList(games), << >>)
    PROVE  Written(games)'
<1>1. CompileSyncList(games)' = CompileSyncList(games)
  BY DEF CompileSyncList, Addresses
<1>2. \E e \in Seq(Words) :
           SameStream((client'.rxBuffer \o toClient') \o handler'.out, e, CompileSyncList(games)', << >>)
  BY <1>1
<1>3. applied' = 1 => Marked(local, games)'
  <2>1. PairsOf(games)' = PairsOf(games)
    BY DEF PairsOf, Heard
  <2> QED
    BY <2>1 DEF Marked
<1>4. network' = "whole" /\ Msid # Identity => Complete(games)'
  BY DEF Written, Complete
<1>5. games \in Seq(WantedGames) /\ \E type \in {"sync", "self"} : handler'.served = <<Entered(type, games)>>
  BY DEF Written
<1> QED
  BY <1>2, <1>3, <1>4, <1>5 DEF Written, SameStream

LEMMA FlushStep ==
    ASSUME SessionInv, client.state # "closed", ServerFlush
    PROVE  SessionInv' /\ UNCHANGED Exchange!vars
<1>1. PICK n \in Cuts(handler.out) : /\ Flush(n)
           /\ toClient' = IF peer = "open" THEN toClient \o SubSeq(handler.out, 1, n) ELSE toClient
  BY DEF ServerFlush
<1> DEFINE o == SubSeq(handler.out, 1, n)
           rest == SubSeq(handler.out, n + 1, Len(handler.out))
<1>2. /\ handler.state # "closed" /\ n \in 1 .. Len(handler.out)
      /\ handler' = [handler EXCEPT !.out = rest,
              !.state = IF @ = "closing" /\ n = Len(handler.out) THEN "closed" ELSE @]
      /\ toServer' = toServer /\ peer' = peer /\ serverlist' = serverlist /\ client' = client
      /\ local' = local /\ applied' = applied /\ network' = network
  BY <1>1 DEF Flush, ServerFlush
<1>3. /\ handler \in Handlers /\ peer = "open" /\ toServer \in Seq(Words) /\ toClient \in Seq(Words)
      /\ Stage /\ client \in Clients /\ serverlist \in Table
  BY DEF SessionInv, Connected
<1>4. handler.out \in Seq(Words) /\ client.rxBuffer \in Seq(Words)
  BY <1>3 DEF Handlers, Clients
<1>5. PICK games : Written(games)
  <2>1. handler.out # << >>
    BY <1>2, <1>4
  <2> QED
    BY <1>3, <2>1 DEF Stage, Connecting, Greeted, Challenged, Idle
<1>6. /\ o \in Seq(Words) /\ rest \in Seq(Words) /\ o \o rest = handler.out
      /\ n = Len(handler.out) => rest = << >>
  BY <1>2, <1>4, Cut, ZenonT(30)
<1>7. toClient' = toClient \o o
  BY <1>1, <1>3
<1> HIDE DEF o, rest
<1>8. handler.state = "closing" /\ handler.timer = "stopped" /\ client.state = "open"
  BY <1>2, <1>5 DEF Written
<1>9. /\ handler' \in Handlers /\ handler'.out = rest /\ handler'.timer = "stopped"
      /\ handler'.served = handler.served
      /\ handler'.state = IF n = Len(handler.out) THEN "closed" ELSE "closing"
  BY <1>2, <1>3, <1>6, <1>8 DEF Handlers, SocketState
<1>10. toClient' \in Seq(Words)
  BY <1>3, <1>6, <1>7, ConcatProperties
<1>11. PICK d \in Seq(Words) :
           SameStream((client.rxBuffer \o toClient) \o handler.out, d, CompileSyncList(games), << >>)
  BY <1>5 DEF Written
<1>12. (client.rxBuffer \o toClient') \o rest = (client.rxBuffer \o toClient) \o handler.out
  <2>0. client.rxBuffer \in Seq(Words) /\ toClient \in Seq(Words) /\ o \in Seq(Words)
    BY <1>3, <1>4, <1>6
  <2>1. client.rxBuffer \o (toClient \o o) = (client.rxBuffer \o toClient) \o o
    BY <2>0, ConcatOfThree, ZenonT(30)
  <2>2. client.rxBuffer \o toClient \in Seq(Words)
    BY <1>3, <1>4, ConcatProperties
  <2>3. ((client.rxBuffer \o toClient) \o o) \o rest = (client.rxBuffer \o toClient) \o (o \o rest)
    BY <1>6, <2>2, ConcatOfThree
  <2> QED
    BY <1>6, <1>7, <2>1, <2>3
<1>13. SameStream((client'.rxBuffer \o toClient') \o handler'.out, d, CompileSyncList(games), << >>)
  BY <1>2, <1>9, <1>11, <1>12
<1>14. Written(games)'
  <2>1. handler'.state \in {"closing", "closed"} /\ (handler'.state = "closed" => handler'.out = << >>)
    BY <1>6, <1>9
  <2> QED
    <3>1. applied' = 1 => Marked(local', games)
      BY <1>2, <1>5 DEF Written
    <3> QED
      BY <1>2, <1>5, <1>8, <1>9, <1>13, <2>1, <3>1, WrittenStays
<1>15. Stage'
  BY <1>14 DEF Stage
<1>16. SessionInv'
  BY <1>2, <1>3, <1>9, <1>10, <1>15 DEF SessionInv, Connected
<1> QED
  BY <1>2, <1>9, <1>16, Unseen

\* What is lost of a list is its end.
LEMMA ResetStep ==
    ASSUME SessionInv, client.state # "closed", Reset
    PROVE  SessionInv' /\ UNCHANGED Exchange!vars
<1>1. /\ client.state = "open" /\ handler.state = "closed" /\ toServer # << >> /\ toClient' = << >>
      /\ handler' = handler /\ toServer' = toServer /\ peer' = peer /\ serverlist' = serverlist
      /\ client' = client /\ local' = local /\ applied' = applied /\ network' = network
  BY DEF Reset, connection
<1>2. /\ handler \in Handlers /\ toServer \in Seq(Words) /\ toClient \in Seq(Words)
      /\ Stage /\ client.rxBuffer \in Seq(Words)
  BY DEF SessionInv, Connected, Clients
<1>3. Stage'
  <2>1. CASE applied = 0 /\ (Connecting \/ Greeted \/ \E v \in AnswerWords : Challenged(v))
    <3>1. ~Connecting /\ ~Greeted
      BY <1>1 DEF Connecting, Greeted
    <3>2. PICK v \in AnswerWords : Challenged(v)
      BY <2>1, <3>1
    <3>3. Quiet(<< >>)
      BY DEF Quiet, Has
    <3>4. Challenged(v)'
      BY <1>1, <3>2, <3>3 DEF Challenged, Pending, Quiet, Has, Idle
    <3> QED
      BY <1>1, <2>1, <3>2, <3>4 DEF Stage, AnswerWords
  <2>2. CASE \E games : Written(games)
    <3>1. PICK games : Written(games)
      BY <2>2
    <3>2. handler.out = << >> /\ handler.timer = "stopped"
      BY <1>1, <3>1 DEF Written
    <3>3. PICK d \in Seq(Words) :
           SameStream((client.rxBuffer \o toClient) \o handler.out, d, CompileSyncList(games), << >>)
      BY <3>1 DEF Written
    <3>4. toClient \o d \in Seq(Words) /\ client.rxBuffer \o toClient \in Seq(Words) /\ << >> \in Seq(Words)
      BY <1>2, <3>3, ConcatProperties
    <3>5. (client.rxBuffer \o toClient) \o << >> = client.rxBuffer \o toClient
      BY <3>4, ConcatEmptySeq
    <3>6. (client.rxBuffer \o << >>) \o << >> = client.rxBuffer
      BY <1>2, ConcatEmptySeq
    <3>7. (client.rxBuffer \o toClient) \o d = client.rxBuffer \o (toClient \o d)
      BY <1>2, <3>3, ConcatOfThree
    <3>8. SameStream((client'.rxBuffer \o toClient') \o handler'.out, toClient \o d, CompileSyncList(games), << >>)
      BY <1>1, <3>2, <3>3, <3>5, <3>6, <3>7 DEF SameStream
    <3>9. Written(games)'
      <4>1. applied' = 1 => Marked(local', games)
        BY <1>1, <3>1 DEF Written
      <4> QED
        BY <1>1, <3>1, <3>2, <3>4, <3>8, <4>1, WrittenStays
    <3> QED
      BY <3>9 DEF Stage
  <2> QED
    BY <1>2, <2>1, <2>2 DEF Stage
<1>4. SessionInv'
  <2>1. << >> \in Seq(Words)
    OBVIOUS
  <2> QED
    BY <1>1, <1>2, <1>3, <2>1 DEF SessionInv, Connected
<1> QED
  BY <1>1, <1>4, Unseen
-----------------------------------------------------------------------------
(* The handler reads.                                                      *)

LEMMA PairHas ==
    ASSUME NEW k \in Words, NEW v \in Seq(Words), NEW w, w # Backslash, w # k, ~Has(v, w)
    PROVE  ~Has(Pair(k, v), w)
<1>1. /\ Len(Pair(k, v)) = 3 + Len(v)
      /\ Pair(k, v)[1] = Backslash /\ Pair(k, v)[2] = k /\ Pair(k, v)[3] = Backslash
      /\ \A i \in 1 .. Len(v) : Pair(k, v)[3 + i] = v[i]
  BY WordsClosed, ThreeMore DEF Pair
<1>2. ASSUME NEW i \in 1 .. 3 + Len(v)
      PROVE  Pair(k, v)[i] # w
  <2>1. Len(v) \in Nat
    BY LenProperties
  <2>2. i \in {1, 2, 3} \/ (i - 3 \in 1 .. Len(v) /\ i = 3 + (i - 3))
    BY <2>1
  <2>3. CASE i \in {1, 2, 3}
    BY <1>1, <2>3
  <2>4. ASSUME NEW j \in 1 .. Len(v), i = 3 + j PROVE Pair(k, v)[i] # w
    <3>1. Pair(k, v)[3 + j] = v[j]
      BY <1>1, <2>4
    <3>2. Pair(k, v)[i] = v[j]
      BY <2>4, <3>1
    <3> QED
      BY <3>2 DEF Has
  <2> QED
    BY <2>2, <2>3, <2>4
<1> QED
  BY <1>1, <1>2 DEF Has

\* Neither the answer up to its terminator nor the request has another one.
LEMMA OneFinal ==
    /\ \A v \in AnswerWords : ~Has(Fore(v), "final")
    /\ ~Has(SyncRequest, "final")
<1>1. /\ {"validate", "gamename", "sync", "msid"} \subseteq Words
      /\ "final" \notin {"validate", "gamename", "sync", "msid", Backslash}
  BY WordsClosed DEF SessionKeys, Backslash
<1>2. ASSUME NEW v \in AnswerWords
      PROVE  ~Has(Fore(v), "final")
  <2>1. v \in Seq(Words) /\ <<SelfGame>> \in Seq(Words)
    BY AnswerTyped
  <2>2. ~Has(<<SelfGame>>, "final") /\ ~Has(v, "final")
    <3>1. SelfGame # "final" /\ Cipher[SelfGame] # "final" /\ "invalid!" # "final"
      BY SessionAssumption DEF SessionKeys
    <3>2. \A x : x # "final" => ~Has(<<x>>, "final")
      BY DEF Has
    <3>3. ~Has(<< >>, "final")
      BY DEF Has
    <3> QED
      BY <3>1, <3>2, <3>3 DEF AnswerWords
  <2>3. ~Has(Pair("gamename", <<SelfGame>>), "final") /\ ~Has(Pair("validate", v), "final") /\ ~Has(<< >>, "final")
    <3>1. ~Has(Pair("gamename", <<SelfGame>>), "final")
      BY <1>1, <2>1, <2>2, PairHas
    <3>2. ~Has(Pair("validate", v), "final")
      BY <1>1, <2>1, <2>2, PairHas
    <3> QED
      BY <3>1, <3>2 DEF Has
  <2> DEFINE g == Pair("gamename", <<SelfGame>>)
             a == IF v = << >> THEN << >> ELSE Pair("validate", v)
  <2>4. g \in Seq(Words)
    BY <1>1, <2>1, PairTyped
  <2>5. a \in Seq(Words)
    <3>1. Pair("validate", v) \in Seq(Words)
      BY <1>1, <2>1, PairTyped
    <3> QED
      BY <3>1
  <2>6. ~Has(a, "final") /\ ~Has(g, "final")
    BY <2>3
  <2>7. Fore(v) = a \o g
    BY DEF Fore
  <2> HIDE DEF a, g
  <2> QED
    BY <2>4, <2>5, <2>6, <2>7, HasConcat
<1>3. ~Has(SyncRequest, "final")
  <2>1. ~Has(SyncGames, "final") /\ ~Has(<<Msid>>, "final")
    <3>1. \A i \in 1 .. Len(SyncGames) : SyncGames[i] \in SyncWords
      BY AnswerTyped, ElementOfSeq
    <3>2. "final" \notin SyncWords /\ Msid # "final"
      BY SessionAssumption DEF SessionKeys
    <3> QED
      BY <3>1, <3>2 DEF Has
  <2>2. ~Has(Pair("sync", SyncGames), "final") /\ ~Has(Pair("msid", <<Msid>>), "final")
    <3>1. ~Has(Pair("sync", SyncGames), "final")
      BY <1>1, <2>1, AnswerTyped, PairHas
    <3>2. ~Has(Pair("msid", <<Msid>>), "final")
      BY <1>1, <2>1, AnswerTyped, PairHas
    <3> QED
      BY <3>1, <3>2
  <2> QED
    BY <2>2, RequestText, HasConcat
<1> QED
  BY <1>2, <1>3

\* b is the answer and a part of the request, of which d is still under way.
RequestBegins(b, d, v) ==
    \E s \in Seq(Words) : b = ReplyOf(v) \o s /\ SameStream(s, d, SyncRequest, << >>)

\* The terminator has arrived: what follows it is of the request.
LEMMA RequestArrived ==
    ASSUME NEW v \in AnswerWords, NEW a \in Seq(Words), NEW f \in Seq(Words), NEW d \in Seq(Words),
           SameStream(a \o f, d, ReplyOf(v), SyncRequest), Holds(f, Final)
    PROVE  ~Has(d, "final") /\ RequestBegins(a \o f, d, v)
<1>1. ReplyOf(v) = Fore(v) \o Final /\ Fore(v) \in Seq(Words) /\ Final \in Seq(Words)
  BY ReplyRead
<1>2. ~Has(Fore(v), "final") /\ ~Has(SyncRequest, "final") /\ SyncRequest \in Seq(Words)
  BY OneFinal, RequestText
<1>3. Begins(Words, a \o f, d, Fore(v) \o Final, SyncRequest)
  BY <1>1, <1>2, FinalArrived
<1>4. PICK s \in Seq(Words) : a \o f = ReplyOf(v) \o s /\ s \o d = SyncRequest
  BY <1>1, <1>3 DEF Begins
<1>5. SyncRequest \o << >> = SyncRequest
  BY <1>2, ConcatEmptySeq
<1>6. ~Has(d, "final")
  <2>1. Has(s \o d, "final") <=> Has(s, "final") \/ Has(d, "final")
    BY HasConcat
  <2> QED
    BY <1>2, <1>4, <2>1
<1> QED
  BY <1>4, <1>5, <1>6 DEF SameStream, RequestBegins

LEMMA ReceivedTyped ==
    ASSUME NEW h \in Handlers, NEW f \in Seq(Words), Idle(h), h.state = "open"
    PROVE  LET r == Received(h, f)
           IN  /\ r \in Handlers /\ Idle(r) /\ r.state = "open" /\ r.hasValidated = h.hasValidated
               /\ r.rxBuffer = BufferOf(h) \o f
<1>1. BufferOf(h) \in Seq(Words) /\ << >> \in Seq(Words)
  BY DEF BufferOf, Handlers
<1>2. BufferOf(h) \o f \in Seq(Words)
  BY <1>1, ConcatProperties
<1> QED
  BY <1>2 DEF Received, Handlers, Idle, Timer
\* The client has challenged nobody twice: an answer is under way, and the list is not.
LEMMA ReadsAnAnswer ==
    ASSUME SessionInv, client.state # "closed", handler.state = "open", toServer # << >>
    PROVE  applied = 0 /\ \E v \in AnswerWords : Challenged(v)
<1>1. Stage
  BY DEF SessionInv
<1>2. ~Connecting /\ ~Greeted
  BY DEF Connecting, Greeted
<1>3. \A games : ~Written(games)
  BY DEF Written
<1> QED
  BY <1>1, <1>2, <1>3 DEF Stage

\* A fragment after the terminator, or before it, changes only the buffers.
LEMMA AnswerWaits ==
    ASSUME SessionInv, NEW v \in AnswerWords, Challenged(v), applied = 0,
           handler' \in Handlers, Idle(handler)', Pending(v)', toServer' \in Seq(Words),
           peer' = peer, serverlist' = serverlist,
           UNCHANGED <<client, toClient, local, network, applied, expired>>
    PROVE  SessionInv' /\ UNCHANGED Exchange!vars
<1>1. client' = client /\ toClient' = toClient /\ local' = local /\ applied' = applied
  OBVIOUS
<1>2. Challenged(v)'
  BY <1>1 DEF Challenged, Quiet, Has
<1>3. Stage'
  BY <1>1, <1>2 DEF Stage, AnswerWords
<1>4. client.state # "closed"
  BY DEF Challenged
<1>5. SessionInv'
  BY <1>1, <1>3, <1>4 DEF SessionInv, Connected
<1>6. handler'.served = handler.served
  BY DEF Challenged, Idle
<1> QED
  BY <1>1, <1>5, <1>6, Unseen

\* The list that answers the request is the abstract exchange's.
LEMMA ListAnswers ==
    ASSUME SessionInv, Challenged(<<Cipher[SelfGame]>>), applied = 0, handler' \in Handlers,
           NEW games \in Seq(WantedGames), Listing(handler', games),
           network = "whole" /\ Msid # Identity => Complete(games),
           toServer' \in Seq(Words), peer' = peer, serverlist' = serverlist,
           UNCHANGED <<client, toClient, local, network, applied, expired>>
    PROVE  SessionInv' /\ Exchange!Compose
<1>1. client' = client /\ toClient' = toClient /\ local' = local /\ applied' = applied /\ network' = network
  OBVIOUS
<1>2. PICK type \in {"sync", "self"} : handler'.served = <<Entered(type, games)>>
  BY DEF Listing
<1>3. handler'.state = "closing" /\ handler'.timer = "stopped" /\ handler'.out = CompileSyncList(games)
  BY DEF Listing
<1>4. client.state = "open" /\ client.rxBuffer = << >> /\ toClient = << >> /\ handler.served = << >>
  BY DEF Challenged, Idle
<1>5. SameStream((client'.rxBuffer \o toClient') \o handler'.out, << >>, CompileSyncList(games), << >>)
  <2>1. << >> \o << >> = << >>
    OBVIOUS
  <2>2. CompileSyncList(games) \in Seq(Words)
    BY ListTyped DEF SessionInv
  <2>3. << >> \o CompileSyncList(games) = CompileSyncList(games)
    BY <2>2, ConcatEmptySeq
  <2> QED
    BY <1>1, <1>3, <1>4, <2>1, <2>3 DEF SameStream
<1>6. Written(games)'
  <2>1. CompileSyncList(games)' = CompileSyncList(games)
    BY DEF CompileSyncList, Addresses
  <2>2. \E d \in Seq(Words) :
           SameStream((client'.rxBuffer \o toClient') \o handler'.out, d, CompileSyncList(games)', << >>)
    <3>1. << >> \in Seq(Words)
      OBVIOUS
    <3> QED
      BY <1>5, <2>1, <3>1
  <2>3. network' = "whole" /\ Msid # Identity => Complete(games)'
    BY <1>1 DEF Complete
  <2>4. applied' # 1 /\ client'.state = "open"
    BY <1>1, <1>4
  <2>5. \E t \in {"sync", "self"} : handler'.served = <<Entered(t, games)>>
    BY <1>2
  <2> QED
    BY <1>3, <2>2, <2>3, <2>4, <2>5 DEF Written, SameStream
<1>7. SessionInv'
  <2>1. Stage'
    BY <1>6 DEF Stage
  <2> QED
    BY <1>1, <1>4, <2>1 DEF SessionInv, Connected
<1>8. Exchange!Compose
  BY <1>1, <1>2, <1>4, SeenAsComposing
<1> QED
  BY <1>7, <1>8

LEMMA ServerReadStep ==
    ASSUME SessionInv, client.state # "closed", ServerReads
    PROVE  SessionInv' /\ (Exchange!Compose \/ UNCHANGED Exchange!vars)
<1>1. PICK n \in Cuts(toServer) : OnListenClientRead(n)
  BY DEF ServerReads
<1> DEFINE f == SubSeq(toServer, 1, n)
           rest == SubSeq(toServer, n + 1, Len(toServer))
           h == Received(handler, f)
<1>2. /\ handler.state = "open" /\ n \in 1 .. Len(toServer)
      /\ handler' = IF Holds(f, Final) THEN Interaction(h, ParseGameSpy0Buffer(h.rxBuffer)) ELSE h
      /\ toServer' = rest /\ peer' = peer /\ serverlist' = serverlist
      /\ UNCHANGED <<client, toClient, local, network, applied, expired>>
  BY <1>1 DEF OnListenClientRead, ServerReads
<1>3. handler \in Handlers /\ toServer \in Seq(Words) /\ serverlist \in Table
  BY DEF SessionInv, Connected
<1>4. applied = 0 /\ \E v \in AnswerWords : Challenged(v)
  <2>1. toServer # << >>
    BY <1>2
  <2> QED
    BY <1>2, <2>1, ReadsAnAnswer
<1>5. PICK v \in AnswerWords : Challenged(v)
  BY <1>4
<1>6. /\ f \in Seq(Words) /\ rest \in Seq(Words) /\ f \o rest = toServer
      /\ n = Len(toServer) => rest = << >>
  BY <1>2, <1>3, Cut
<1>7. network = "whole" => rest = << >>
  <2>1. network = "whole" => n = Len(toServer)
    BY <1>1 DEF Cuts
  <2> QED
    BY <1>6, <2>1
<1> HIDE DEF f, rest
<1>8. Idle(handler) /\ Pending(v)
  BY <1>5 DEF Challenged
<1>9. /\ h \in Handlers /\ Idle(h) /\ h.state = "open" /\ h.hasValidated = handler.hasValidated
      /\ h.rxBuffer = BufferOf(handler) \o f
  BY <1>2, <1>3, <1>6, <1>8, ReceivedTyped
<1> HIDE DEF h
<1>10. ASSUME handler' \in Handlers, Idle(handler'), handler'.state = "open" => ~Has(rest, "final")
       PROVE  SessionInv' /\ UNCHANGED Exchange!vars
  <2>1. Pending(v)'
    BY <1>2, <1>10 DEF Pending, Has
  <2>2. Idle(handler)'
    BY <1>10 DEF Idle
  <2>3. toServer' \in Seq(Words)
    BY <1>2, <1>6
  <2> QED
    BY <1>2, <1>4, <1>5, <1>10, <2>1, <2>2, <2>3, AnswerWaits
<1>11. CASE ~Has(toServer, "final")
  <2>1. ~Has(f, "final") /\ ~Has(rest, "final")
    <3>1. Has(f \o rest, "final") <=> Has(f, "final") \/ Has(rest, "final")
      BY <1>6, HasConcat
    <3> QED
      BY <1>6, <1>11, <3>1
  <2>2. ~Holds(f, Final)
    <3>1. Holds(f, Final) => Has(f, "final")
      BY <1>6, HoldsFinal DEF Has
    <3> QED
      BY <2>1, <3>1
  <2> QED
    BY <1>2, <1>9, <1>10, <2>1, <2>2
<1>12. CASE /\ SameStream(handler.rxBuffer, toServer, ReplyOf(v), SyncRequest)
            /\ ~Holds(handler.rxBuffer, Final) /\ handler.hasValidated = 0
  <2> DEFINE b == handler.rxBuffer
  <2>1. b \in Seq(Words) /\ BufferOf(handler) = b
    BY <1>3, <1>12 DEF Handlers, BufferOf
  <2>2. h.rxBuffer = b \o f /\ b \o f \in Seq(Words)
    BY <1>6, <1>9, <2>1, ConcatProperties
  <2>3. SameStream(b \o f, rest, ReplyOf(v), SyncRequest)
    <3>1. (b \o f) \o rest = b \o (f \o rest)
      BY <1>6, <2>1, ConcatOfThree
    <3> QED
      BY <1>6, <1>12, <3>1 DEF SameStream
  <2> HIDE DEF b
  <2>4. CASE Holds(f, Final)
    <3>1. ~Has(rest, "final")
      BY <1>6, <2>1, <2>3, <2>4, RequestArrived
    <3>0. RequestBegins(b \o f, rest, v)
      BY <1>6, <2>1, <2>3, <2>4, RequestArrived
    <3>2. PICK s \in Seq(Words) : b \o f = ReplyOf(v) \o s /\ SameStream(s, rest, SyncRequest, << >>)
      BY <3>0 DEF RequestBegins
    <3> DEFINE data == ParseGameSpy0Buffer(b \o f)
               whole == rest = << >>
    <3>3. Understood(ParseGameSpy0Buffer(ReplyOf(v) \o s), v, rest = << >>)
      BY <1>6, <3>2, RequestUnderstood
    <3>4. Understood(data, v, whole)
      BY <3>2, <3>3
    <3>5. handler' = Interaction(h, data)
      BY <1>2, <2>2, <2>4
    <3> HIDE DEF data
    <3>6. CASE v # <<Cipher[SelfGame]>>
      <4>1. v \in {<< >>, <<"invalid!">>}
        BY <3>6 DEF AnswerWords
      <4>2. Interaction(h, data) \in Handlers /\ Idle(Interaction(h, data))
        <5>1. h.hasValidated = 0
          BY <1>9, <1>12
        <5> HIDE DEF whole
        <5> QED
          BY <1>9, <3>4, <4>1, <5>1, WrongAnswer
      <4> QED
        BY <1>10, <3>1, <3>5, <4>2
    <3>7. CASE v = <<Cipher[SelfGame]>>
      <4> DEFINE c == <<Cipher[SelfGame]>>
      <4>1. Understood(data, c, whole)
        BY <3>4, <3>7
      <4>2. /\ Interaction(h, data) \in Handlers
            /\ \/ ~whole /\ Idle(Interaction(h, data))
               \/ \E games \in Seq(WantedGames) :
                      /\ Listing(Interaction(h, data), games)
                      /\ whole /\ Msid # Identity => Complete(games)
        <5> HIDE DEF whole
        <5> QED
          BY <1>3, <1>9, <4>1, RightAnswer
      <4>3. CASE Idle(Interaction(h, data))
        BY <1>10, <3>1, <3>5, <4>2, <4>3
      <4>4. CASE \E games \in Seq(WantedGames) :
                      /\ Listing(Interaction(h, data), games)
                      /\ whole /\ Msid # Identity => Complete(games)
        <5>1. PICK games \in Seq(WantedGames) :
                      /\ Listing(Interaction(h, data), games)
                      /\ whole /\ Msid # Identity => Complete(games)
          BY <4>4
        <5>2. Listing(handler', games) /\ handler' \in Handlers
          BY <3>5, <4>2, <5>1
        <5>3. network = "whole" /\ Msid # Identity => Complete(games)
          BY <1>7, <5>1
        <5>4. Challenged(<<Cipher[SelfGame]>>)
          BY <1>5, <3>7
        <5>5. toServer' \in Seq(Words)
          BY <1>2, <1>6
        <5>6. SessionInv' /\ Exchange!Compose
          BY <1>2, <1>4, <5>2, <5>3, <5>4, <5>5, ListAnswers
        <5> QED
          BY <5>6
      <4> QED
        BY <4>2, <4>3, <4>4
    <3> QED
      BY <3>6, <3>7
  <2>5. CASE ~Holds(f, Final)
    <3>1. handler' = h
      BY <1>2, <2>5
    <3>2. CASE Holds(b \o f, Final)
      <4>1. << >> \o (b \o f) = b \o f
        BY <2>2, ConcatEmptySeq
      <4>2. SameStream(<< >> \o (b \o f), rest, ReplyOf(v), SyncRequest)
        BY <2>3, <4>1
      <4>3. ~Has(rest, "final")
        <5>1. << >> \in Seq(Words)
          OBVIOUS
        <5> QED
          BY <1>6, <2>2, <3>2, <4>2, <5>1, RequestArrived
      <4> QED
        BY <1>9, <1>10, <3>1, <4>3
    <3>3. CASE ~Holds(b \o f, Final)
      <4>1. ReplyOf(v)' = ReplyOf(v) /\ SyncRequest' = SyncRequest
        BY DEF ReplyOf, SyncRequest
      <4>2. Pending(v)'
        <5>1. /\ SameStream(handler'.rxBuffer, toServer', ReplyOf(v), SyncRequest)
              /\ ~Holds(handler'.rxBuffer, Final) /\ handler'.hasValidated = 0
          BY <1>2, <1>9, <1>12, <2>2, <2>3, <3>1, <3>3
        <5> QED
          BY <4>1, <5>1 DEF Pending, SameStream, Holds
      <4>3. Idle(handler)' /\ handler' \in Handlers
        BY <1>9, <3>1 DEF Idle
      <4>4. toServer' \in Seq(Words)
        BY <1>2, <1>6
      <4> QED
        BY <1>2, <1>4, <1>5, <4>2, <4>3, <4>4, AnswerWaits
    <3> QED
      BY <3>2, <3>3
  <2> QED
    BY <2>4, <2>5
<1>13. Has(toServer, "final") => /\ SameStream(handler.rxBuffer, toServer, ReplyOf(v), SyncRequest)
                                 /\ ~Holds(handler.rxBuffer, Final) /\ handler.hasValidated = 0
  BY <1>2, <1>8 DEF Pending
<1> QED
  BY <1>11, <1>12, <1>13
-----------------------------------------------------------------------------
(* The client reads.                                                       *)

LEMMA GreetingWords == ~Has(Greeting, "final") /\ ~Has(<< >>, "final") /\ ~Has(<< >>, "secure")
  BY GreetingText DEF Has, Backslash

\* The greeting, or a part of it that has the key of the challenge, is answered.
LEMMA ChallengeAnswered ==
    ASSUME NEW b \in Seq(Words), NEW d \in Seq(Words), SameStream(b, d, Greeting, << >>), Has(b, "secure")
    PROVE  \E v \in AnswerWords : /\ Reply(ParseGameSpy0Buffer(b)) = ReplyOf(v)
                                  /\ v = <<Cipher[SelfGame]>> => d = << >>
<1>1. CASE d = << >>
  <2>1. Reply(ParseGameSpy0Buffer(b)) = ReplyOf(<<Cipher[SelfGame]>>)
    BY <1>1, GreetingAnswered
  <2> QED
    BY <1>1, <2>1 DEF AnswerWords
<1>2. CASE d # << >>
  <2>1. PICK v \in {<< >>, <<"invalid!">>} : Reply(ParseGameSpy0Buffer(b)) = ReplyOf(v)
    BY <1>2, GreetingAnswered
  <2>2. v # <<Cipher[SelfGame]>>
    <3>1. Cipher[SelfGame] # "invalid!"
      BY SessionAssumption
    <3>2. \A x, y : <<x>> # << >> /\ (<<x>> = <<y>> => x = y)
      OBVIOUS
    <3>3. v = << >> \/ v = <<"invalid!">>
      OBVIOUS
    <3> QED
      BY <3>1, <3>2, <3>3, Zenon
  <2> QED
    BY <2>1, <2>2 DEF AnswerWords
<1> QED
  BY <1>1, <1>2

\* What is left of a greeting that has been answered says nothing.
LEMMA RestQuiet ==
    ASSUME NEW b \in Seq(Words), NEW d \in Seq(Words), SameStream(b, d, Greeting, << >>), Has(b, "secure")
    PROVE  Quiet(d)
<1>1. \A i \in 1 .. Len(d) : d[i] \in {Backslash, "SEC", "RET"}
  BY GreetingCut
<1>2. "final" \notin {Backslash, "SEC", "RET"} /\ "secure" \notin {Backslash, "SEC", "RET"}
  BY DEF Backslash
<1> QED
  BY <1>1, <1>2 DEF Quiet, Has

LEMMA AnswerPending ==
    ASSUME NEW v \in AnswerWords
    PROVE  LET sent == (<< >> \o ReplyOf(v)) \o SyncRequest
           IN  /\ sent \in Seq(Words) /\ SameStream(<< >>, sent, ReplyOf(v), SyncRequest)
               /\ ~Holds(<< >>, Final)
<1>1. ReplyOf(v) \in Seq(Words) /\ SyncRequest \in Seq(Words)
  BY ReplyRead, RequestText DEF Reads
<1>2. << >> \o ReplyOf(v) = ReplyOf(v)
  BY <1>1, ConcatEmptySeq
<1>3. ReplyOf(v) \o SyncRequest \in Seq(Words)
  BY <1>1, ConcatProperties
<1>4. << >> \o (ReplyOf(v) \o SyncRequest) = ReplyOf(v) \o SyncRequest
  BY <1>3, ConcatEmptySeq
<1>5. ~Holds(<< >>, Final)
  <2>1. << >> \in Seq(Words) /\ ~Has(<< >>, "final")
    BY GreetingWords
  <2>2. ASSUME NEW e \in Seq(Words), Holds(e, Final)
        PROVE  Has(e, "final")
    BY <2>2, HoldsFinal DEF Has
  <2> QED
    BY <2>1, <2>2
<1> QED
  BY <1>2, <1>3, <1>4, <1>5 DEF SameStream

\* What a read does: b is the buffer with the fragment, rest is still to come.
Read(b, rest) ==
    /\ client.state = "open" /\ b \in Seq(Words) /\ rest \in Seq(Words) /\ toClient' = rest
    /\ b \o rest = client.rxBuffer \o toClient /\ toClient # << >>
    /\ Has(b, "secure") => /\ toServer' = (toServer \o Reply(ParseGameSpy0Buffer(b))) \o SyncRequest
                           /\ client' = [client EXCEPT !.rxBuffer = << >>, !.timer = "running"]
                           /\ UNCHANGED <<local, applied>>
    /\ ~Has(b, "secure") => /\ IF Has(b, "final") THEN ReadList(b) ELSE UNCHANGED <<local, applied>>
                            /\ client' = [client EXCEPT !.rxBuffer = b, !.timer = "running"]
                            /\ toServer' = toServer
    /\ UNCHANGED <<handler, peer, serverlist, network, expired>>

LEMMA ClientReadsSome ==
    ASSUME SessionInv, ClientReads
    PROVE  \E b, rest : /\ Read(b, rest)
                        /\ network = "whole" => b = client.rxBuffer \o toClient /\ rest = << >>
<1>1. PICK n \in Cuts(toClient) : OnSyncRead(n)
  BY DEF ClientReads
<1> DEFINE f == SubSeq(toClient, 1, n)
           rest == SubSeq(toClient, n + 1, Len(toClient))
           b == client.rxBuffer \o f
<1>2. /\ client.state = "open" /\ n \in 1 .. Len(toClient) /\ toClient' = rest
      /\ IF Holds(b, <<"secure">>)
           THEN /\ toServer' = toServer \o Reply(ParseGameSpy0Buffer(b)) \o SyncRequest
                /\ client' = [client EXCEPT !.rxBuffer = << >>, !.timer = "running"]
                /\ UNCHANGED <<local, applied>>
           ELSE /\ ReadFinal(b)
                /\ client' = [client EXCEPT !.rxBuffer = b, !.timer = "running"]
                /\ UNCHANGED toServer
      /\ UNCHANGED <<handler, peer, serverlist, network, expired>>
  BY <1>1 DEF OnSyncRead, ClearGreeting
<1>3. toClient \in Seq(Words) /\ client.rxBuffer \in Seq(Words)
  BY <1>2 DEF SessionInv, Connected, Clients
<1>4. /\ f \in Seq(Words) /\ rest \in Seq(Words) /\ f \o rest = toClient
      /\ n = Len(toClient) => f = toClient /\ rest = << >>
  <2>1. n \in 1 .. Len(toClient) /\ toClient \in Seq(Words)
    BY <1>2, <1>3
  <2> QED
    BY <2>1, Cut
<1>5. ReadFinal(b) <=> IF Holds(b, <<"final">>) THEN ReadList(b) ELSE UNCHANGED <<local, applied>>
  BY DEF ReadFinal, ReadList
<1>6. network = "whole" => n = Len(toClient)
  BY <1>1 DEF Cuts
<1>7. toClient # << >>
  BY <1>2
<1> HIDE DEF f, rest
<1>8. b \in Seq(Words) /\ b \o rest = client.rxBuffer \o toClient
  <2>1. (client.rxBuffer \o f) \o rest = client.rxBuffer \o (f \o rest)
    BY <1>3, <1>4, ConcatOfThree
  <2> QED
    BY <1>3, <1>4, <2>1, ConcatProperties
<1>9. network = "whole" => b = client.rxBuffer \o toClient /\ rest = << >>
  BY <1>4, <1>6
<1> HIDE DEF b
<1>10. (Holds(b, <<"secure">>) <=> Has(b, "secure")) /\ (Holds(b, <<"final">>) <=> Has(b, "final"))
  BY <1>8, HoldsOne
<1>11. Read(b, rest)
  BY <1>2, <1>4, <1>5, <1>7, <1>8, <1>10 DEF Read
<1> QED
  BY <1>9, <1>11
LEMMA GreetedRead ==
    ASSUME SessionInv, Greeted, applied = 0, NEW b, NEW rest, Read(b, rest)
    PROVE  SessionInv' /\ UNCHANGED Exchange!vars
<1>1. /\ client \in Clients /\ client.state = "open" /\ b \in Seq(Words) /\ rest \in Seq(Words)
      /\ serverlist \in Table /\ local \in Table /\ handler \in Handlers /\ peer = "open"
  BY DEF SessionInv, Connected, Greeted, Read
<1>2. /\ handler' = handler /\ serverlist' = serverlist /\ toClient' = rest /\ peer' = peer
  BY DEF Read
<1>3. SameStream(b, rest, Greeting, << >>)
  BY DEF Read, Greeted, SameStream
<1>4. CASE Has(b, "secure")
  <2>1. PICK v \in AnswerWords : /\ Reply(ParseGameSpy0Buffer(b)) = ReplyOf(v)
                                 /\ v = <<Cipher[SelfGame]>> => rest = << >>
    BY <1>1, <1>3, <1>4, ChallengeAnswered
  <2>2. /\ toServer' = (<< >> \o ReplyOf(v)) \o SyncRequest
        /\ client' = [client EXCEPT !.rxBuffer = << >>, !.timer = "running"]
        /\ local' = local /\ applied' = 0
    BY <1>4, <2>1 DEF Read, Greeted
  <2>3. client' \in Clients /\ client'.state = "open" /\ client'.rxBuffer = << >>
    <3>1. << >> \in Seq(Words)
      OBVIOUS
    <3> QED
      BY <1>1, <2>2, <3>1 DEF Clients, Timer
  <2>4. Quiet(rest) /\ Quiet(<< >>)
    BY <1>1, <1>3, <1>4, RestQuiet, GreetingWords DEF Quiet
  <2>5. /\ toServer' \in Seq(Words) /\ SameStream(<< >>, toServer', ReplyOf(v), SyncRequest)
        /\ ~Holds(<< >>, Final)
    BY <2>2, AnswerPending
  <2>6. Challenged(v)'
    <3>1. ReplyOf(v)' = ReplyOf(v) /\ SyncRequest' = SyncRequest
      BY DEF ReplyOf, SyncRequest
    <3>2. handler.rxBuffer = << >> /\ handler.hasValidated = 0 /\ Idle(handler)
      BY DEF Greeted
    <3>3. Pending(v)'
      BY <1>2, <2>5, <3>1, <3>2 DEF Pending, SameStream, Holds
    <3>4. Idle(handler)' /\ Quiet(client.rxBuffer)' /\ Quiet(toClient)'
      BY <1>2, <2>3, <2>4, <3>2 DEF Idle, Quiet, Has
    <3>5. v = <<Cipher[SelfGame]>> => client'.rxBuffer = << >> /\ toClient' = << >>
      BY <1>2, <2>1, <2>3
    <3> QED
      BY <2>3, <3>3, <3>4, <3>5 DEF Challenged
  <2>7. Stage'
    BY <2>2, <2>6 DEF Stage, AnswerWords
  <2>8. SessionInv'
    <3>1. Connected'
      BY <1>1, <1>2, <2>5 DEF Connected
    <3> QED
      BY <1>1, <1>2, <2>2, <2>3, <2>7, <3>1 DEF SessionInv, Bit
  <2>9. client.state # "closed" /\ client'.state # "closed"
    BY <1>1, <2>3
  <2> QED
    BY <1>2, <2>2, <2>8, <2>9, Unseen
<1>5. CASE ~Has(b, "secure")
  <2>1. ~Has(b, "final")
    <3>1. Greeting \o << >> = Greeting /\ ~Has(Greeting, "final")
      BY GreetingText, GreetingWords, ConcatEmptySeq
    <3>2. Has(b \o rest, "final") <=> Has(b, "final") \/ Has(rest, "final")
      BY <1>1, HasConcat
    <3> QED
      BY <1>3, <3>1, <3>2 DEF SameStream
  <2>2. /\ client' = [client EXCEPT !.rxBuffer = b, !.timer = "running"]
        /\ local' = local /\ applied' = 0 /\ toServer' = toServer
    BY <1>5, <2>1 DEF Read
  <2>3. client' \in Clients /\ client'.state = "open" /\ client'.rxBuffer = b
    BY <1>1, <2>2 DEF Clients, Timer
  <2>4. Greeted'
    BY <1>2, <1>3, <1>5, <2>2, <2>3 DEF Greeted, SameStream, Has, Idle, Greeting
  <2>5. SessionInv'
    <3>1. Connected' /\ Stage'
      BY <1>1, <1>2, <2>2, <2>4 DEF SessionInv, Connected, Stage
    <3> QED
      BY <1>1, <1>2, <2>2, <2>3, <3>1 DEF SessionInv, Bit
  <2>6. client.state # "closed" /\ client'.state # "closed"
    BY <1>1, <2>3
  <2> QED
    BY <1>2, <2>2, <2>5, <2>6, Unseen
<1> QED
  BY <1>4, <1>5

\* Behind a challenge that has been answered nothing is understood.
LEMMA ChallengedRead ==
    ASSUME SessionInv, NEW v \in AnswerWords, Challenged(v), applied = 0, NEW b, NEW rest, Read(b, rest)
    PROVE  SessionInv' /\ UNCHANGED Exchange!vars
<1>1. /\ client \in Clients /\ client.state = "open" /\ b \in Seq(Words) /\ rest \in Seq(Words)
      /\ serverlist \in Table /\ local \in Table /\ handler \in Handlers /\ peer = "open"
      /\ toServer \in Seq(Words) /\ toClient \in Seq(Words) /\ client.rxBuffer \in Seq(Words)
  BY DEF SessionInv, Connected, Challenged, Read, Clients
<1>2. /\ handler' = handler /\ serverlist' = serverlist /\ toClient' = rest /\ peer' = peer
      /\ b \o rest = client.rxBuffer \o toClient /\ toClient # << >>
  BY DEF Read
<1>3. Quiet(b) /\ Quiet(rest)
  <2>1. \A w : Has(b \o rest, w) <=> Has(b, w) \/ Has(rest, w)
    BY <1>1, HasConcat
  <2>2. \A w : Has(client.rxBuffer \o toClient, w) <=> Has(client.rxBuffer, w) \/ Has(toClient, w)
    BY <1>1, HasConcat
  <2> QED
    BY <1>2, <2>1, <2>2 DEF Quiet, Challenged
<1>4. /\ client' = [client EXCEPT !.rxBuffer = b, !.timer = "running"]
      /\ local' = local /\ applied' = 0 /\ toServer' = toServer
  BY <1>3 DEF Read, Quiet
<1>5. client' \in Clients /\ client'.state = "open" /\ client'.rxBuffer = b
  BY <1>1, <1>4 DEF Clients, Timer
<1>6. Challenged(v)'
  <2>1. v # <<Cipher[SelfGame]>> /\ Idle(handler) /\ Pending(v)
    BY <1>2 DEF Challenged
  <2>2. Pending(v)'
    BY <1>2, <1>4, <2>1 DEF Pending, SameStream, Holds, ReplyOf, SyncRequest, Has
  <2>3. Idle(handler)' /\ Quiet(client.rxBuffer)' /\ Quiet(toClient)'
    BY <1>2, <1>3, <1>5, <2>1 DEF Idle, Quiet, Has
  <2> QED
    BY <1>5, <2>1, <2>2, <2>3 DEF Challenged
<1>7. SessionInv'
  <2>1. Stage'
    BY <1>4, <1>6 DEF Stage, AnswerWords
  <2>2. Connected'
    BY <1>1, <1>2, <1>4 DEF Connected
  <2> QED
    BY <1>1, <1>2, <1>4, <1>5, <2>1, <2>2 DEF SessionInv, Bit
<1>8. client.state # "closed" /\ client'.state # "closed"
  BY <1>1, <1>5
<1> QED
  BY <1>2, <1>4, <1>7, <1>8, Unseen
\* The list is applied when its terminator is in the buffer, and once.
LEMMA ListApplies ==
    ASSUME SessionInv, NEW games \in Seq(WantedGames), NEW b \in Seq(Words), NEW d \in Seq(Words),
           SameStream(b, d, CompileSyncList(games), << >>), Has(b, "final"), ReadList(b)
    PROVE  Applied(local, local', games) /\ Marked(local', games) /\ applied' = 1
<1>1. serverlist \in Table /\ local \in Table
  BY DEF SessionInv
<1> DEFINE data == ParseGameSpy0Buffer(b)
<1>2. ListRead(data, games)
  BY <1>1, ListCut
<1>3. PICK order \in SetToSeqs(Games(data)) : local' = SyncAll(local, Rows(data, order))
  BY DEF ReadList
<1> HIDE DEF data
<1>4. Covers(Rows(data, order), games)
  BY <1>1, <1>2, RowsListed
<1>5. Applied(local, local', games)
  BY <1>1, <1>3, <1>4, ListApplied
<1>6. Marked(local', games)
  BY <1>1, <1>5, AppliedMarks
<1>7. applied' = 1
  BY DEF ReadList
<1> QED
  BY <1>5, <1>6, <1>7

LEMMA WrittenRead ==
    ASSUME SessionInv, NEW games, Written(games), NEW b, NEW rest, Read(b, rest)
    PROVE  SessionInv' /\ (Exchange!Apply \/ UNCHANGED Exchange!vars)
<1>1. /\ client \in Clients /\ client.state = "open" /\ b \in Seq(Words) /\ rest \in Seq(Words)
      /\ serverlist \in Table /\ local \in Table /\ handler \in Handlers /\ peer = "open"
      /\ toServer \in Seq(Words) /\ handler.out \in Seq(Words) /\ games \in Seq(WantedGames)
      /\ applied \in {0, 1}
  BY DEF SessionInv, Connected, Written, Read, Handlers, Bit
<1>2. /\ handler' = handler /\ serverlist' = serverlist /\ toClient' = rest /\ peer' = peer
      /\ network' = network
  BY DEF Read
<1>3. PICK d \in Seq(Words) : SameStream((b \o rest) \o handler.out, d, CompileSyncList(games), << >>)
  BY DEF Written, Read
<1> DEFINE e == (rest \o handler.out) \o d
<1>4. e \in Seq(Words) /\ rest \o handler.out \in Seq(Words) /\ b \o rest \in Seq(Words)
  BY <1>1, <1>3, ConcatProperties
<1>5. SameStream(b, e, CompileSyncList(games), << >>)
  <2>0. b \in Seq(Words) /\ rest \in Seq(Words) /\ handler.out \in Seq(Words) /\ rest \o handler.out \in Seq(Words)
    BY <1>1, <1>4
  <2>1. (b \o rest) \o handler.out = b \o (rest \o handler.out)
    BY <2>0, ConcatOfThree, ZenonT(30)
  <2>2. (b \o (rest \o handler.out)) \o d = b \o ((rest \o handler.out) \o d)
    BY <2>0, ConcatOfThree, ZenonT(30)
  <2> QED
    BY <1>3, <2>1, <2>2 DEF SameStream
<1> HIDE DEF e
<1>6. ~Has(b, "secure")
  <2>1. CompileSyncList(games) \in Seq(Words) /\ ~Has(CompileSyncList(games), "secure")
    BY <1>1, ListTyped, ListWords DEF SessionKeys
  <2>2. CompileSyncList(games) \o << >> = CompileSyncList(games)
    BY <2>1, ConcatEmptySeq
  <2>3. Has(b \o e, "secure") <=> Has(b, "secure") \/ Has(e, "secure")
    BY <1>1, <1>4, HasConcat
  <2> QED
    BY <1>5, <2>1, <2>2, <2>3 DEF SameStream
<1>7. /\ IF Has(b, "final") THEN ReadList(b) ELSE UNCHANGED <<local, applied>>
      /\ client' = [client EXCEPT !.rxBuffer = b, !.timer = "running"]
      /\ toServer' = toServer
  BY <1>6 DEF Read
<1>8. client' \in Clients /\ client'.state = "open" /\ client'.rxBuffer = b
  BY <1>1, <1>7 DEF Clients, Timer
<1>9. /\ local' \in Table /\ applied' \in {0, 1} /\ (applied' = 1 => Marked(local', games))
      /\ Exchange!Apply \/ UNCHANGED Exchange!vars
  <2>1. client.state # "closed" /\ client'.state # "closed" /\ handler'.served = handler.served
    BY <1>1, <1>2, <1>8
  <2>2. CASE ~Has(b, "final")
    <3>1. local' = local /\ applied' = applied
      BY <1>7, <2>2
    <3>2. applied = 1 => Marked(local, games)
      BY DEF Written
    <3>3. UNCHANGED Exchange!vars
      BY <1>2, <2>1, <3>1, Unseen
    <3> QED
      BY <1>1, <3>1, <3>2, <3>3
  <2>3. CASE Has(b, "final")
    <3>1. Applied(local, local', games) /\ Marked(local', games) /\ applied' = 1
      BY <1>1, <1>4, <1>5, <1>7, <2>3, ListApplies
    <3>2. local' \in Table
      BY <3>1 DEF Applied
    <3>3. CASE applied = 1
      <4>1. local' = local
        BY <1>1, <3>1, <3>3, MarkedStays DEF Written
      <4>2. UNCHANGED Exchange!vars
        BY <1>2, <3>1, <3>3, <4>1, UnseenOnceApplied
      <4> QED
        BY <3>1, <3>2, <4>2
    <3>4. CASE applied = 0
      <4>1. PICK type \in {"sync", "self"} : handler.served = <<Entered(type, games)>>
        BY DEF Written
      <4>2. Exchange!Apply
        BY <1>1, <1>2, <2>1, <3>1, <3>4, <4>1, SeenAsApplying
      <4> QED
        BY <3>1, <3>2, <4>2
    <3> QED
      BY <1>1, <3>3, <3>4
  <2> QED
    BY <2>2, <2>3
<1>10. Written(games)'
  <2>1. SameStream((client'.rxBuffer \o toClient') \o handler'.out, d, CompileSyncList(games), << >>)
    BY <1>2, <1>3, <1>8
  <2>2. /\ handler'.state \in {"closing", "closed"} /\ handler'.timer = "stopped"
        /\ handler'.state = "closed" => handler'.out = << >>
        /\ handler'.served = handler.served
    BY <1>2 DEF Written
  <2> QED
    BY <1>2, <1>8, <1>9, <2>1, <2>2, WrittenStays
<1>11. SessionInv'
  <2>1. Stage'
    BY <1>10 DEF Stage
  <2>2. Connected'
    BY <1>1, <1>2, <1>7 DEF Connected
  <2> QED
    BY <1>1, <1>2, <1>8, <1>9, <2>1, <2>2 DEF SessionInv, Bit
<1> QED
  BY <1>9, <1>11

LEMMA ClientReadStep ==
    ASSUME SessionInv, ClientReads
    PROVE  SessionInv' /\ (Exchange!Apply \/ UNCHANGED Exchange!vars)
<1>1. PICK b, rest : Read(b, rest)
  BY ClientReadsSome
<1>2. Stage /\ client.state = "open" /\ toClient # << >>
  BY <1>1 DEF SessionInv, Read
<1>3. ~Connecting
  BY <1>2 DEF Connecting
<1>4. CASE Greeted /\ applied = 0
  BY <1>1, <1>4, GreetedRead
<1>5. CASE applied = 0 /\ \E v \in AnswerWords : Challenged(v)
  BY <1>1, <1>5, ChallengedRead
<1>6. CASE \E games : Written(games)
  BY <1>1, <1>6, WrittenRead
<1> QED
  BY <1>2, <1>3, <1>4, <1>5, <1>6 DEF Stage
-----------------------------------------------------------------------------
(* A session that nothing cuts and no timer ends.                          *)

RightReply == ReplyOf(<<Cipher[SelfGame]>>)

GreetingUnread ==
    /\ client.state = "open" /\ client.rxBuffer = << >> /\ toClient = Greeting /\ toServer = << >>
    /\ handler.state = "open" /\ Idle(handler) /\ handler.rxBuffer = << >> /\ handler.hasValidated = 0

RequestUnread ==
    /\ client.state = "open" /\ client.rxBuffer = << >> /\ toClient = << >>
    /\ toServer = RightReply \o SyncRequest
    /\ handler.state = "open" /\ Idle(handler) /\ handler.rxBuffer = << >> /\ handler.hasValidated = 0

ListUnread(games) ==
    /\ client.state = "open" /\ client.rxBuffer = << >> /\ toServer = << >> /\ games \in Seq(WantedGames)
    /\ \/ handler.state = "closing" /\ handler.out = CompileSyncList(games) /\ toClient = << >>
       \/ handler.state = "closed" /\ handler.out = << >> /\ toClient = CompileSyncList(games)

WholeInv ==
    network = "whole" /\ expired = 0 /\ applied = 0 =>
        Connecting \/ GreetingUnread \/ RequestUnread \/ \E games : ListUnread(games)

LEMMA HoldsMiddle ==
    ASSUME NEW W, NEW r \in Seq(W), NEW p \in Seq(W), NEW q \in Seq(W)
    PROVE  Holds((r \o p) \o q, p)
<1> DEFINE b == (r \o p) \o q
           m == Len(r)
           s == SubSeq(b, m + 1, m + Len(p))
<1>1. /\ Len(r) \in Nat /\ Len(p) \in Nat /\ Len(q) \in Nat
      /\ r \o p \in Seq(W) /\ Len(r \o p) = Len(r) + Len(p)
      /\ \A i \in 1 .. Len(p) : (r \o p)[Len(r) + i] = p[i]
  BY LenProperties, ConcatProperties
<1>2. /\ b \in Seq(W) /\ Len(b) = (Len(r) + Len(p)) + Len(q)
      /\ \A i \in 1 .. Len(r) + Len(p) : b[i] = (r \o p)[i]
  BY <1>1, ConcatProperties
<1>3. \A i \in 1 .. Len(p) : b[m + i] = p[i]
  <2> HIDE DEF b
  <2> SUFFICES ASSUME NEW i \in 1 .. Len(p) PROVE b[m + i] = p[i]
    OBVIOUS
  <2>1. m + i \in 1 .. Len(r) + Len(p)
    BY <1>1
  <2> QED
    BY <1>1, <1>2, <2>1
<1> HIDE DEF b
<1>4. \A i \in m + 1 .. m + Len(p) : b[i] \in W
  <2>1. \A i \in 1 .. Len(b) : b[i] \in W
    BY <1>2, ElementOfSeq
  <2> QED
    BY <1>1, <1>2, <2>1
<1>5. m + 1 \in Int /\ m + Len(p) \in Int
  BY <1>1
<1>6. /\ s \in Seq(W) /\ Len(s) = IF m + 1 <= m + Len(p) THEN m + Len(p) - (m + 1) + 1 ELSE 0
      /\ \A i \in 1 .. m + Len(p) - (m + 1) + 1 : s[i] = b[m + 1 + i - 1]
  BY <1>4, <1>5, SubSeqProperties
<1> HIDE DEF s
<1>7. Len(s) = Len(p) /\ \A i \in 1 .. Len(p) : s[i] = b[m + i]
  BY <1>1, <1>6
<1>8. s = p
  BY <1>3, <1>6, <1>7, SeqEqual
<1>9. m \in 0 .. Len(b) - Len(p)
  BY <1>1, <1>2
<1> QED
  BY <1>8, <1>9 DEF Holds, b, s

LEMMA RequestWhole ==
    /\ RightReply \o SyncRequest \in Seq(Words) /\ RightReply \in Seq(Words)
    /\ RightReply \o SyncRequest # << >> /\ Holds(RightReply \o SyncRequest, Final)
    /\ Understood(ParseGameSpy0Buffer(RightReply \o SyncRequest), <<Cipher[SelfGame]>>, TRUE)
<1> DEFINE c == <<Cipher[SelfGame]>>
<1>1. c \in AnswerWords
  BY DEF AnswerWords
<1>2. /\ RightReply = Fore(c) \o Final /\ Fore(c) \in Seq(Words) /\ Final \in Seq(Words)
      /\ SyncRequest \in Seq(Words)
  BY <1>1, ReplyRead, RequestText DEF RightReply
<1>3. RightReply \in Seq(Words) /\ RightReply \o SyncRequest \in Seq(Words)
  BY <1>2, ConcatProperties
<1>4. Holds(RightReply \o SyncRequest, Final)
  BY <1>2, HoldsMiddle
<1>5. RightReply \o SyncRequest # << >>
  <2>1. \E i \in 1 .. Len(RightReply \o SyncRequest) : TRUE
    BY <1>3, <1>4, HoldsFinal
  <2> QED
    BY <2>1
<1>6. SameStream(SyncRequest, << >>, SyncRequest, << >>) /\ << >> \in Seq(Words)
  BY DEF SameStream
<1>7. Understood(ParseGameSpy0Buffer(ReplyOf(c) \o SyncRequest), c, << >> = << >>)
  BY <1>1, <1>2, <1>6, RequestUnderstood
<1> QED
  BY <1>3, <1>4, <1>5, <1>7 DEF RightReply

\* The steps of a session that is neither cut nor timed out.
LEMMA WholeConnect ==
    ASSUME SessionInv, OnSyncConnect
    PROVE  GreetingUnread'
<1>1. client \in Clients /\ client.state = "connecting"
  BY DEF SessionInv, OnSyncConnect
<1>2. Connecting
  BY <1>1 DEF SessionInv, Stage, Greeted, Challenged, Written
<1>3. client'.state = "open" /\ client'.rxBuffer = << >>
  BY <1>1, <1>2 DEF OnSyncConnect, Clients, Connecting
<1>4. handler' = NewHandler /\ toClient' = Greeting /\ toServer' = << >>
  BY <1>2 DEF OnSyncConnect, Connecting
<1> QED
  BY <1>3, <1>4 DEF GreetingUnread, NewHandler, Idle, Greeting

LEMMA WholeGreeting ==
    ASSUME SessionInv, GreetingUnread, NEW b, NEW rest, Read(b, rest),
           b = client.rxBuffer \o toClient, rest = << >>
    PROVE  RequestUnread'
<1>1. b = Greeting /\ Greeting \in Seq(Words) /\ << >> \in Seq(Words) /\ client \in Clients
  <2>1. << >> \o Greeting = Greeting
    BY GreetingText, ConcatEmptySeq
  <2> QED
    BY <2>1, GreetingText DEF GreetingUnread, SessionInv
<1>2. Has(b, "secure")
  <2>1. 5 \in 1 .. Len(Greeting) /\ Greeting[5] = "secure"
    BY GreetingText
  <2> QED
    BY <1>1, <2>1 DEF Has
<1>3. SameStream(b, << >>, Greeting, << >>)
  BY <1>1 DEF SameStream
<1>4. Reply(ParseGameSpy0Buffer(b)) = RightReply
  BY <1>1, <1>2, <1>3, GreetingAnswered DEF RightReply
<1>5. /\ toServer' = (<< >> \o RightReply) \o SyncRequest
      /\ client' = [client EXCEPT !.rxBuffer = << >>, !.timer = "running"]
      /\ handler' = handler /\ toClient' = << >>
  BY <1>2, <1>4 DEF Read, GreetingUnread
<1>6. << >> \o RightReply = RightReply
  BY RequestWhole, ConcatEmptySeq
<1>7. client'.state = "open" /\ client'.rxBuffer = << >>
  BY <1>1, <1>5 DEF Clients, GreetingUnread
<1>8. RightReply' = RightReply /\ SyncRequest' = SyncRequest
  BY DEF RightReply, ReplyOf, SyncRequest
<1> QED
  BY <1>5, <1>6, <1>7, <1>8 DEF RequestUnread, GreetingUnread, Idle

LEMMA WholeRequest ==
    ASSUME SessionInv, RequestUnread, network = "whole", ServerReads
    PROVE  \E games : ListUnread(games)'
<1>1. OnListenClientRead(Len(toServer))
  BY DEF ServerReads, Cuts
<1> DEFINE n == Len(toServer)
           f == SubSeq(toServer, 1, n)
           h == Received(handler, f)
<1>2. /\ n \in 1 .. Len(toServer) /\ toServer' = SubSeq(toServer, n + 1, Len(toServer))
      /\ handler' = IF Holds(f, Final) THEN Interaction(h, ParseGameSpy0Buffer(h.rxBuffer)) ELSE h
      /\ client' = client /\ toClient' = toClient
  BY <1>1 DEF OnListenClientRead, ServerReads
<1>3. handler \in Handlers /\ toServer \in Seq(Words) /\ serverlist \in Table
  BY DEF SessionInv, Connected, RequestUnread
<1>4. f = RightReply \o SyncRequest /\ toServer' = << >>
  <2>1. SubSeq(toServer, 1, n) = toServer /\ SubSeq(toServer, n + 1, Len(toServer)) = << >>
    <3>1. n \in 1 .. Len(toServer) /\ n = Len(toServer)
      BY <1>2
    <3> HIDE DEF n
    <3> QED
      BY <1>3, <3>1, Cut
  <2> QED
    BY <1>2, <2>1 DEF RequestUnread
<1> HIDE DEF n, f
<1>5. /\ h \in Handlers /\ Idle(h) /\ h.state = "open" /\ h.rxBuffer = BufferOf(handler) \o f
  <2>1. f \in Seq(Words) /\ Idle(handler) /\ handler.state = "open"
    BY <1>4, RequestWhole DEF RequestUnread
  <2> QED
    BY <1>3, <2>1, ReceivedTyped
<1>6. h.rxBuffer = RightReply \o SyncRequest
  <2>1. BufferOf(handler) = << >>
    BY DEF BufferOf, RequestUnread
  <2>2. << >> \o f = f
    BY <1>4, RequestWhole, ConcatEmptySeq
  <2> QED
    BY <1>4, <1>5, <2>1, <2>2
<1> HIDE DEF h
<1> DEFINE data == ParseGameSpy0Buffer(RightReply \o SyncRequest)
<1>7. Understood(data, <<Cipher[SelfGame]>>, TRUE) /\ handler' = Interaction(h, data)
  BY <1>2, <1>4, <1>6, RequestWhole
<1> HIDE DEF data
<1>8. PICK games \in Seq(WantedGames) : Listing(Interaction(h, data), games)
  BY <1>3, <1>5, <1>7, RightAnswer
<1>9. Listing(handler', games)
  BY <1>7, <1>8
<1>10. CompileSyncList(games)' = CompileSyncList(games)
  <2>1. serverlist' = serverlist
    BY <1>1 DEF OnListenClientRead
  <2> QED
    BY <2>1 DEF CompileSyncList, Addresses
<1>11. ListUnread(games)'
  BY <1>2, <1>4, <1>9, <1>10 DEF ListUnread, Listing, RequestUnread
<1> QED
  BY <1>11

LEMMA WholeFlush ==
    ASSUME SessionInv, NEW games, ListUnread(games), network = "whole", ServerFlush
    PROVE  ListUnread(games)'
<1>1. PICK n \in Cuts(handler.out) : /\ Flush(n)
           /\ toClient' = IF peer = "open" THEN toClient \o SubSeq(handler.out, 1, n) ELSE toClient
  BY DEF ServerFlush
<1>2. n = Len(handler.out) /\ n \in 1 .. Len(handler.out) /\ handler.state # "closed"
  BY <1>1 DEF Cuts, Flush
<1>3. /\ handler \in Handlers /\ peer = "open" /\ serverlist \in Table /\ games \in Seq(WantedGames)
      /\ handler.out \in Seq(Words)
  BY DEF SessionInv, Connected, ListUnread, Handlers
<1>4. handler.state = "closing" /\ handler.out = CompileSyncList(games) /\ toClient = << >>
  BY <1>2 DEF ListUnread
<1>5. SubSeq(handler.out, 1, n) = handler.out /\ SubSeq(handler.out, n + 1, Len(handler.out)) = << >>
  BY <1>2, <1>3, Cut
<1>6. << >> \o handler.out = handler.out
  BY <1>3, ConcatEmptySeq
<1>7. toClient' = CompileSyncList(games)
  BY <1>1, <1>3, <1>4, <1>5, <1>6
<1>8. handler'.state = "closed" /\ handler'.out = << >>
  BY <1>1, <1>2, <1>3, <1>4, <1>5 DEF Flush, Handlers
<1>9. client' = client /\ toServer' = toServer /\ serverlist' = serverlist
  BY <1>1 DEF ServerFlush, Flush
<1>10. CompileSyncList(games)' = CompileSyncList(games)
  BY <1>9 DEF CompileSyncList, Addresses
<1> QED
  BY <1>7, <1>8, <1>9, <1>10 DEF ListUnread

LEMMA WholeList ==
    ASSUME SessionInv, NEW games, ListUnread(games), NEW b, NEW rest, Read(b, rest),
           b = client.rxBuffer \o toClient
    PROVE  applied' = 1
<1>1. serverlist \in Table /\ games \in Seq(WantedGames) /\ toClient # << >>
  BY DEF SessionInv, ListUnread, Read
<1>2. /\ CompileSyncList(games) = Body(games) \o Final /\ Body(games) \in Seq(Words) /\ Final \in Seq(Words)
      /\ CompileSyncList(games) \in Seq(Words)
  BY <1>1, ListTyped
<1>3. b = CompileSyncList(games)
  <2>1. << >> \o CompileSyncList(games) = CompileSyncList(games)
    BY <1>2, ConcatEmptySeq
  <2> QED
    BY <1>1, <2>1 DEF ListUnread
<1>4. Has(b, "final")
  <2>1. Has(Final, "final")
    <3>1. 2 \in 1 .. Len(Final) /\ Final[2] = "final"
      BY DEF Final
    <3> QED
      BY <3>1 DEF Has
  <2>2. Has(Body(games) \o Final, "final") <=> Has(Body(games), "final") \/ Has(Final, "final")
    BY <1>2, HasConcat
  <2> QED
    BY <1>2, <1>3, <2>1, <2>2
<1>5. ~Has(b, "secure")
  BY <1>1, <1>3, ListWords DEF SessionKeys
<1> QED
  BY <1>4, <1>5 DEF Read, ReadList
-----------------------------------------------------------------------------
(* The theorems.                                                           *)

LEMMA SessionInit == Init => SessionInv /\ Exchange!Init
<1> SUFFICES ASSUME Init PROVE SessionInv /\ Exchange!Init
  OBVIOUS
<1>1. serverlist \in Table /\ local \in Table
  BY SessionAssumption DEF Init
<1>2. << >> \in Seq(Words)
  OBVIOUS
<1>3. client \in Clients /\ client.state = "connecting" /\ client.rxBuffer = << >>
  BY <1>2 DEF Init, Clients, Timer
<1>4. handler \in Handlers /\ Idle(handler)
  BY NewHandlerIdle DEF Init, Handlers, Idle, SocketState, Timer
<1>5. Connecting /\ Connected /\ applied = 0
  BY <1>2, <1>3, <1>4 DEF Init, Connecting, Connected
<1>6. SessionInv
  BY <1>1, <1>3, <1>5 DEF SessionInv, Stage, Bit
<1>7. SyncsServed = {}
  BY <1>4 DEF SyncsServed, Idle
<1>8. Phase = "asked"
  BY <1>3, <1>5, <1>7 DEF Phase
<1>9. serverlist \in Exchange!Table /\ local \in Exchange!Table
  BY <1>1 DEF Table, Row, Address, Bit, Exchange!Table, Exchange!Row, Exchange!Address, Exchange!Bit
<1> QED
  BY <1>6, <1>8, <1>9 DEF Exchange!Init

LEMMA SessionStep ==
    ASSUME SessionInv, [Next]_vars
    PROVE  SessionInv' /\ [Exchange!Next]_(Exchange!vars)
<1>1. CASE UNCHANGED vars
  <2>1. /\ handler' = handler /\ toServer' = toServer /\ peer' = peer /\ serverlist' = serverlist
        /\ client' = client /\ toClient' = toClient /\ local' = local /\ network' = network
        /\ applied' = applied
    BY <1>1 DEF vars, connection
  <2>2. Connecting' = Connecting /\ Greeted' = Greeted /\ \A v : Challenged(v)' = Challenged(v)
    BY <2>1 DEF Connecting, Greeted, Challenged, Pending, Quiet, Has, Idle, SameStream, Holds, ReplyOf, SyncRequest
  <2>3. \A games : Written(games) => Written(games)'
    <3> SUFFICES ASSUME NEW games, Written(games) PROVE Written(games)'
      OBVIOUS
    <3>1. PICK d \in Seq(Words) :
           SameStream((client.rxBuffer \o toClient) \o handler.out, d, CompileSyncList(games), << >>)
      BY DEF Written
    <3>2. SameStream((client'.rxBuffer \o toClient') \o handler'.out, d, CompileSyncList(games), << >>)
      BY <2>1, <3>1
    <3>3. applied' = 1 => Marked(local', games)
      BY <2>1 DEF Written
    <3>4. /\ client'.state = "open" /\ handler'.state \in {"closing", "closed"} /\ handler'.timer = "stopped"
          /\ handler'.state = "closed" => handler'.out = << >>
      BY <2>1 DEF Written
    <3> QED
      BY <2>1, <3>2, <3>3, <3>4, WrittenStays
  <2>4. Stage => Stage'
    BY <2>1, <2>2, <2>3 DEF Stage, AnswerWords
  <2>5. SessionInv'
    BY <2>1, <2>4 DEF SessionInv, Connected
  <2>6. UNCHANGED Exchange!vars
    BY <2>1, Unseen
  <2> QED
    BY <2>5, <2>6
<1>2. CASE Next /\ client.state = "closed"
  BY <1>2, ClosedStep
<1>3. CASE Next /\ client.state # "closed"
  <2>1. CASE OnSyncConnect
    BY <2>1, ConnectStep
  <2>2. CASE ClientReads
    BY <2>2, ClientReadStep DEF Exchange!Next
  <2>3. CASE OnSyncTimeOut
    BY <1>3, <2>3, CloseStep DEF OnSyncTimeOut, Exchange!Next
  <2>4. CASE OnSyncDisconnect
    BY <1>3, <2>4, CloseStep DEF OnSyncDisconnect, Exchange!Next
  <2>5. CASE ServerReads
    BY <1>3, <2>5, ServerReadStep DEF Exchange!Next
  <2>6. CASE ServerTimeOut
    BY <1>3, <2>6, TimeOutStep
  <2>7. CASE ServerDisconnected
    BY <1>3, <2>7 DEF ServerDisconnected, OnListenClientDisconnect, SessionInv, Connected
  <2>8. CASE ServerFlush
    BY <1>3, <2>8, FlushStep
  <2>9. CASE Reset
    BY <1>3, <2>9, ResetStep
  <2>10. CASE Over
    BY <1>3, <2>10 DEF Over
  <2> QED
    BY <1>3, <2>1, <2>2, <2>3, <2>4, <2>5, <2>6, <2>7, <2>8, <2>9, <2>10 DEF Next
<1> QED
  BY <1>1, <1>2, <1>3

\* Wherever both streams are cut, whichever timer expires and whatever is lost when a
\* connection is reset, a synchronisation is the abstract exchange: a list the remote
\* composed of servers it heard from itself is applied whole and once, or the table of the
\* local masterserver is left alone.
THEOREM SessionIsAtomic == Spec => ExchangeIsAtomic
<1>1. Init => SessionInv /\ Exchange!Init
  BY SessionInit
<1>2. SessionInv /\ [Next]_vars => SessionInv' /\ [Exchange!Next]_(Exchange!vars)
  BY SessionStep
<1> QED
  BY <1>1, <1>2, PTL DEF Spec, ExchangeIsAtomic, Exchange!Spec

LEMMA WholeStep ==
    ASSUME SessionInv, WholeInv, [Next]_vars
    PROVE  WholeInv'
<1> SUFFICES ASSUME network' = "whole", expired' = 0, applied' = 0
             PROVE  (Connecting \/ GreetingUnread \/ RequestUnread \/ \E games : ListUnread(games))'
  BY DEF WholeInv
<1>1. network = "whole" /\ expired = 0 /\ applied = 0
  <2>1. CASE UNCHANGED vars
    BY <2>1 DEF vars
  <2>2. CASE Next
    <3>1. network' = network /\ (expired' = expired \/ expired' = 1)
      BY <2>2 DEF Next, OnSyncConnect, ClientReads, OnSyncRead, OnSyncTimeOut, CloseClient, OnSyncDisconnect,
                  ServerReads, ServerTimeOut, ServerDisconnected, ServerFlush, Reset, Over, vars
    <3>2. applied' = applied \/ applied' = 1
      BY <2>2 DEF Next, OnSyncConnect, ClientReads, OnSyncRead, ReadFinal, OnSyncTimeOut, CloseClient,
                  OnSyncDisconnect, ServerReads, ServerTimeOut, ServerDisconnected, ServerFlush, Reset, Over, vars
    <3> QED
      BY <3>1, <3>2
  <2> QED
    BY <2>1, <2>2
<1>2. Connecting \/ GreetingUnread \/ RequestUnread \/ \E games : ListUnread(games)
  BY <1>1 DEF WholeInv
<1>3. client.state # "closed" /\ (client.state = "connecting" => Connecting)
  BY <1>2 DEF Connecting, GreetingUnread, RequestUnread, ListUnread
<1>4. peer = "open" /\ handler \in Handlers /\ serverlist \in Table
  BY <1>3 DEF SessionInv, Connected
<1>5. handler.state = "closed" => Connecting \/ \E games : ListUnread(games) /\ toClient = CompileSyncList(games)
  BY <1>2 DEF GreetingUnread, RequestUnread, ListUnread
<1>6. \A games : ListUnread(games) => CompileSyncList(games) # << >> /\ toServer = << >>
  BY <1>4, ListTyped, SMTT(30) DEF ListUnread
<1>7. CASE UNCHANGED vars
  BY <1>2, <1>7 DEF vars, connection, Connecting, GreetingUnread, RequestUnread, ListUnread, Idle, Greeting,
       RightReply, ReplyOf, SyncRequest, CompileSyncList, Addresses
<1>8. CASE OnSyncConnect
  BY <1>8, WholeConnect
<1>9. CASE ClientReads
  <2>1. PICK b, rest : Read(b, rest) /\ b = client.rxBuffer \o toClient /\ rest = << >>
    BY <1>1, <1>9, ClientReadsSome
  <2>2. toClient # << >>
    BY <2>1 DEF Read
  <2>3. CASE GreetingUnread
    BY <2>1, <2>3, WholeGreeting
  <2>4. CASE \E games : ListUnread(games)
    <3>1. applied' = 1
      BY <2>1, <2>4, WholeList
    <3> QED
      BY <3>1
  <2> QED
    BY <1>2, <2>2, <2>3, <2>4 DEF Connecting, RequestUnread
<1>10. CASE OnSyncTimeOut
  BY <1>10 DEF OnSyncTimeOut
<1>11. ~OnSyncDisconnect
  <2>1. CASE Connecting
    BY <2>1 DEF OnSyncDisconnect, Connecting
  <2>2. CASE ~Connecting
    BY <1>5, <1>6, <2>2 DEF OnSyncDisconnect
  <2> QED
    BY <2>1, <2>2
<1>12. CASE ServerReads
  <2>1. handler.state = "open" /\ toServer # << >>
    BY <1>12 DEF ServerReads, OnListenClientRead, Cuts
  <2>2. RequestUnread
    BY <1>2, <1>6, <2>1 DEF Connecting, GreetingUnread
  <2> QED
    BY <1>1, <1>12, <2>2, WholeRequest
<1>13. CASE ServerTimeOut
  BY <1>13 DEF ServerTimeOut
<1>14. ~ServerDisconnected
  BY <1>4 DEF ServerDisconnected, OnListenClientDisconnect
<1>15. CASE ServerFlush
  <2>1. handler.out # << >>
    BY <1>15 DEF ServerFlush, Flush
  <2>2. PICK games : ListUnread(games)
    BY <1>2, <2>1 DEF Connecting, GreetingUnread, RequestUnread, Idle
  <2> QED
    BY <1>1, <1>15, <2>2, WholeFlush
<1>16. ~Reset
  BY <1>5, <1>6 DEF Reset, Connecting
<1>17. ~Over
  BY <1>3 DEF Over
<1> QED
  BY <1>7, <1>8, <1>9, <1>10, <1>11, <1>12, <1>13, <1>14, <1>15, <1>16, <1>17 DEF Next

\* When the network cuts neither stream and no timer expires, the list is applied: the
\* answer's terminator is behind it in the one fragment that the remote reads, with the
\* request that has none of its own, and the list is read whole before the end of the
\* connection is seen.
THEOREM WholeExchangeHolds == Spec => []WholeExchangeSucceeds
<1>1. Init => SessionInv /\ WholeInv
  BY SessionInit DEF WholeInv, Init, Connecting, NewHandler, Idle, SessionInv
<1>2. SessionInv /\ WholeInv /\ [Next]_vars => (SessionInv /\ WholeInv)'
  BY SessionStep, WholeStep
<1>3. SessionInv /\ WholeInv => WholeExchangeSucceeds
  BY DEF SessionInv, WholeInv, WholeExchangeSucceeds, Bit, Connecting, GreetingUnread, RequestUnread, ListUnread
<1> QED
  BY <1>1, <1>2, <1>3, PTL DEF Spec

-----------------------------------------------------------------------------
(* What a synchronisation brings.                                          *)

\* The games whose servers a remote has heard from are games it supports.
RemoteSupports == \A t \in RemoteTables : \A id \in DOMAIN t :
    t[id].gamename \in WantedGames /\ t[id].dt_updated > Now - Ttl => t[id].gamename \in SupportedGames

CompleteInv == serverlist \in RemoteTables

\* A list of all games has the servers that were heard from.
LEMMA CompleteLists ==
    ASSUME RemoteSupports, serverlist \in RemoteTables, NEW games, Complete(games),
           NEW id \in HeardOf
    PROVE  \E p \in PairsOf(games) : p[2] = serverlist[id].addr
<1> DEFINE g == serverlist[id].gamename
<1>1. g \in WantedGames /\ g \in SupportedGames /\ g \in ActiveGames(serverlist, Ttl, Now)
  <2>1. id \in DOMAIN serverlist /\ g \in WantedGames /\ serverlist[id].dt_updated > Now - Ttl
    BY DEF HeardOf
  <2>2. g \in SupportedGames
    BY <2>1 DEF RemoteSupports
  <2>3. g \in ActiveGames(serverlist, Ttl, Now)
    BY <2>1 DEF ActiveGames
  <2> QED
    BY <2>1, <2>2, <2>3
<1>2. PICK k \in 1 .. Len(games) : games[k] = g
  BY <1>1 DEF Complete
<1>3. id \in Heard(games[k])
  BY <1>2 DEF Heard, SelectServerList, HeardOf
<1>4. <<games[k], serverlist[id].addr>> \in PairsOf(games)
  BY <1>3 DEF PairsOf
<1> QED
  BY <1>4

\* What a new row of a list says.
LEMMA NewRowSays ==
    ASSUME NEW pair
    PROVE  /\ Exchange!NewRow(pair).addr = pair[2] /\ Exchange!NewRow(pair).gamename = pair[1]
           /\ Exchange!NewRow(pair).dt_sync = Now
BY DEF Exchange!NewRow, Exchange!InsertServer

\* The pairs of a list name rows that were heard from.
LEMMA PairsHeard ==
    ASSUME NEW games \in Seq(WantedGames), NEW pair \in PairsOf(games)
    PROVE  \E id \in HeardOf : serverlist[id].addr = pair[2] /\ serverlist[id].gamename = pair[1]
<1>1. PICK k \in DOMAIN games : \E id \in Heard(games[k]) : pair = <<games[k], serverlist[id].addr>>
  BY DEF PairsOf
<1>2. PICK id \in Heard(games[k]) : pair = <<games[k], serverlist[id].addr>>
  BY <1>1
<1>3. games[k] \in WantedGames
  OBVIOUS
<1>4. id \in HeardOf /\ serverlist[id].gamename = games[k]
  BY <1>2, <1>3 DEF Heard, SelectServerList, HeardOf
<1> QED
  BY <1>2, <1>4

\* The remote's table is one of those the session started from.
LEMMA RemoteStays == ASSUME SessionInv, [Next]_vars PROVE serverlist' = serverlist
<1>1. [Exchange!Next]_(Exchange!vars)
  BY SessionStep
<1> QED
  BY <1>1 DEF Exchange!Next, Exchange!Compose, Exchange!Apply, Exchange!Fail, Exchange!vars

\* The one step that applies a list brings every server of it.
LEMMA CompleteStep ==
    ASSUME RemoteSupports, Msid # Identity, SessionInv, CompleteInv, [Next]_vars,
           network = "whole", applied' # applied, NEW id \in HeardOf
    PROVE  Brings(serverlist[id].addr)
<1> DEFINE a == serverlist[id].addr
<1>1. [Exchange!Next]_(Exchange!vars)
  BY SessionStep
<1>2. applied = 0 /\ applied' = 1
  <2>1. applied \in {0, 1} /\ applied' \in {0, 1}
    BY SessionStep DEF SessionInv, Bit
  <2>2. CASE applied = 1
    <3>1. Phase' = "applied"
      BY <1>1, <2>2 DEF Phase, Exchange!Next, Exchange!Compose, Exchange!Apply, Exchange!Fail, Exchange!vars
    <3> QED
      BY <2>2, <3>1, <2>1 DEF Phase
  <2> QED
    BY <2>1, <2>2
<1>3. Phase' = "applied" /\ Phase # "applied"
  BY <1>2 DEF Phase
<1>4. Exchange!Apply
  BY <1>1, <1>3 DEF Exchange!Next, Exchange!Compose, Exchange!Fail, Exchange!vars
<1>5. Phase = "listed" /\ client.state # "closed" /\ SyncsServed # {}
  BY <1>2, <1>4 DEF Exchange!Apply, Phase
<1>6. PICK games : Written(games)
  <2>1. handler.served # << >>
    BY <1>5, ServedNothing DEF SyncsServed
  <2> QED
    BY <1>5, <2>1 DEF SessionInv, Stage, Connecting, Greeted, Challenged, Idle
<1>7. Composed = PairsOf(games) /\ games \in Seq(WantedGames)
  <2>1. PICK type \in {"sync", "self"} : handler.served = <<Entered(type, games)>>
    BY <1>6 DEF Written
  <2>2. Composed = PairsServed(handler.served) /\ games \in Seq(WantedGames)
    BY <1>6 DEF Composed, PairsServed, SyncsServed, Written
  <2> QED
    BY <2>1, <2>2, ServedGames
<1>8. Complete(games) /\ serverlist \in RemoteTables
  BY <1>6 DEF Written, CompleteInv
<1>9. PICK p \in PairsOf(games) : p[2] = a
  BY <1>8, CompleteLists
<1>10. a \in Exchange!Listed
  BY <1>5, <1>7, <1>9 DEF Exchange!Listed
<1>11. ExistServer(local', a)
  <2>1. Exchange!ExistServer(local', a)
    BY <1>4, <1>10 DEF Exchange!Apply
  <2> QED
    BY <2>1 DEF ExistServer, RowsOf, Exchange!ExistServer, Exchange!RowsOf
<1>12. ASSUME NEW r \in RowsOf(local', a), r \in DOMAIN local
       PROVE  local'[r].dt_sync = Now /\ local'[r].gamename = local[r].gamename
  <2>1. local[r] \in Row
    BY <1>12 DEF SessionInv, Table
  <2>2. local'[r].addr = a
    BY DEF RowsOf
  <2>3. local'[r] = IF local[r].addr \in Exchange!Listed THEN [local[r] EXCEPT !.dt_sync = Now] ELSE local[r]
    BY <1>4, <1>12 DEF Exchange!Apply
  <2>4. local[r].addr = a
    BY <2>1, <2>2, <2>3 DEF Row
  <2> QED
    BY <1>10, <2>1, <2>3, <2>4 DEF Row
<1>13. ASSUME NEW r \in RowsOf(local', a), r \notin DOMAIN local
       PROVE  /\ local'[r].dt_sync = Now
              /\ \E heard \in HeardOf :
                     serverlist[heard].addr = a /\ local'[r].gamename = serverlist[heard].gamename
  <2>1. PICK pair \in PairsOf(games) : local'[r] = Exchange!NewRow(pair)
    BY <1>4, <1>5, <1>7, <1>13 DEF Exchange!Apply, RowsOf
  <2>2. local'[r].addr = a
    BY DEF RowsOf
  <2> QED
    BY <1>7, <2>1, <2>2, NewRowSays, PairsHeard
<1> QED
  BY <1>11, <1>12, <1>13 DEF Brings

\* A synchronisation that nothing cut brings the servers of the requested games that
\* another masterserver heard from itself, when it supports the games they are of: new
\* ones under its games, known ones under the games they had.
THEOREM SyncCompleteHolds ==
    ASSUME RemoteSupports, Msid # Identity
    PROVE  Spec => SyncComplete
<1>1. Init => SessionInv /\ CompleteInv
  BY SessionInit DEF CompleteInv, Init
<1>2. SessionInv /\ CompleteInv /\ [Next]_vars => (SessionInv /\ CompleteInv)'
  BY SessionStep, RemoteStays DEF CompleteInv
<1>3. SessionInv /\ CompleteInv /\ [Next]_vars =>
          [network = "whole" /\ applied' # applied => \A id \in HeardOf : Brings(serverlist[id].addr)]_vars
  BY CompleteStep
<1> QED
  BY <1>1, <1>2, <1>3, PTL DEF Spec, SyncComplete
=============================================================================
