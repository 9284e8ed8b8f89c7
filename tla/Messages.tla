------------------------------ MODULE Messages ------------------------------
(***************************************************************************)
(* The \key\value\ text that all parts of the masterserver exchange.  A    *)
(* buffer is a sequence of symbols: the backslash and words, a word being  *)
(* whatever the models never cut in two.  A field between two backslashes  *)
(* is a sequence of words, the empty one included.  Parsing gives the      *)
(* entries in the order they are inserted into the QMultiHash.             *)
(***************************************************************************)
EXTENDS Naturals, Sequences, SequencesExt

CONSTANTS LowerCase,         \* word with capitals -> the word in lower case
          ValidKeys,         \* key -> the key it is replaced by
          ValidGamenames,    \* gamename -> the name it is replaced by
          Index              \* words that are the index of a key, like "_0"

ASSUME OverrideAssumption ==
    /\ \A k \in DOMAIN ValidKeys : ValidKeys[k] \in DOMAIN ValidKeys
                                       => ValidKeys[ValidKeys[k]] = ValidKeys[k]
    /\ \A g \in DOMAIN ValidGamenames : ValidGamenames[g] \notin DOMAIN ValidGamenames

Backslash == "\\"

\* The elements at the positions ids of a sequence, in their order.
Pick(seq, ids) ==
    LET Take(found, i) == IF i \in ids THEN Append(found, seq[i]) ELSE found
    IN  FoldLeftDomain(Take, << >>, seq)

ToLower(field) == [i \in DOMAIN field |->
    IF field[i] \in DOMAIN LowerCase THEN LowerCase[field[i]] ELSE field[i]]

\* A key of one word, or of one word and an index, that is listed is replaced.
OverrideKey(raw) ==
    LET key == ToLower(raw)
        indexed == Len(key) = 2 /\ key[2] \in Index
    IN  IF (Len(key) = 1 \/ indexed) /\ key[1] \in DOMAIN ValidKeys
        THEN <<ValidKeys[key[1]]>> \o Tail(key) ELSE key

OverrideGamename(raw) ==
    LET name == ToLower(raw)
    IN  IF Len(name) = 1 /\ name[1] \in DOMAIN ValidGamenames
        THEN <<ValidGamenames[name[1]]>> ELSE name

\* A backslash ends the last field and begins the next.
SplitSymbol(fields, s) ==
    IF s = Backslash THEN Append(fields, << >>)
    ELSE [fields EXCEPT ![Len(fields)] = Append(@, s)]

\* bufferString.split('\\', KeepEmptyParts)
Split(buffer) == FoldLeft(SplitSymbol, << << >> >>, buffer)

\* One turn of the loop over the fields: a key that is not empty waits for its
\* value, and is dropped when none follows.
StoreField(state, field) ==
    IF state.key = << >> THEN [state EXCEPT !.key = OverrideKey(field)]
    ELSE [key |-> << >>,
          entries |-> Append(state.entries, [key |-> state.key, value |-> field])]

NormalGamename(entry) ==
    IF entry.key = <<"gamename">> THEN [entry EXCEPT !.value = OverrideGamename(@)] ELSE entry

\* parseGameSpy0Buffer: the part before the first backslash is skipped.
ParseGameSpy0Buffer(buffer) ==
    LET parsed == FoldLeft(StoreField, [key |-> << >>, entries |-> << >>], Tail(Split(buffer)))
    IN  [i \in DOMAIN parsed.entries |-> NormalGamename(parsed.entries[i])]

\* QMultiHash::values: the values of a key, the most recently inserted first.
Values(data, key) ==
    LET found == Reverse(Pick(data, {i \in DOMAIN data : data[i].key = <<key>>}))
    IN  [i \in DOMAIN found |-> found[i].value]

HasKey(data, key) == Values(data, key) # << >>

\* QMultiHash::value: the most recently inserted one.
Value(data, key, default) ==
    IF HasKey(data, key) THEN Head(Values(data, key)) ELSE default

\* QByteArray::contains, for a piece of the buffer.
Holds(buffer, piece) ==
    \E i \in 0 .. Len(buffer) - Len(piece) : SubSeq(buffer, i + 1, i + Len(piece)) = piece

Final == <<Backslash, "final", Backslash>>

\* "\\key\\value" for each pair of a key and its value, a sequence of words.
Text(pairs) == FlattenSeq([i \in DOMAIN pairs |->
    <<Backslash, pairs[i][1], Backslash>> \o pairs[i][2]])
=============================================================================
