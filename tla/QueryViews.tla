----------------------------- MODULE QueryViews -----------------------------
(***************************************************************************)
(* The query views both guards hand to the engine: the split of a raw      *)
(* query into pairs and the two decoders of a component, the HTTP one      *)
(* (decode_query_component) and the WebSocket one (decode_component).  The *)
(* two were written apart and have to see the same values, or an attack    *)
(* one guard refuses passes the other.                                     *)
(*                                                                         *)
(* Text is a sequence of bytes.  The lossy conversion to UTF-8 at the end  *)
(* of both decoders is the same and left out.                              *)
(***************************************************************************)
EXTENDS Naturals, Sequences, FiniteSetsExt, SequencesExt

CONSTANTS
    Alphabet,   \* the bytes a query is made of
    MaxLength   \* bound: bytes of a query

ASSUME QueryAssumption == Alphabet \subseteq 0..255 /\ MaxLength \in Nat

VARIABLE query   \* the raw query, which grows byte by byte

Space == 32
Percent == 37
And == 38
Plus == 43
Equals == 61

IsHex(b) == b \in 48..57 \cup 65..70 \cup 97..102
Digit(b) == IF b <= 57 THEN b - 48 ELSE IF b <= 70 THEN b - 55 ELSE b - 87

\* What a decoder makes of the bytes at a position: the byte it pushes and the
\* bytes it steps over.
Literal(b) == [byte |-> b, width |-> 1]
Escape(b) == [byte |-> b, width |-> 3]

\* The loop of both decoders, over the token each position would yield.
DecodeTokens(tokens) ==
    LET from[i \in 1..(Len(tokens) + 1)] ==
            IF i > Len(tokens) THEN <<>>
            ELSE <<tokens[i].byte>> \o from[i + tokens[i].width]
    IN from[1]

\* A percent sign with two bytes behind it.
PercentAt(bytes, i) == bytes[i] = Percent /\ {i + 1, i + 2} \subseteq DOMAIN bytes

\* u8::from_str_radix(_, 16) on two bytes: it takes a sign before the digits.
Parses(a, b) == IsHex(b) /\ (IsHex(a) \/ a = Plus)
Parsed(a, b) == (IF a = Plus THEN 0 ELSE 16 * Digit(a)) + Digit(b)

PlusDecoded(bytes) == [i \in DOMAIN bytes |-> IF bytes[i] = Plus THEN Space ELSE bytes[i]]

\* A malformed escape stays literal.
HttpTokens(bytes) ==
    [i \in DOMAIN bytes |->
        IF PercentAt(bytes, i) /\ Parses(bytes[i + 1], bytes[i + 2])
        THEN Escape(Parsed(bytes[i + 1], bytes[i + 2]))
        ELSE Literal(bytes[i])]

\* Mutant: the pluses are replaced while the escapes are decoded.
HttpDecodeInOnePass(component) ==
    DecodeTokens([i \in DOMAIN component |->
        IF component[i] = Plus THEN Literal(Space) ELSE HttpTokens(component)[i]])

\* Mutant: the pluses are replaced after the escapes are decoded.
HttpDecodePlusLast(component) == PlusDecoded(DecodeTokens(HttpTokens(component)))

\* decode_query_component: the pluses first, then the escapes.
HttpDecode(component) == DecodeTokens(HttpTokens(PlusDecoded(component)))

\* One pass, each nibble on its own.
WsTokens(component) ==
    [i \in DOMAIN component |->
        IF component[i] = Plus THEN Literal(Space)
        ELSE IF /\ PercentAt(component, i)
                /\ IsHex(component[i + 1])
                /\ IsHex(component[i + 2])
        THEN Escape(16 * Digit(component[i + 1]) + Digit(component[i + 2]))
        ELSE Literal(component[i])]

\* decode_component.
WsDecode(component) == DecodeTokens(WsTokens(component))

\* split('&'), the empty pieces dropped: where a piece begins, and its bytes up
\* to the next separator.
Starts(raw) == {i \in DOMAIN raw : raw[i] # And /\ (i = 1 \/ raw[i - 1] = And)}
PieceAt(raw, i) ==
    LET ends == {j \in i..Len(raw) : raw[j] = And} \cup {Len(raw) + 1}
    IN SubSeq(raw, i, Min(ends) - 1)

Chunks(raw) ==
    LET starts == CHOOSE s \in SetToSeqs(Starts(raw)) :
                     \A i, j \in DOMAIN s : i < j => s[i] < s[j]
    IN [k \in DOMAIN starts |-> PieceAt(raw, starts[k])]

\* split_once('='): name and value, no value without the separator.
SplitOnce(pair) ==
    LET at == SelectInSeq(pair, LAMBDA b : b = Equals)
    IN IF at = 0 THEN <<pair, <<>> >>
       ELSE <<SubSeq(pair, 1, at - 1), SubSeq(pair, at + 1, Len(pair))>>

\* The pairs of a query whose components D decodes.
Pairs(raw, D(_)) ==
    [i \in DOMAIN Chunks(raw) |->
        LET pair == SplitOnce(Chunks(raw)[i]) IN <<D(pair[1]), D(pair[2])>>]

HttpPairs(raw) == Pairs(raw, HttpDecode)
WsPairs(raw) == IF raw = <<>> THEN <<>> ELSE Pairs(raw, WsDecode)

Init == query = <<>>
Next == Len(query) < MaxLength /\ \E b \in Alphabet : query' = Append(query, b)
Spec == Init /\ [][Next]_query

----------------------------------------------------------------------------
(* Properties.                                                             *)

\* Both guards hand the engine the same pairs for the same query.
DecodersAgree == HttpPairs(query) = WsPairs(query)

\* The form encoding of a component, as a client writes it.
HexDigit(n) == IF n < 10 THEN 48 + n ELSE 55 + n
EncodedByte(b) ==
    IF b = Space THEN <<Plus>>
    ELSE IF b \in 48..57 \cup 65..90 \cup 97..122 THEN <<b>>
    ELSE <<Percent, HexDigit(b \div 16), HexDigit(b % 16)>>
Encoded(text) == FlattenSeq([i \in DOMAIN text |-> EncodedByte(text[i])])
EncodedPairs(pairs) ==
    FlattenSeq([i \in DOMAIN pairs |->
        (IF i = 1 THEN <<>> ELSE <<And>>)
            \o Encoded(pairs[i][1]) \o <<Equals>> \o Encoded(pairs[i][2])])

\* Whatever names and values a client encodes, the scan sees them: no
\* separator, plus or percent sign of theirs is taken for syntax, and no pair
\* runs into the next.  The query's bytes stand for the two texts.
FormRoundTrip ==
    \A k \in 0..Len(query) :
        LET name == SubSeq(query, 1, k)
            value == SubSeq(query, k + 1, Len(query))
            pairs == << <<name, value>>, <<value, name>> >>
        IN HttpPairs(EncodedPairs(pairs)) = pairs

=============================================================================
