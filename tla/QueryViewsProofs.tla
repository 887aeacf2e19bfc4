-------------------------- MODULE QueryViewsProofs --------------------------
(***************************************************************************)
(* The two decoders of a query component are one function, so both guards  *)
(* show the engine the same pairs of every query; and what a client        *)
(* encodes as a form is what the engine is shown, however long the texts   *)
(* are and whatever bytes they hold.                                       *)
(*                                                                         *)
(* For the first no induction over the bytes is needed: both decoders run  *)
(* the same loop over the tokens of the component, and the tokens agree    *)
(* position by position.  The sign that from_str_radix accepts makes no    *)
(* difference, because no plus is left by then.                            *)
(*                                                                         *)
(* The second follows the bytes: the encoding lays the bytes of a text end *)
(* to end, the decoder's loop steps from one to the next, and no encoded   *)
(* byte is a separator, so the split finds the pieces that were joined.    *)
(***************************************************************************)
EXTENDS QueryViews, FiniteSetTheorems, WellFoundedInduction, TLAPS

\* A byte the first decoder compares with a digit is the one the second does,
\* or a plus and a space, neither of which is a digit.
LEMMA PlusIsNoDigit ==
    ASSUME NEW c, NEW i \in DOMAIN c
    PROVE  /\ IsHex(PlusDecoded(c)[i]) <=> IsHex(c[i])
           /\ PlusDecoded(c)[i] # Plus
           /\ c[i] # Plus => PlusDecoded(c)[i] = c[i]
<1>1. PlusDecoded(c)[i] = IF c[i] = Plus THEN Space ELSE c[i]
  BY DEF PlusDecoded
<1>2. Plus # Space /\ ~IsHex(Plus) /\ ~IsHex(Space)
  BY DEF Plus, Space, IsHex
<1> QED BY <1>1, <1>2

LEMMA TokensAgree ==
    ASSUME NEW c
    PROVE  HttpTokens(PlusDecoded(c)) = WsTokens(c)
<1> DEFINE d == PlusDecoded(c)
<1>1. DOMAIN d = DOMAIN c
  BY DEF PlusDecoded
<1>2. ASSUME NEW i \in DOMAIN c PROVE HttpTokens(d)[i] = WsTokens(c)[i]
  <2>1. PercentAt(d, i) <=> PercentAt(c, i) /\ c[i] # Plus
    <3>1. d[i] = IF c[i] = Plus THEN Space ELSE c[i]
      BY DEF PlusDecoded
    <3>2. d[i] = Percent <=> c[i] = Percent
      BY <3>1 DEF Plus, Space, Percent
    <3>3. c[i] = Percent => c[i] # Plus
      BY DEF Plus, Percent
    <3> QED BY <1>1, <3>2, <3>3 DEF PercentAt
  <2>2. CASE PercentAt(c, i)
    <3>1. i + 1 \in DOMAIN c /\ i + 2 \in DOMAIN c
      BY <2>2 DEF PercentAt
    <3>2. Parses(d[i + 1], d[i + 2]) <=> IsHex(c[i + 1]) /\ IsHex(c[i + 2])
      BY <3>1, PlusIsNoDigit DEF Parses
    <3>3. c[i] # Plus /\ d[i] = c[i]
      BY <1>2, <2>2, PlusIsNoDigit DEF PercentAt, Plus, Percent
    <3>4. ASSUME IsHex(c[i + 1]), IsHex(c[i + 2])
          PROVE  Parsed(d[i + 1], d[i + 2]) = 16 * Digit(c[i + 1]) + Digit(c[i + 2])
      <4>1. ~IsHex(Plus)
        BY DEF IsHex, Plus
      <4>2. d[i + 1] = c[i + 1] /\ d[i + 2] = c[i + 2] /\ d[i + 1] # Plus
        BY <3>1, <3>4, <4>1, PlusIsNoDigit
      <4> QED BY <4>2 DEF Parsed
    <3> QED BY <1>1, <1>2, <2>1, <2>2, <3>2, <3>3, <3>4 DEF HttpTokens, WsTokens
  <2>3. CASE ~PercentAt(c, i)
    <3>1. HttpTokens(d)[i] = Literal(d[i])
      BY <1>1, <1>2, <2>1, <2>3 DEF HttpTokens
    <3>2. WsTokens(c)[i] = Literal(IF c[i] = Plus THEN Space ELSE c[i])
      BY <1>2, <2>3 DEF WsTokens
    <3>3. d[i] = IF c[i] = Plus THEN Space ELSE c[i]
      BY DEF PlusDecoded
    <3> QED BY <3>1, <3>2, <3>3
  <2> QED BY <2>2, <2>3
<1>3. /\ DOMAIN HttpTokens(d) = DOMAIN c /\ DOMAIN WsTokens(c) = DOMAIN c
      /\ HttpTokens(d) = [i \in DOMAIN c |-> HttpTokens(d)[i]]
      /\ WsTokens(c) = [i \in DOMAIN c |-> WsTokens(c)[i]]
  BY <1>1 DEF HttpTokens, WsTokens
<1> QED BY <1>2, <1>3

\* The HTTP guard and the WebSocket guard decode a component to the same text.
THEOREM DecodeAlike == \A component : HttpDecode(component) = WsDecode(component)
BY TokensAgree DEF HttpDecode, WsDecode

----------------------------------------------------------------------------
(* The empty query, which only one of the two treats apart.                *)

LEMMA NothingInOrder == SetToSeqs({}) = {<<>>}
<1>1. Cardinality({}) = 0
  BY FS_EmptySet
<1>2. \A f \in [1..0 -> {}] : f = <<>>
  OBVIOUS
<1>3. <<>> \in [1..0 -> {}]
  OBVIOUS
<1> QED BY <1>1, <1>2, <1>3 DEF SetToSeqs

LEMMA NoChunks == DOMAIN Chunks(<<>>) = {}
<1> DEFINE increasing(s) == \A i, j \in DOMAIN s : i < j => s[i] < s[j]
           starts == CHOOSE s \in SetToSeqs({}) : increasing(s)
<1>1. Starts(<<>>) = {}
  BY DEF Starts
<1>2. increasing(<<>>)
  OBVIOUS
<1>3. starts = <<>>
  <2> HIDE DEF increasing
  <2> QED BY <1>2, NothingInOrder
<1>4. DOMAIN Chunks(<<>>) = DOMAIN starts
  BY <1>1 DEF Chunks
<1>5. DOMAIN <<>> = {}
  OBVIOUS
<1> HIDE DEF starts
<1> QED BY <1>3, <1>4, <1>5

\* Both guards hand the engine the same names and values, in the same order,
\* for every query a client sends.
THEOREM ViewsAgree == Spec => []DecodersAgree
<1>1. DecodersAgree
  <2>1. CASE query = <<>>
    <3>1. HttpPairs(<<>>) = <<>>
      BY NoChunks DEF HttpPairs, Pairs
    <3> QED BY <2>1, <3>1 DEF DecodersAgree, WsPairs
  <2>2. CASE query # <<>>
    BY <2>2, DecodeAlike DEF DecodersAgree, HttpPairs, WsPairs, Pairs
  <2> QED BY <2>1, <2>2
<1> QED BY <1>1, PTL

----------------------------------------------------------------------------
(* Reaching every natural number.                                          *)

\* A property of zero that each number hands to the next is one of all numbers.
LEMMA NaturalsAreReached ==
    ASSUME NEW S \in SUBSET Nat, 0 \in S, \A n \in S : n + 1 \in S
    PROVE  S = Nat
<1> DEFINE Less == OpToRel(<, Nat)
           Rest == Nat \ S
<1> SUFFICES ASSUME Rest # {} PROVE FALSE
  OBVIOUS
<1>1. \A m, n \in Nat : m < n => <<m, n>> \in Less
  BY DEF OpToRel
<1>2. PICK n \in Rest : \A m \in Rest : ~(<<m, n>> \in Less)
  <2> HIDE DEF Less
  <2> QED BY WFMin, NatLessThanWellFounded DEF Less
<1> HIDE DEF Less
<1>3. n \in Nat /\ n # 0 /\ n \notin S
  OBVIOUS
<1>4. n - 1 \in Nat /\ n - 1 < n
  BY <1>3
<1>5. n - 1 \in S
  BY <1>1, <1>2, <1>3, <1>4
<1>6. (n - 1) + 1 \in S
  BY <1>5
<1> QED BY <1>3, <1>6

----------------------------------------------------------------------------
(* Flattening a sequence of sequences lays them end to end.                *)

FlattenStep(F, seqs, i) == IF i = 1 THEN seqs[i] ELSE F[i - 1] \o seqs[i]

\* The recursive function behind a flattening exists, for any number of pieces.
LEMMA FlattenExists ==
    ASSUME NEW seqs, NEW n \in Nat
    PROVE  \E F : F = [i \in 1..n |-> FlattenStep(F, seqs, i)]
<1> DEFINE Reached == {m \in Nat : \E F : F = [i \in 1..m |-> FlattenStep(F, seqs, i)]}
<1>1. 0 \in Reached
  <2>1. <<>> = [i \in 1..0 |-> FlattenStep(<<>>, seqs, i)]
    OBVIOUS
  <2> QED BY <2>1
<1>2. ASSUME NEW m \in Reached PROVE m + 1 \in Reached
  <2>1. PICK F : F = [i \in 1..m |-> FlattenStep(F, seqs, i)]
    OBVIOUS
  <2> DEFINE G == [i \in 1..(m + 1) |-> IF i = m + 1 THEN FlattenStep(F, seqs, i) ELSE F[i]]
  <2>2. ASSUME NEW i \in 1..(m + 1) PROVE G[i] = FlattenStep(G, seqs, i)
    <3>1. i # 1 => i - 1 \in 1..m /\ G[i - 1] = F[i - 1]
      BY <2>2
    <3>2. i # m + 1 => i \in 1..m
      BY <2>2
    <3>3. i # m + 1 => F[i] = FlattenStep(F, seqs, i)
      BY <2>1, <3>2
    <3>4. G[i] = FlattenStep(F, seqs, i)
      BY <3>3
    <3> HIDE DEF G
    <3> QED BY <3>1, <3>4 DEF FlattenStep
  <2>3. G = [i \in 1..(m + 1) |-> G[i]]
    OBVIOUS
  <2>4. G = [i \in 1..(m + 1) |-> FlattenStep(G, seqs, i)]
    <3> HIDE DEF G
    <3> QED BY <2>2, <2>3
  <2> HIDE DEF G
  <2> QED BY <2>4
<1> HIDE DEF Reached
<1>3. Reached = Nat
  <2>1. Reached \in SUBSET Nat
    BY DEF Reached
  <2> QED BY <1>1, <1>2, <2>1, NaturalsAreReached
<1> QED BY <1>3 DEF Reached

\* The partial flattenings.
LEMMA FlattenSteps ==
    ASSUME NEW seqs, Len(seqs) \in Nat \ {0}
    PROVE  \E F : /\ F = [i \in 1..Len(seqs) |-> FlattenStep(F, seqs, i)]
                  /\ FlattenSeq(seqs) = F[Len(seqs)]
<1> DEFINE flatten == CHOOSE F : F = [i \in 1..Len(seqs) |->
                          IF i = 1 THEN seqs[i] ELSE F[i - 1] \o seqs[i]]
<1>1. \E F : F = [i \in 1..Len(seqs) |-> IF i = 1 THEN seqs[i] ELSE F[i - 1] \o seqs[i]]
  BY FlattenExists DEF FlattenStep
<1>2. flatten = [i \in 1..Len(seqs) |-> IF i = 1 THEN seqs[i] ELSE flatten[i - 1] \o seqs[i]]
  BY <1>1
<1>3. FlattenSeq(seqs) = flatten[Len(seqs)]
  BY DEF FlattenSeq
<1> HIDE DEF flatten
<1> QED BY <1>2, <1>3 DEF FlattenStep

\* The bytes of two sequences end to end.
LEMMA EndToEnd ==
    ASSUME NEW S, NEW s \in Seq(S), NEW t \in Seq(S)
    PROVE  /\ s \o t \in Seq(S)
           /\ Len(s \o t) = Len(s) + Len(t)
           /\ \A k \in 1..Len(s) : k \in 1..Len(s \o t) /\ (s \o t)[k] = s[k]
           /\ \A k \in 1..Len(t) :
                 Len(s) + k \in 1..Len(s \o t) /\ (s \o t)[Len(s) + k] = t[k]
OBVIOUS

\* What is laid after the first i pieces, each where the one before it ends.
Ended(F, j) == IF j = 0 THEN 0 ELSE Len(F[j])
Laid(F, seqs, S, i) ==
    /\ F[i] \in Seq(S)
    /\ \A j \in 1..i : \A k \in 1..Len(seqs[j]) :
          /\ Ended(F, j - 1) + k \in 1..Len(F[i])
          /\ F[i][Ended(F, j - 1) + k] = seqs[j][k]
    /\ Ended(F, i) = Ended(F, i - 1) + Len(seqs[i])

\* The first piece lies at the front,
LEMMA FirstLaid ==
    ASSUME NEW S, NEW F, NEW seqs, seqs[1] \in Seq(S), F[1] = seqs[1]
    PROVE  Laid(F, seqs, S, 1)
<1>1. Ended(F, 1 - 1) = 0 /\ Ended(F, 1) = Len(seqs[1])
  BY DEF Ended
<1>2. Len(seqs[1]) \in Nat
  OBVIOUS
<1>3. ASSUME NEW j \in 1..1, NEW k \in 1..Len(seqs[j])
      PROVE  /\ Ended(F, j - 1) + k \in 1..Len(F[1])
             /\ F[1][Ended(F, j - 1) + k] = seqs[j][k]
  <2>1. j = 1 /\ Ended(F, j - 1) + k = k
    BY <1>1, <1>2
  <2> QED BY <2>1
<1> QED BY <1>1, <1>2, <1>3 DEF Laid

\* each further one behind what is laid,
LEMMA NextLaid ==
    ASSUME NEW S, NEW F, NEW seqs, NEW i \in Nat \ {0, 1}, Laid(F, seqs, S, i - 1),
           seqs[i] \in Seq(S), F[i] = F[i - 1] \o seqs[i]
    PROVE  Laid(F, seqs, S, i)
<1>1. F[i - 1] \in Seq(S) /\ Len(F[i - 1]) \in Nat
  BY DEF Laid
<1>2. /\ F[i] \in Seq(S)
      /\ Len(F[i]) = Len(F[i - 1]) + Len(seqs[i])
      /\ \A k \in 1..Len(F[i - 1]) : k \in 1..Len(F[i]) /\ F[i][k] = F[i - 1][k]
      /\ \A k \in 1..Len(seqs[i]) :
            Len(F[i - 1]) + k \in 1..Len(F[i]) /\ F[i][Len(F[i - 1]) + k] = seqs[i][k]
  <2> DEFINE s == F[i - 1]
             t == seqs[i]
  <2>1. s \in Seq(S) /\ t \in Seq(S) /\ F[i] = s \o t
    BY <1>1
  <2> HIDE DEF s, t
  <2>2. /\ s \o t \in Seq(S)
        /\ Len(s \o t) = Len(s) + Len(t)
        /\ \A k \in 1..Len(s) : k \in 1..Len(s \o t) /\ (s \o t)[k] = s[k]
        /\ \A k \in 1..Len(t) :
              Len(s) + k \in 1..Len(s \o t) /\ (s \o t)[Len(s) + k] = t[k]
    BY <2>1, EndToEnd
  <2> QED BY <2>1, <2>2 DEF s, t
<1>3. Ended(F, i) = Len(F[i]) /\ Ended(F, i - 1) = Len(F[i - 1])
  <2>1. i # 0 /\ i - 1 # 0
    OBVIOUS
  <2> QED BY <2>1, Zenon DEF Ended
<1>4. ASSUME NEW j \in 1..i, NEW k \in 1..Len(seqs[j])
      PROVE  /\ Ended(F, j - 1) + k \in 1..Len(F[i])
             /\ F[i][Ended(F, j - 1) + k] = seqs[j][k]
  <2>1. CASE j = i
    BY <1>2, <1>3, <1>4, <2>1
  <2>2. CASE j # i
    <3>1. j \in 1..(i - 1)
      BY <1>4, <2>2
    <3>2. /\ Ended(F, j - 1) + k \in 1..Len(F[i - 1])
          /\ F[i - 1][Ended(F, j - 1) + k] = seqs[j][k]
      BY <1>4, <3>1 DEF Laid
    <3> QED BY <1>2, <3>2
  <2> QED BY <2>1, <2>2
<1> QED BY <1>2, <1>3, <1>4 DEF Laid

\* and so all of them lie where they should.
LEMMA AllLaid ==
    ASSUME NEW S, NEW F, NEW seqs, NEW n \in Nat,
           \A i \in 1..n : seqs[i] \in Seq(S) /\ F[i] = FlattenStep(F, seqs, i),
           NEW i \in 1..n
    PROVE  Laid(F, seqs, S, i)
<1> DEFINE Reached == {m \in Nat : m + 1 \in 1..n => Laid(F, seqs, S, m + 1)}
<1>1. 0 \in Reached
  <2>1. 1 \in 1..n => Laid(F, seqs, S, 1)
    BY FirstLaid DEF FlattenStep
  <2> QED BY <2>1
<1>2. ASSUME NEW m \in Reached PROVE m + 1 \in Reached
  <2>1. ASSUME (m + 1) + 1 \in 1..n PROVE Laid(F, seqs, S, (m + 1) + 1)
    <3> DEFINE l == (m + 1) + 1
    <3>1. m \in Nat /\ m + 1 \in 1..n /\ l \in Nat \ {0, 1} /\ l - 1 = m + 1 /\ l \in 1..n
      BY <2>1
    <3>2. Laid(F, seqs, S, l - 1)
      BY <3>1
    <3>3. seqs[l] \in Seq(S) /\ F[l] = F[l - 1] \o seqs[l]
      BY <3>1 DEF FlattenStep
    <3> HIDE DEF l
    <3>4. Laid(F, seqs, S, l)
      BY <3>1, <3>2, <3>3, NextLaid
    <3> QED BY <3>4 DEF l
  <2>2. m + 1 \in Nat
    OBVIOUS
  <2> QED BY <2>1, <2>2
<1> HIDE DEF Reached
<1>3. Reached = Nat
  <2>1. Reached \in SUBSET Nat
    BY DEF Reached
  <2> QED BY <1>1, <1>2, <2>1, NaturalsAreReached
<1>4. i - 1 \in Reached /\ (i - 1) + 1 = i
  BY <1>3
<1> QED BY <1>4 DEF Reached

\* Where the pieces of a flattening lie: at[j] is the place of the first byte
\* of piece j, and at[n + 1] the one behind the last piece.
Boundaries(at, seqs, whole) ==
    /\ at \in [1..(Len(seqs) + 1) -> Nat]
    /\ at[1] = 1
    /\ at[Len(seqs) + 1] = Len(whole) + 1
    /\ \A j \in 1..Len(seqs) :
          /\ at[j + 1] = at[j] + Len(seqs[j])
          /\ \A k \in 1..Len(seqs[j]) :
                /\ at[j] + k - 1 \in 1..Len(whole)
                /\ whole[at[j] + k - 1] = seqs[j][k]

\* The flattening of some pieces, and of none.
LEMMA PiecesLie ==
    ASSUME NEW S, NEW seqs \in Seq(Seq(S)), Len(seqs) > 0
    PROVE  /\ FlattenSeq(seqs) \in Seq(S)
           /\ \E at : Boundaries(at, seqs, FlattenSeq(seqs))
<1>1. Len(seqs) \in Nat \ {0} /\ \A i \in 1..Len(seqs) : seqs[i] \in Seq(S)
  OBVIOUS
<1>2. PICK F : /\ F = [i \in 1..Len(seqs) |-> FlattenStep(F, seqs, i)]
               /\ FlattenSeq(seqs) = F[Len(seqs)]
  BY <1>1, FlattenSteps
<1>3. \A i \in 1..Len(seqs) : F[i] = FlattenStep(F, seqs, i)
  BY <1>2
<1>4. \A i \in 1..Len(seqs) : Laid(F, seqs, S, i)
  BY <1>1, <1>3, AllLaid
<1>5. ASSUME NEW j \in 0..Len(seqs) PROVE Ended(F, j) \in Nat
  BY <1>1, <1>4 DEF Ended, Laid
<1> DEFINE at == [j \in 1..(Len(seqs) + 1) |-> Ended(F, j - 1) + 1]
<1>6. at \in [1..(Len(seqs) + 1) -> Nat]
  <2>1. ASSUME NEW j \in 1..(Len(seqs) + 1) PROVE Ended(F, j - 1) + 1 \in Nat
    <3>1. j - 1 \in 0..Len(seqs)
      BY <1>1
    <3> QED BY <1>5, <3>1
  <2> QED BY <2>1
<1>7. at[1] = 1 /\ at[Len(seqs) + 1] = Len(FlattenSeq(seqs)) + 1
  BY <1>1, <1>2 DEF Ended
<1>8. ASSUME NEW j \in 1..Len(seqs)
      PROVE  /\ at[j + 1] = at[j] + Len(seqs[j])
             /\ \A k \in 1..Len(seqs[j]) :
                   /\ at[j] + k - 1 \in 1..Len(FlattenSeq(seqs))
                   /\ FlattenSeq(seqs)[at[j] + k - 1] = seqs[j][k]
  <2>1. Laid(F, seqs, S, j) /\ Laid(F, seqs, S, Len(seqs))
    BY <1>1, <1>4
  <2>2. at[j] = Ended(F, j - 1) + 1 /\ at[j + 1] = Ended(F, j) + 1
    BY <1>1
  <2>3. Ended(F, j) \in Nat /\ Ended(F, j - 1) \in Nat /\ Len(seqs[j]) \in Nat
    BY <1>1, <1>5
  <2> HIDE DEF at
  <2>4. at[j + 1] = at[j] + Len(seqs[j])
    BY <2>1, <2>2, <2>3 DEF Laid
  <2>5. ASSUME NEW k \in 1..Len(seqs[j])
        PROVE  /\ at[j] + k - 1 \in 1..Len(FlattenSeq(seqs))
               /\ FlattenSeq(seqs)[at[j] + k - 1] = seqs[j][k]
    <3>1. at[j] + k - 1 = Ended(F, j - 1) + k
      BY <2>2, <2>3
    <3>2. j \in 1..Len(seqs)
      OBVIOUS
    <3> QED BY <1>2, <2>1, <3>1, <3>2 DEF Laid
  <2> QED BY <2>4, <2>5
<1>9. FlattenSeq(seqs) \in Seq(S)
  <2>1. Laid(F, seqs, S, Len(seqs))
    BY <1>1, <1>4
  <2>2. F[Len(seqs)] \in Seq(S)
    BY <2>1, Zenon DEF Laid
  <2> QED BY <1>2, <2>2
<1> HIDE DEF at
<1> QED BY <1>6, <1>7, <1>8, <1>9 DEF Boundaries

LEMMA FlattenLays ==
    ASSUME NEW S, NEW seqs \in Seq(Seq(S))
    PROVE  /\ FlattenSeq(seqs) \in Seq(S)
           /\ \E at : Boundaries(at, seqs, FlattenSeq(seqs))
<1>1. CASE Len(seqs) > 0
  BY <1>1, PiecesLie
<1>2. CASE Len(seqs) = 0
  <2>1. seqs = <<>> /\ FlattenSeq(seqs) = <<>>
    BY <1>2 DEF FlattenSeq
  <2>2. Boundaries([j \in 1..1 |-> 1], <<>>, <<>>)
    BY DEF Boundaries
  <2>3. Boundaries([j \in 1..1 |-> 1], seqs, FlattenSeq(seqs))
    BY <2>1, <2>2
  <2>4. <<>> \in Seq(S)
    OBVIOUS
  <2> QED BY <2>1, <2>3, <2>4
<1>3. Len(seqs) \in Nat
  OBVIOUS
<1> QED BY <1>1, <1>2, <1>3

\* A flattening of two pieces is their concatenation.
LEMMA FlattenTwo ==
    ASSUME NEW s, NEW t
    PROVE  FlattenSeq(<<s, t>>) = s \o t
<1> DEFINE seqs == <<s, t>>
<1>1. Len(seqs) = 2 /\ seqs[1] = s /\ seqs[2] = t
  OBVIOUS
<1> HIDE DEF seqs
<1>2. PICK F : /\ F = [i \in 1..Len(seqs) |-> FlattenStep(F, seqs, i)]
               /\ FlattenSeq(seqs) = F[Len(seqs)]
  BY <1>1, FlattenSteps
<1>3. \A i \in 1..2 : F[i] = FlattenStep(F, seqs, i)
  BY <1>1, <1>2
<1>4. F[1] = s
  BY <1>1, <1>3 DEF FlattenStep
<1>5. F[2] = F[1] \o t
  <2>1. F[2] = FlattenStep(F, seqs, 2) /\ 2 - 1 = 1 /\ 2 # 1
    BY <1>3
  <2> QED BY <1>1, <2>1 DEF FlattenStep
<1> QED BY <1>1, <1>2, <1>4, <1>5 DEF seqs

----------------------------------------------------------------------------
(* The decoders' loop over tokens that lead from one to the next.          *)

DecodeStep(from, tokens, i) ==
    IF i > Len(tokens) THEN <<>> ELSE <<tokens[i].byte>> \o from[i + tokens[i].width]

\* Each token leads on, at most to the end.
LeadsOn(tokens) ==
    /\ Len(tokens) \in Nat
    /\ \A i \in 1..Len(tokens) : i + tokens[i].width \in (i + 1)..(Len(tokens) + 1)

\* The function behind the loop exists, built from the end of the tokens.
LEMMA DecodeExists ==
    ASSUME NEW tokens, LeadsOn(tokens)
    PROVE  \E from : from = [i \in 1..(Len(tokens) + 1) |-> DecodeStep(from, tokens, i)]
<1> DEFINE L == Len(tokens)
           Upto(from, m) == from = [i \in (L + 1 - m)..(L + 1) |-> DecodeStep(from, tokens, i)]
           Reached == {m \in Nat : m <= L => \E from : Upto(from, m)}
<1>1. L \in Nat /\ \A i \in 1..L : i + tokens[i].width \in (i + 1)..(L + 1)
  BY DEF LeadsOn
<1>2. 0 \in Reached
  <2> DEFINE f == [i \in (L + 1)..(L + 1) |-> <<>>]
  <2>1. \A i \in (L + 1)..(L + 1) : DecodeStep(f, tokens, i) = <<>>
    BY <1>1 DEF DecodeStep
  <2>2. f = [i \in (L + 1)..(L + 1) |-> DecodeStep(f, tokens, i)]
    BY <2>1
  <2>3. L + 1 - 0 = L + 1
    BY <1>1
  <2> HIDE DEF f
  <2> QED BY <2>2, <2>3
<1>3. ASSUME NEW m \in Reached PROVE m + 1 \in Reached
  <2> SUFFICES ASSUME m + 1 <= L PROVE \E from : Upto(from, m + 1)
    OBVIOUS
  <2>1. PICK from : from = [i \in (L + 1 - m)..(L + 1) |-> DecodeStep(from, tokens, i)]
    BY <1>1
  <2> DEFINE l == L + 1 - (m + 1)
             g == [i \in l..(L + 1) |-> IF i = l THEN DecodeStep(from, tokens, i) ELSE from[i]]
  <2>2. m \in Nat /\ l \in 1..L /\ L + 1 - m = l + 1
    BY <1>1
  <2>3. ASSUME NEW i \in l..(L + 1) PROVE g[i] = DecodeStep(g, tokens, i)
    <3>1. g[i] = DecodeStep(from, tokens, i)
      <4>1. i # l => i \in (L + 1 - m)..(L + 1)
        BY <1>1, <2>2, <2>3
      <4>2. i # l => from[i] = DecodeStep(from, tokens, i)
        BY <2>1, <4>1
      <4> QED BY <4>2
    <3>2. i > L \/ (i \in 1..L /\ g[i + tokens[i].width] = from[i + tokens[i].width])
      <4>1. ASSUME ~(i > L) PROVE i \in 1..L /\ g[i + tokens[i].width] = from[i + tokens[i].width]
        <5>1. i \in 1..L
          BY <1>1, <2>2, <2>3, <4>1
        <5>2. i + tokens[i].width \in (i + 1)..(L + 1)
          BY <1>1, <5>1
        <5>3. i + tokens[i].width \in l..(L + 1) /\ i + tokens[i].width # l
          BY <1>1, <2>2, <2>3, <5>1, <5>2
        <5> QED BY <5>1, <5>3
      <4> QED BY <4>1
    <3> HIDE DEF g
    <3> QED BY <3>1, <3>2 DEF DecodeStep
  <2>4. g = [i \in l..(L + 1) |-> g[i]]
    OBVIOUS
  <2>5. g = [i \in l..(L + 1) |-> DecodeStep(g, tokens, i)]
    <3> HIDE DEF g
    <3> QED BY <2>3, <2>4
  <2> HIDE DEF g
  <2> QED BY <2>5
<1> HIDE DEF Reached
<1>4. Reached = Nat
  <2>1. Reached \in SUBSET Nat
    BY DEF Reached
  <2> QED BY <1>2, <1>3, <2>1, NaturalsAreReached
<1>5. L \in Reached /\ L + 1 - L = 1
  BY <1>1, <1>4
<1> QED BY <1>1, <1>5 DEF Reached

\* What the rest of the loop pushes from each place.
LEMMA DecodeSteps ==
    ASSUME NEW tokens, LeadsOn(tokens)
    PROVE  \E from : /\ \A i \in 1..(Len(tokens) + 1) : from[i] = DecodeStep(from, tokens, i)
                     /\ DecodeTokens(tokens) = from[1]
<1> DEFINE loop == CHOOSE from : from = [i \in 1..(Len(tokens) + 1) |->
                        IF i > Len(tokens) THEN <<>>
                        ELSE <<tokens[i].byte>> \o from[i + tokens[i].width]]
<1>1. \E from : from = [i \in 1..(Len(tokens) + 1) |->
                        IF i > Len(tokens) THEN <<>>
                        ELSE <<tokens[i].byte>> \o from[i + tokens[i].width]]
  BY DecodeExists DEF DecodeStep
<1>2. loop = [i \in 1..(Len(tokens) + 1) |->
                 IF i > Len(tokens) THEN <<>>
                 ELSE <<tokens[i].byte>> \o loop[i + tokens[i].width]]
  BY <1>1
<1>3. DecodeTokens(tokens) = loop[1]
  BY DEF DecodeTokens
<1> HIDE DEF loop
<1>4. \A i \in 1..(Len(tokens) + 1) : loop[i] = DecodeStep(loop, tokens, i)
  BY <1>2 DEF DecodeStep
<1> QED BY <1>3, <1>4

\* The suffix that begins one earlier.
LEMMA OneEarlier ==
    ASSUME NEW S, NEW text \in Seq(S), NEW j \in 1..Len(text)
    PROVE  <<text[j]>> \o SubSeq(text, j + 1, Len(text)) = SubSeq(text, j, Len(text))
<1> DEFINE n == Len(text)
           rest == SubSeq(text, j + 1, n)
           all == SubSeq(text, j, n)
<1>1. n \in Nat /\ j \in Nat /\ j <= n
  OBVIOUS
<1>2. rest \in Seq(S) /\ Len(rest) = n - j /\ \A i \in 1..(n - j) : rest[i] = text[j + i]
  OBVIOUS
<1>3. all \in Seq(S) /\ Len(all) = n - j + 1 /\ \A i \in 1..(n - j + 1) : all[i] = text[j + i - 1]
  OBVIOUS
<1>4. <<text[j]>> \in Seq(S) /\ Len(<<text[j]>>) = 1 /\ <<text[j]>>[1] = text[j]
  OBVIOUS
<1> HIDE DEF rest, all, n
<1>5. <<text[j]>> \o rest \in Seq(S) /\ Len(<<text[j]>> \o rest) = n - j + 1
  BY <1>1, <1>2, <1>4
<1>6. ASSUME NEW i \in 1..(n - j + 1) PROVE (<<text[j]>> \o rest)[i] = all[i]
  <2>1. CASE i = 1
    BY <1>1, <1>2, <1>3, <1>4, <2>1
  <2>2. CASE i # 1
    <3>1. i - 1 \in 1..(n - j) /\ j + (i - 1) = j + i - 1
      BY <1>1, <1>6, <2>2
    <3>2. (<<text[j]>> \o rest)[i] = rest[i - 1]
      BY <1>1, <1>2, <1>4, <1>6, <2>2
    <3> QED BY <1>2, <1>3, <1>6, <3>1, <3>2
  <2> QED BY <2>1, <2>2
<1> QED BY <1>3, <1>5, <1>6 DEF rest, all, n

\* The places of a text's tokens: each carries its byte and leads to the next.
Carries(at, tokens, text) ==
    /\ at[1] = 1
    /\ at[Len(text) + 1] = Len(tokens) + 1
    /\ \A j \in 1..Len(text) :
          /\ at[j] \in 1..Len(tokens)
          /\ tokens[at[j]].byte = text[j]
          /\ at[j] + tokens[at[j]].width = at[j + 1]

\* A loop along the places of a text's tokens pushes the text.
LEMMA DecodeAlong ==
    ASSUME NEW S, NEW text \in Seq(S), NEW tokens, LeadsOn(tokens),
           NEW at, Carries(at, tokens, text)
    PROVE  DecodeTokens(tokens) = text
<1> DEFINE n == Len(text)
<1>1. n \in Nat /\ Len(tokens) \in Nat
  BY DEF LeadsOn
<1>2. PICK from : /\ \A i \in 1..(Len(tokens) + 1) : from[i] = DecodeStep(from, tokens, i)
                  /\ DecodeTokens(tokens) = from[1]
  BY DecodeSteps
<1> DEFINE Reached == {m \in Nat : m <= n => from[at[n + 1 - m]] = SubSeq(text, n + 1 - m, n)}
<1>3. 0 \in Reached
  <2>1. at[n + 1] = Len(tokens) + 1 /\ n + 1 - 0 = n + 1
    BY <1>1 DEF Carries
  <2>2. from[Len(tokens) + 1] = <<>>
    <3>1. Len(tokens) + 1 \in 1..(Len(tokens) + 1) /\ Len(tokens) + 1 > Len(tokens)
      BY <1>1
    <3>2. from[Len(tokens) + 1] = DecodeStep(from, tokens, Len(tokens) + 1)
      BY <1>2, <3>1
    <3> QED BY <3>1, <3>2, Zenon DEF DecodeStep
  <2>3. SubSeq(text, n + 1, n) = <<>>
    BY <1>1
  <2> QED BY <2>1, <2>2, <2>3
<1>4. ASSUME NEW m \in Reached PROVE m + 1 \in Reached
  <2> SUFFICES ASSUME m + 1 <= n PROVE from[at[n + 1 - (m + 1)]] = SubSeq(text, n + 1 - (m + 1), n)
    OBVIOUS
  <2> DEFINE j == n + 1 - (m + 1)
  <2>1. m \in Nat /\ m <= n /\ j \in 1..n /\ n + 1 - m = j + 1
    BY <1>1
  <2>2. from[at[j + 1]] = SubSeq(text, j + 1, n)
    BY <2>1
  <2> HIDE DEF j
  <2>3. /\ at[j] \in 1..Len(tokens) /\ tokens[at[j]].byte = text[j]
        /\ at[j] + tokens[at[j]].width = at[j + 1]
    BY <2>1 DEF Carries
  <2>4. from[at[j]] = <<text[j]>> \o from[at[j + 1]]
    <3>1. from[at[j]] = DecodeStep(from, tokens, at[j]) /\ ~(at[j] > Len(tokens))
      BY <1>1, <1>2, <2>3
    <3> QED BY <2>3, <3>1 DEF DecodeStep
  <2>5. from[at[j]] = SubSeq(text, j, n)
    BY <2>1, <2>2, <2>4, OneEarlier
  <2> QED BY <2>5 DEF j
<1> HIDE DEF Reached
<1>5. Reached = Nat
  <2>1. Reached \in SUBSET Nat
    BY DEF Reached
  <2> QED BY <1>3, <1>4, <2>1, NaturalsAreReached
<1>6. n \in Reached /\ n + 1 - n = 1
  BY <1>1, <1>5
<1>7. from[at[1]] = SubSeq(text, 1, n)
  BY <1>1, <1>6 DEF Reached
<1>8. SubSeq(text, 1, n) = text
  OBVIOUS
<1> QED BY <1>2, <1>7, <1>8 DEF Carries

----------------------------------------------------------------------------
(* What a client encodes, the HTTP decoder decodes.                        *)

Byte == 0..255

\* The bytes of a component: no separator is among them.
FormBytes == Byte \ {And, Equals}

\* A hex digit is no separator and no plus, and is read as what it was written for.
LEMMA HexDigits ==
    ASSUME NEW n \in 0..15
    PROVE  /\ HexDigit(n) \in FormBytes /\ HexDigit(n) # Plus
           /\ IsHex(HexDigit(n)) /\ Digit(HexDigit(n)) = n
BY DEF HexDigit, FormBytes, Byte, And, Equals, Plus, IsHex, Digit

\* A byte is its two nibbles.
LEMMA Nibbles ==
    ASSUME NEW b \in Byte
    PROVE  b \div 16 \in 0..15 /\ b % 16 \in 0..15 /\ (16 * (b \div 16)) + (b % 16) = b
BY DEF Byte

\* An encoded byte is one byte, a plus for a space, or an escape.
LEMMA EncodedByteIs ==
    ASSUME NEW b \in Byte
    PROVE  /\ EncodedByte(b) \in Seq(FormBytes)
           /\ \/ b = Space /\ Len(EncodedByte(b)) = 1 /\ EncodedByte(b)[1] = Plus
              \/ /\ Len(EncodedByte(b)) = 1 /\ EncodedByte(b)[1] = b
                 /\ b \notin {Plus, Percent}
              \/ /\ Len(EncodedByte(b)) = 3
                 /\ EncodedByte(b)[1] = Percent
                 /\ EncodedByte(b)[2] = HexDigit(b \div 16)
                 /\ EncodedByte(b)[3] = HexDigit(b % 16)
<1>1. CASE b = Space
  <2>1. EncodedByte(b) = <<Plus>> /\ Plus \in FormBytes
    BY <1>1 DEF EncodedByte, FormBytes, Byte, And, Equals, Plus
  <2> QED BY <1>1, <2>1
<1>2. CASE b # Space /\ b \in 48..57 \cup 65..90 \cup 97..122
  <2>1. EncodedByte(b) = <<b>>
    BY <1>2 DEF EncodedByte
  <2>2. b \in FormBytes /\ b \notin {Plus, Percent}
    BY <1>2 DEF FormBytes, Byte, And, Equals, Plus, Percent
  <2> QED BY <2>1, <2>2
<1>3. CASE b # Space /\ b \notin 48..57 \cup 65..90 \cup 97..122
  <2>1. EncodedByte(b) = <<Percent, HexDigit(b \div 16), HexDigit(b % 16)>>
    BY <1>3 DEF EncodedByte
  <2>2. HexDigit(b \div 16) \in FormBytes /\ HexDigit(b % 16) \in FormBytes
    BY Nibbles, HexDigits
  <2>3. Percent \in FormBytes
    BY DEF FormBytes, Byte, And, Equals, Percent
  <2> HIDE DEF FormBytes
  <2> QED BY <2>1, <2>2, <2>3
<1> QED BY <1>1, <1>2, <1>3

\* The encoding of a text and where its bytes' encodings lie in it.
LEMMA EncodedLays ==
    ASSUME NEW text \in Seq(Byte)
    PROVE  /\ Encoded(text) \in Seq(FormBytes)
           /\ \E at :
                 /\ at \in [1..(Len(text) + 1) -> Nat]
                 /\ at[1] = 1
                 /\ at[Len(text) + 1] = Len(Encoded(text)) + 1
                 /\ \A j \in 1..Len(text) :
                       /\ at[j + 1] = at[j] + Len(EncodedByte(text[j]))
                       /\ \A k \in 1..Len(EncodedByte(text[j])) :
                             /\ at[j] + k - 1 \in 1..Len(Encoded(text))
                             /\ Encoded(text)[at[j] + k - 1] = EncodedByte(text[j])[k]
<1> DEFINE pieces == [i \in DOMAIN text |-> EncodedByte(text[i])]
<1>1. \A i \in 1..Len(text) : pieces[i] = EncodedByte(text[i]) /\ pieces[i] \in Seq(FormBytes)
  BY EncodedByteIs
<1>2. DOMAIN text = 1..Len(text) /\ Len(text) \in Nat
  OBVIOUS
<1>3. pieces = [i \in 1..Len(text) |-> EncodedByte(text[i])]
  BY <1>2
<1>4. pieces \in Seq(Seq(FormBytes)) /\ Len(pieces) = Len(text)
  BY <1>1, <1>2, <1>3
<1>5. Encoded(text) = FlattenSeq(pieces)
  BY DEF Encoded
<1> HIDE DEF pieces
<1>6. PICK at : Boundaries(at, pieces, Encoded(text))
  BY <1>4, <1>5, FlattenLays
<1>7. Encoded(text) \in Seq(FormBytes)
  BY <1>4, <1>5, FlattenLays
<1>8. /\ at \in [1..(Len(text) + 1) -> Nat]
      /\ at[1] = 1
      /\ at[Len(text) + 1] = Len(Encoded(text)) + 1
  BY <1>4, <1>6 DEF Boundaries
<1>9. ASSUME NEW j \in 1..Len(text)
      PROVE  /\ at[j + 1] = at[j] + Len(EncodedByte(text[j]))
             /\ \A k \in 1..Len(EncodedByte(text[j])) :
                   /\ at[j] + k - 1 \in 1..Len(Encoded(text))
                   /\ Encoded(text)[at[j] + k - 1] = EncodedByte(text[j])[k]
  <2>1. pieces[j] = EncodedByte(text[j]) /\ j \in 1..Len(pieces)
    BY <1>1, <1>4
  <2>2. /\ at[j + 1] = at[j] + Len(pieces[j])
        /\ \A k \in 1..Len(pieces[j]) :
              /\ at[j] + k - 1 \in 1..Len(Encoded(text))
              /\ Encoded(text)[at[j] + k - 1] = pieces[j][k]
    BY <1>6, <2>1 DEF Boundaries
  <2> QED BY <2>1, <2>2
<1> QED BY <1>7, <1>8, <1>9

\* Tokens lead on: an escape has two bytes behind its percent sign.
LEMMA HttpTokensLeadOn ==
    ASSUME NEW S, NEW bytes \in Seq(S)
    PROVE  LeadsOn(HttpTokens(bytes)) /\ Len(HttpTokens(bytes)) = Len(bytes)
<1>1. DOMAIN bytes = 1..Len(bytes) /\ Len(bytes) \in Nat
  OBVIOUS
<1>2. Len(HttpTokens(bytes)) = Len(bytes)
  BY <1>1 DEF HttpTokens
<1>3. ASSUME NEW i \in 1..Len(bytes)
      PROVE  i + HttpTokens(bytes)[i].width \in (i + 1)..(Len(bytes) + 1)
  <2>1. CASE PercentAt(bytes, i) /\ Parses(bytes[i + 1], bytes[i + 2])
    <3>1. i + 2 \in 1..Len(bytes)
      BY <1>1, <2>1 DEF PercentAt
    <3>2. HttpTokens(bytes)[i].width = 3
      BY <1>1, <2>1 DEF HttpTokens, Escape
    <3> QED BY <1>1, <3>1, <3>2
  <2>2. CASE ~(PercentAt(bytes, i) /\ Parses(bytes[i + 1], bytes[i + 2]))
    <3>1. HttpTokens(bytes)[i].width = 1
      BY <1>1, <2>2 DEF HttpTokens, Literal
    <3> QED BY <1>1, <3>1
  <2> QED BY <2>1, <2>2
<1> QED BY <1>1, <1>2, <1>3 DEF LeadsOn

\* The decoder gives back what was encoded.
LEMMA DecodeEncoded ==
    ASSUME NEW text \in Seq(Byte)
    PROVE  HttpDecode(Encoded(text)) = text
<1> DEFINE code == Encoded(text)
           bytes == PlusDecoded(code)
           tokens == HttpTokens(bytes)
<1>1. code \in Seq(FormBytes)
  BY EncodedLays
<1>2. PICK at : /\ at \in [1..(Len(text) + 1) -> Nat]
                /\ at[1] = 1
                /\ at[Len(text) + 1] = Len(code) + 1
                /\ \A j \in 1..Len(text) :
                      /\ at[j + 1] = at[j] + Len(EncodedByte(text[j]))
                      /\ \A k \in 1..Len(EncodedByte(text[j])) :
                            /\ at[j] + k - 1 \in 1..Len(code)
                            /\ code[at[j] + k - 1] = EncodedByte(text[j])[k]
  BY EncodedLays
<1> HIDE DEF code
<1>3. DOMAIN code = 1..Len(code) /\ Len(code) \in Nat
  BY <1>1
<1>4. bytes = [i \in 1..Len(code) |-> IF code[i] = Plus THEN Space ELSE code[i]]
  BY <1>3 DEF PlusDecoded
<1>5. bytes \in Seq(Byte) /\ Len(bytes) = Len(code) /\ DOMAIN bytes = 1..Len(code)
  <2>1. ASSUME NEW i \in 1..Len(code) PROVE bytes[i] \in Byte
    <3>1. code[i] \in Byte /\ Space \in Byte
      <4>1. code[i] \in FormBytes
        BY <1>1
      <4> QED BY <4>1 DEF FormBytes, Byte, Space
    <3>2. bytes[i] = IF code[i] = Plus THEN Space ELSE code[i]
      BY <1>4
    <3> QED BY <3>1, <3>2
  <2> HIDE DEF bytes, Byte
  <2> QED BY <1>3, <1>4, <2>1
<1> HIDE DEF bytes
<1>6. LeadsOn(tokens) /\ Len(tokens) = Len(code)
  BY <1>5, HttpTokensLeadOn
<1>7. \A i \in 1..Len(code) :
         tokens[i] = IF PercentAt(bytes, i) /\ Parses(bytes[i + 1], bytes[i + 2])
                     THEN Escape(Parsed(bytes[i + 1], bytes[i + 2]))
                     ELSE Literal(bytes[i])
  BY <1>5 DEF HttpTokens
<1> HIDE DEF tokens
<1>8. ASSUME NEW j \in 1..Len(text)
      PROVE  /\ at[j] \in 1..Len(tokens)
             /\ tokens[at[j]].byte = text[j]
             /\ at[j] + tokens[at[j]].width = at[j + 1]
  <2> DEFINE p == at[j]
             b == text[j]
  <2>1. p \in Nat /\ b \in Byte
    BY <1>2
  <2>2. /\ at[j + 1] = p + Len(EncodedByte(b))
        /\ \A k \in 1..Len(EncodedByte(b)) :
              p + k - 1 \in 1..Len(code) /\ code[p + k - 1] = EncodedByte(b)[k]
    BY <1>2
  <2> HIDE DEF p, b
  <2>3. CASE b = Space /\ Len(EncodedByte(b)) = 1 /\ EncodedByte(b)[1] = Plus
    <3>1. p \in 1..Len(code) /\ code[p] = Plus
      <4>1. p + 1 - 1 = p /\ 1 \in 1..1
        BY <2>1
      <4> QED BY <2>2, <2>3, <4>1
    <3>2. bytes[p] = Space /\ ~PercentAt(bytes, p)
      BY <1>4, <3>1 DEF PercentAt, Space, Percent
    <3>3. tokens[p] = Literal(Space)
      BY <1>7, <3>1, <3>2
    <3> QED BY <1>6, <2>2, <2>3, <3>1, <3>3 DEF Literal, p, b
  <2>4. CASE Len(EncodedByte(b)) = 1 /\ EncodedByte(b)[1] = b /\ b \notin {Plus, Percent}
    <3>1. p \in 1..Len(code) /\ code[p] = b
      <4>1. p + 1 - 1 = p /\ 1 \in 1..1
        BY <2>1
      <4> QED BY <2>2, <2>4, <4>1
    <3>2. bytes[p] = b /\ ~PercentAt(bytes, p)
      BY <1>4, <2>4, <3>1 DEF PercentAt
    <3>3. tokens[p] = Literal(b)
      BY <1>7, <3>1, <3>2
    <3> QED BY <1>6, <2>2, <2>4, <3>1, <3>3 DEF Literal, p, b
  <2>5. CASE /\ Len(EncodedByte(b)) = 3
             /\ EncodedByte(b)[1] = Percent
             /\ EncodedByte(b)[2] = HexDigit(b \div 16)
             /\ EncodedByte(b)[3] = HexDigit(b % 16)
    <3>1. /\ p \in 1..Len(code) /\ p + 1 \in 1..Len(code) /\ p + 2 \in 1..Len(code)
          /\ code[p] = Percent
          /\ code[p + 1] = HexDigit(b \div 16) /\ code[p + 2] = HexDigit(b % 16)
      <4>1. /\ p + 1 - 1 = p /\ p + 2 - 1 = p + 1 /\ p + 3 - 1 = p + 2
            /\ 1 \in 1..3 /\ 2 \in 1..3 /\ 3 \in 1..3
        BY <2>1
      <4> QED BY <2>2, <2>5, <4>1
    <3>2. /\ IsHex(HexDigit(b \div 16)) /\ HexDigit(b \div 16) # Plus
          /\ Digit(HexDigit(b \div 16)) = b \div 16
          /\ IsHex(HexDigit(b % 16)) /\ HexDigit(b % 16) # Plus
          /\ Digit(HexDigit(b % 16)) = b % 16
      BY <2>1, Nibbles, HexDigits
    <3>3. /\ bytes[p] = Percent
          /\ bytes[p + 1] = HexDigit(b \div 16) /\ bytes[p + 2] = HexDigit(b % 16)
      BY <1>4, <3>1, <3>2 DEF Percent, Plus
    <3>4. PercentAt(bytes, p) /\ Parses(bytes[p + 1], bytes[p + 2])
      BY <1>5, <3>1, <3>2, <3>3 DEF PercentAt, Parses
    <3>5. Parsed(bytes[p + 1], bytes[p + 2]) = b
      <4>1. Parsed(bytes[p + 1], bytes[p + 2]) = (16 * (b \div 16)) + (b % 16)
        BY <3>2, <3>3 DEF Parsed
      <4> QED BY <2>1, <4>1, Nibbles
    <3>6. tokens[p] = Escape(b)
      BY <1>7, <3>1, <3>4, <3>5
    <3> QED BY <1>6, <2>2, <2>5, <3>1, <3>6 DEF Escape, p, b
  <2> QED BY <2>1, <2>3, <2>4, <2>5, EncodedByteIs
<1>9. Carries(at, tokens, text)
  BY <1>2, <1>6, <1>8 DEF Carries
<1>10. DecodeTokens(tokens) = text
  <2> HIDE DEF Byte
  <2> QED BY <1>6, <1>9, DecodeAlong
<1> QED BY <1>10 DEF HttpDecode, tokens, bytes, code

----------------------------------------------------------------------------
(* The split of a query into pairs.                                        *)

\* The minimum of a set of naturals is its least member.
LEMMA MinIs ==
    ASSUME NEW S \in SUBSET Nat, NEW m \in S, \A x \in S : m <= x
    PROVE  Min(S) = m
<1> DEFINE least(x) == x \in S /\ \A y \in S : x <= y
<1>1. least(m)
  OBVIOUS
<1>2. \A x : least(x) => x = m
  OBVIOUS
<1>3. Min(S) = CHOOSE x : least(x)
  BY DEF Min
<1> HIDE DEF least
<1> QED BY <1>1, <1>2, <1>3

\* A name and a value with an equals sign between them.
Joined(a, b) == a \o <<Equals>> \o b

\* The bytes of a name and a value joined.
LEMMA JoinedBytes ==
    ASSUME NEW a \in Seq(FormBytes), NEW b \in Seq(FormBytes)
    PROVE  /\ Joined(a, b) \in Seq(FormBytes \cup {Equals})
           /\ Len(Joined(a, b)) = Len(a) + 1 + Len(b)
           /\ \A i \in 1..Len(a) : Joined(a, b)[i] = a[i]
           /\ Joined(a, b)[Len(a) + 1] = Equals
           /\ \A i \in 1..Len(b) : Joined(a, b)[Len(a) + 1 + i] = b[i]
<1> DEFINE S == FormBytes \cup {Equals}
           s == a \o <<Equals>>
<1>1. a \in Seq(S) /\ b \in Seq(S) /\ <<Equals>> \in Seq(S)
  OBVIOUS
<1>2. Len(<<Equals>>) = 1 /\ <<Equals>>[1] = Equals /\ Len(a) \in Nat /\ Len(b) \in Nat
  OBVIOUS
<1> HIDE DEF S
<1>3. /\ s \in Seq(S) /\ Len(s) = Len(a) + 1
      /\ \A i \in 1..Len(a) : s[i] = a[i]
      /\ s[Len(a) + 1] = Equals
  BY <1>1, <1>2, EndToEnd
<1> HIDE DEF s
<1>4. /\ s \o b \in Seq(S) /\ Len(s \o b) = Len(s) + Len(b)
      /\ \A i \in 1..Len(s) : (s \o b)[i] = s[i]
      /\ \A i \in 1..Len(b) : (s \o b)[Len(s) + i] = b[i]
  <2>1. s \in Seq(S) /\ b \in Seq(S)
    BY <1>1, <1>3
  <2> QED BY <2>1, EndToEnd
<1>5. Joined(a, b) = s \o b
  BY DEF Joined, s
<1>6. \A i \in 1..Len(a) : i \in 1..Len(s)
  BY <1>2, <1>3
<1>7. Len(a) + 1 \in 1..Len(s)
  BY <1>2, <1>3
<1> QED BY <1>2, <1>3, <1>4, <1>5, <1>6, <1>7 DEF S

\* The split at the first equals sign gives the name and the value back.
LEMMA SplitJoined ==
    ASSUME NEW a \in Seq(FormBytes), NEW b \in Seq(FormBytes)
    PROVE  SplitOnce(Joined(a, b)) = <<a, b>>
<1> DEFINE c == Joined(a, b)
           n == Len(a)
           I == {i \in 1..Len(c) : c[i] = Equals}
<1>1. /\ c \in Seq(FormBytes \cup {Equals}) /\ Len(c) = n + 1 + Len(b)
      /\ \A i \in 1..n : c[i] = a[i]
      /\ c[n + 1] = Equals
      /\ \A i \in 1..Len(b) : c[n + 1 + i] = b[i]
  BY JoinedBytes
<1>2. /\ n \in Nat /\ Len(b) \in Nat /\ \A i \in 1..n : a[i] # Equals
      /\ a = [i \in 1..n |-> a[i]] /\ b = [i \in 1..Len(b) |-> b[i]]
  BY DEF FormBytes
<1> HIDE DEF c
<1>3. Min(I) = n + 1 /\ I # {}
  <2>1. I \in SUBSET Nat /\ n + 1 \in I
    BY <1>1, <1>2
  <2>2. \A i \in I : n + 1 <= i
    BY <1>1, <1>2
  <2> HIDE DEF I
  <2> QED BY <2>1, <2>2, MinIs
<1>4. SplitOnce(c) = <<SubSeq(c, 1, n), SubSeq(c, n + 2, Len(c))>>
  <2>1. n \in Nat
    BY <1>2
  <2> DEFINE at == IF I # {} THEN Min(I) ELSE 0
  <2>2. SplitOnce(c) = IF at = 0 THEN <<c, <<>> >>
                       ELSE <<SubSeq(c, 1, at - 1), SubSeq(c, at + 1, Len(c))>>
    BY DEF SplitOnce, SelectInSeq
  <2>3. at = n + 1
    BY <1>3
  <2> HIDE DEF at, n, I
  <2>4. at # 0 /\ at - 1 = n /\ at + 1 = n + 2
    BY <2>1, <2>3
  <2> QED BY <2>2, <2>4, Zenon
<1>5. SubSeq(c, 1, n) = a
  <2>1. SubSeq(c, 1, n) = [i \in 1..n |-> c[i]]
    BY <1>1, <1>2
  <2> QED BY <1>1, <1>2, <2>1
<1>6. SubSeq(c, n + 2, Len(c)) = b
  <2>1. SubSeq(c, n + 2, Len(c)) = [i \in 1..Len(b) |-> c[n + 1 + i]]
    BY <1>1, <1>2
  <2> QED BY <1>1, <1>2, <2>1
<1> QED BY <1>4, <1>5, <1>6 DEF c

\* Two pieces with a separator between them, and none in either.
TwoPieces(raw, p, q) ==
    /\ raw \in Seq(Byte)
    /\ Len(p) \in Nat \ {0} /\ Len(q) \in Nat \ {0}
    /\ Len(raw) = Len(p) + 1 + Len(q)
    /\ \A i \in 1..Len(p) : raw[i] = p[i] /\ p[i] # And
    /\ raw[Len(p) + 1] = And
    /\ \A i \in 1..Len(q) : raw[Len(p) + 1 + i] = q[i] /\ q[i] # And

\* No separator follows the one between the pieces.
LEMMA SecondPieceWhole ==
    ASSUME NEW raw, NEW p, NEW q, TwoPieces(raw, p, q), NEW i \in (Len(p) + 2)..Len(raw)
    PROVE  raw[i] # And
<1> DEFINE n == Len(p)
           k == i - (n + 1)
<1>1. n \in Nat /\ Len(q) \in Nat /\ Len(raw) = n + 1 + Len(q)
  BY DEF TwoPieces
<1>2. k \in 1..Len(q) /\ n + 1 + k = i
  BY <1>1
<1> HIDE DEF k
<1>3. raw[n + 1 + k] # And
  BY <1>2 DEF TwoPieces
<1> QED BY <1>2, <1>3

\* The pieces begin at the front and behind the separator.
LEMMA TwoStarts ==
    ASSUME NEW raw, NEW p, NEW q, TwoPieces(raw, p, q)
    PROVE  Starts(raw) = {1, Len(p) + 2}
<1> DEFINE n == Len(p)
<1>1. /\ n \in Nat \ {0} /\ Len(q) \in Nat \ {0} /\ Len(raw) = n + 1 + Len(q)
      /\ DOMAIN raw = 1..Len(raw)
  BY DEF TwoPieces
<1>2. /\ \A i \in 1..n : raw[i] # And
      /\ raw[n + 1] = And
  BY DEF TwoPieces
<1>3. \A i \in (n + 2)..Len(raw) : raw[i] # And
  BY SecondPieceWhole
<1> HIDE DEF n
<1>4. ASSUME NEW i \in Starts(raw) PROVE i \in {1, n + 2}
  <2>1. i \in 1..Len(raw) /\ raw[i] # And /\ (i = 1 \/ raw[i - 1] = And)
    BY <1>1 DEF Starts
  <2>2. CASE i # 1
    <3>1. i - 1 \in 1..Len(raw) /\ raw[i - 1] = And
      BY <1>1, <2>1, <2>2
    <3>2. i - 1 = n + 1
      BY <1>1, <1>2, <1>3, <3>1
    <3> QED BY <1>1, <2>1, <3>2
  <2> QED BY <2>2
<1>5. 1 \in Starts(raw)
  BY <1>1, <1>2 DEF Starts
<1>6. n + 2 \in Starts(raw)
  <2>1. n + 2 \in 1..Len(raw) /\ n + 2 - 1 = n + 1 /\ n + 2 \in (n + 2)..Len(raw)
    BY <1>1
  <2> QED BY <1>1, <1>2, <1>3, <2>1 DEF Starts
<1> QED BY <1>4, <1>5, <1>6 DEF n

\* The two starts in their order.
LEMMA StartsInOrder ==
    ASSUME NEW m \in Nat, m > 1
    PROVE  (CHOOSE s \in SetToSeqs({1, m}) : \A i, j \in DOMAIN s : i < j => s[i] < s[j])
               = <<1, m>>
<1> DEFINE S == {1, m}
           ordered(s) == s \in SetToSeqs(S) /\ \A i, j \in DOMAIN s : i < j => s[i] < s[j]
<1>1. Cardinality(S) = 2
  <2>1. IsFiniteSet({m}) /\ Cardinality({m}) = 1
    BY FS_Singleton
  <2>2. S = {m} \cup {1} /\ 1 \notin {m}
    OBVIOUS
  <2> QED BY <2>1, <2>2, FS_AddElement
<1>2. SetToSeqs(S) = {f \in [1..2 -> S] : \A i, j \in 1..2 : i # j => f[i] # f[j]}
  BY <1>1 DEF SetToSeqs
<1>3. ordered(<<1, m>>)
  <2>1. <<1, m>> \in [1..2 -> S]
    OBVIOUS
  <2> QED BY <1>2, <2>1
<1>4. ASSUME NEW s, ordered(s) PROVE s = <<1, m>>
  <2>1. s \in [1..2 -> S] /\ s[1] < s[2]
    BY <1>2, <1>4
  <2>2. s[1] = 1 /\ s[2] = m
    BY <2>1
  <2> QED BY <2>1, <2>2
<1>5. (CHOOSE s \in SetToSeqs(S) : \A i, j \in DOMAIN s : i < j => s[i] < s[j])
         = CHOOSE s : ordered(s)
  OBVIOUS
<1> HIDE DEF ordered
<1> QED BY <1>3, <1>4, <1>5

\* The split gives both pieces back.
LEMMA TwoChunks ==
    ASSUME NEW raw, NEW p \in Seq(Byte), NEW q \in Seq(Byte), TwoPieces(raw, p, q)
    PROVE  Chunks(raw) = <<p, q>>
<1> DEFINE n == Len(p)
<1>1. /\ n \in Nat \ {0} /\ Len(q) \in Nat \ {0} /\ Len(raw) = n + 1 + Len(q)
      /\ raw \in Seq(Byte)
  BY DEF TwoPieces
<1>2. Chunks(raw) = <<PieceAt(raw, 1), PieceAt(raw, n + 2)>>
  <2> DEFINE starts == CHOOSE s \in SetToSeqs({1, n + 2}) :
                          \A i, j \in DOMAIN s : i < j => s[i] < s[j]
  <2>1. Starts(raw) = {1, n + 2}
    BY TwoStarts
  <2>2. Chunks(raw) = [k \in DOMAIN starts |-> PieceAt(raw, starts[k])]
    BY <2>1 DEF Chunks
  <2>3. starts = <<1, n + 2>>
    BY <1>1, StartsInOrder
  <2> HIDE DEF starts, n
  <2>4. DOMAIN starts = 1..2 /\ starts[1] = 1 /\ starts[2] = n + 2
    BY <2>3
  <2> QED BY <2>2, <2>4
<1>3. PieceAt(raw, 1) = p
  <2> DEFINE ends == {j \in 1..Len(raw) : raw[j] = And} \cup {Len(raw) + 1}
  <2>1. ends \in SUBSET Nat /\ n + 1 \in ends /\ \A j \in ends : n + 1 <= j
    BY <1>1 DEF TwoPieces
  <2>2. Min(ends) = n + 1
    <3> HIDE DEF ends
    <3> QED BY <2>1, MinIs
  <2>3. PieceAt(raw, 1) = SubSeq(raw, 1, n)
    <3>1. PieceAt(raw, 1) = SubSeq(raw, 1, Min(ends) - 1)
      BY DEF PieceAt
    <3>2. (n + 1) - 1 = n
      BY <1>1
    <3> HIDE DEF ends, n
    <3> QED BY <2>2, <3>1, <3>2
  <2>4. SubSeq(raw, 1, n) = [i \in 1..n |-> raw[i]]
    BY <1>1
  <2>5. p = [i \in 1..n |-> p[i]]
    OBVIOUS
  <2> QED BY <2>3, <2>4, <2>5 DEF TwoPieces
<1>4. PieceAt(raw, n + 2) = q
  <2> DEFINE ends == {j \in (n + 2)..Len(raw) : raw[j] = And} \cup {Len(raw) + 1}
  <2>1. {j \in (n + 2)..Len(raw) : raw[j] = And} = {}
    <3> SUFFICES ASSUME NEW j \in (n + 2)..Len(raw) PROVE raw[j] # And
      OBVIOUS
    <3> QED BY <1>1, SecondPieceWhole
  <2>2. Min(ends) = Len(raw) + 1
    <3>1. ends = {Len(raw) + 1}
      BY <2>1
    <3>2. ends \in SUBSET Nat /\ Len(raw) + 1 \in ends /\ \A j \in ends : Len(raw) + 1 <= j
      <4>1. Len(raw) + 1 \in Nat /\ Len(raw) + 1 <= Len(raw) + 1
        BY <1>1
      <4> HIDE DEF ends
      <4> QED BY <3>1, <4>1
    <3> HIDE DEF ends
    <3> QED BY <3>2, MinIs
  <2>3. PieceAt(raw, n + 2) = SubSeq(raw, n + 2, Len(raw))
    <3>1. PieceAt(raw, n + 2) = SubSeq(raw, n + 2, Min(ends) - 1)
      BY DEF PieceAt
    <3>2. (Len(raw) + 1) - 1 = Len(raw)
      BY <1>1
    <3> HIDE DEF ends, n
    <3> QED BY <2>2, <3>1, <3>2
  <2>4. SubSeq(raw, n + 2, Len(raw)) = [i \in 1..Len(q) |-> raw[n + 1 + i]]
    BY <1>1
  <2>5. q = [i \in 1..Len(q) |-> q[i]]
    OBVIOUS
  <2> QED BY <2>3, <2>4, <2>5 DEF TwoPieces
<1> QED BY <1>2, <1>3, <1>4

----------------------------------------------------------------------------
(* A form of two pairs, there and back.                                    *)

\* The encoding of two pairs is their joined components, an and between them.
LEMMA PairsLie ==
    ASSUME NEW a \in Seq(FormBytes), NEW b \in Seq(FormBytes)
    PROVE  TwoPieces((<<>> \o a \o <<Equals>> \o b) \o (<<And>> \o b \o <<Equals>> \o a),
                     Joined(a, b), Joined(b, a))
<1> DEFINE p == Joined(a, b)
           q == Joined(b, a)
           first == <<>> \o a \o <<Equals>> \o b
           second == <<And>> \o b \o <<Equals>> \o a
<1>1. /\ a \in Seq(Byte) /\ b \in Seq(Byte) /\ <<Equals>> \in Seq(Byte) /\ <<And>> \in Seq(Byte)
      /\ Len(<<And>>) = 1 /\ <<And>>[1] = And
  BY DEF FormBytes, Byte, And, Equals
<1>2. /\ p \in Seq(FormBytes \cup {Equals}) /\ Len(p) = Len(a) + 1 + Len(b)
      /\ q \in Seq(FormBytes \cup {Equals}) /\ Len(q) = Len(b) + 1 + Len(a)
  BY JoinedBytes
<1>3. Len(a) \in Nat /\ Len(b) \in Nat
  OBVIOUS
<1>4. p \in Seq(Byte) /\ q \in Seq(Byte) /\ Len(p) \in Nat \ {0} /\ Len(q) \in Nat \ {0}
  BY <1>2, <1>3 DEF FormBytes, Byte, And, Equals
<1>5. (\A i \in 1..Len(p) : p[i] # And) /\ (\A i \in 1..Len(q) : q[i] # And)
  <2>1. \A x \in FormBytes \cup {Equals} : x # And
    BY DEF FormBytes, And, Equals
  <2> HIDE DEF p, q
  <2> QED BY <1>2, <2>1
<1>6. first = p
  <2>1. <<>> \o a = a
    OBVIOUS
  <2> QED BY <2>1 DEF Joined
<1>7. second = <<And>> \o q
  <2> HIDE DEF Byte
  <2> QED BY <1>1 DEF Joined
<1> HIDE DEF p, q, first, second
<1>8. /\ <<And>> \o q \in Seq(Byte) /\ Len(<<And>> \o q) = 1 + Len(q)
      /\ (<<And>> \o q)[1] = And
      /\ \A i \in 1..Len(q) : (<<And>> \o q)[1 + i] = q[i]
  <2> HIDE DEF Byte
  <2> QED BY <1>1, <1>4, EndToEnd
<1>9. /\ first \o second \in Seq(Byte)
      /\ Len(first \o second) = Len(p) + Len(second)
      /\ \A i \in 1..Len(p) : (first \o second)[i] = p[i]
      /\ \A i \in 1..Len(second) : (first \o second)[Len(p) + i] = second[i]
  <2>1. second \in Seq(Byte)
    BY <1>7, <1>8
  <2> HIDE DEF Byte
  <2> QED BY <1>4, <1>6, <2>1, EndToEnd
<1>10. Len(second) = 1 + Len(q) /\ second[1] = And /\ \A i \in 1..Len(q) : second[1 + i] = q[i]
  BY <1>7, <1>8
<1>11. Len(first \o second) = Len(p) + 1 + Len(q)
  BY <1>4, <1>9, <1>10
<1>12. (first \o second)[Len(p) + 1] = And
  <2>1. 1 \in 1..Len(second)
    BY <1>4, <1>10
  <2> QED BY <1>9, <1>10, <2>1
<1>13. ASSUME NEW i \in 1..Len(q) PROVE (first \o second)[Len(p) + 1 + i] = q[i]
  <2>1. 1 + i \in 1..Len(second) /\ Len(p) + (1 + i) = Len(p) + 1 + i
    BY <1>4, <1>10
  <2> QED BY <1>9, <1>10, <2>1
<1> QED BY <1>4, <1>5, <1>9, <1>11, <1>12, <1>13 DEF TwoPieces, p, q, first, second

\* Every two texts come back as the two pairs a client made of them.
LEMMA FormComesBack ==
    ASSUME NEW name \in Seq(Byte), NEW value \in Seq(Byte)
    PROVE  HttpPairs(EncodedPairs(<< <<name, value>>, <<value, name>> >>))
               = << <<name, value>>, <<value, name>> >>
<1> DEFINE pairs == << <<name, value>>, <<value, name>> >>
           a == Encoded(name)
           b == Encoded(value)
           raw == EncodedPairs(pairs)
<1>1. a \in Seq(FormBytes) /\ b \in Seq(FormBytes)
  BY EncodedLays
<1>2. HttpDecode(a) = name /\ HttpDecode(b) = value
  BY DecodeEncoded
<1>3. raw = (<<>> \o a \o <<Equals>> \o b) \o (<<And>> \o b \o <<Equals>> \o a)
  <2> DEFINE piece(i) == (IF i = 1 THEN <<>> ELSE <<And>>)
                             \o Encoded(pairs[i][1]) \o <<Equals>> \o Encoded(pairs[i][2])
  <2>1. DOMAIN pairs = 1..2
    OBVIOUS
  <2>2. raw = FlattenSeq([i \in 1..2 |-> piece(i)])
    BY <2>1 DEF EncodedPairs
  <2>3. [i \in 1..2 |-> piece(i)] = <<piece(1), piece(2)>>
    <3> HIDE DEF piece
    <3> QED OBVIOUS
  <2>4. /\ piece(1) = <<>> \o a \o <<Equals>> \o b
        /\ piece(2) = <<And>> \o b \o <<Equals>> \o a
    OBVIOUS
  <2> HIDE DEF piece, raw
  <2> QED BY <2>2, <2>3, <2>4, FlattenTwo
<1> HIDE DEF a, b, raw
<1>4. TwoPieces(raw, Joined(a, b), Joined(b, a))
  BY <1>1, <1>3, PairsLie
<1>5. Joined(a, b) \in Seq(Byte) /\ Joined(b, a) \in Seq(Byte)
  <2>1. FormBytes \cup {Equals} \subseteq Byte
    BY DEF FormBytes, Byte, Equals
  <2> HIDE DEF Byte, FormBytes
  <2> QED BY <1>1, <2>1, JoinedBytes
<1>6. Chunks(raw) = <<Joined(a, b), Joined(b, a)>>
  <2> HIDE DEF Byte
  <2> QED BY <1>4, <1>5, TwoChunks
<1>7. /\ SplitOnce(Joined(a, b)) = <<a, b>> /\ SplitOnce(Joined(b, a)) = <<b, a>>
  BY <1>1, SplitJoined
<1>8. HttpPairs(raw) = [i \in DOMAIN Chunks(raw) |->
                          <<HttpDecode(SplitOnce(Chunks(raw)[i])[1]),
                            HttpDecode(SplitOnce(Chunks(raw)[i])[2])>>]
  BY DEF HttpPairs, Pairs
<1>9. /\ DOMAIN Chunks(raw) = 1..2
      /\ Chunks(raw)[1] = Joined(a, b) /\ Chunks(raw)[2] = Joined(b, a)
  BY <1>6
<1>10. HttpPairs(raw) = << <<HttpDecode(a), HttpDecode(b)>>, <<HttpDecode(b), HttpDecode(a)>> >>
  <2>1. HttpPairs(raw)[1] = <<HttpDecode(a), HttpDecode(b)>>
    BY <1>7, <1>8, <1>9
  <2>2. HttpPairs(raw)[2] = <<HttpDecode(b), HttpDecode(a)>>
    BY <1>7, <1>8, <1>9
  <2>3. HttpPairs(raw) = [i \in 1..2 |-> HttpPairs(raw)[i]]
    BY <1>8, <1>9
  <2> QED BY <2>1, <2>2, <2>3
<1> QED BY <1>2, <1>10 DEF raw

\* A query is made of bytes.
LEMMA QueryIsBytes == Spec => [](query \in Seq(Byte))
<1>1. Init => query \in Seq(Byte)
  BY DEF Init
<1>2. query \in Seq(Byte) /\ [Next]_query => (query \in Seq(Byte))'
  <2>1. Alphabet \subseteq Byte
    BY QueryAssumption DEF Byte
  <2> HIDE DEF Byte
  <2> SUFFICES ASSUME query \in Seq(Byte), [Next]_query PROVE query' \in Seq(Byte)
    OBVIOUS
  <2>2. CASE Next
    <3>1. PICK b \in Byte : query' = Append(query, b)
      BY <2>1, <2>2 DEF Next
    <3> QED BY <3>1
  <2>3. CASE query' = query
    BY <2>3
  <2> QED BY <2>2, <2>3
<1> QED BY <1>1, <1>2, PTL DEF Spec

\* Whatever two texts a client encodes as a form, the scan is shown those two
\* names and those two values: the decoder undoes the encoding, and no byte of
\* theirs is taken for a separator.
THEOREM FormsComeBack == Spec => []FormRoundTrip
<1>1. query \in Seq(Byte) => FormRoundTrip
  <2> DEFINE name(k) == SubSeq(query, 1, k)
             value(k) == SubSeq(query, k + 1, Len(query))
             pairs(k) == << <<name(k), value(k)>>, <<value(k), name(k)>> >>
  <2> SUFFICES ASSUME query \in Seq(Byte), NEW k \in 0..Len(query)
               PROVE  HttpPairs(EncodedPairs(pairs(k))) = pairs(k)
    BY DEF FormRoundTrip
  <2>1. name(k) \in Seq(Byte) /\ value(k) \in Seq(Byte)
    OBVIOUS
  <2> HIDE DEF name, value
  <2> QED BY <2>1, FormComesBack
<1> QED BY <1>1, QueryIsBytes, PTL

=============================================================================
