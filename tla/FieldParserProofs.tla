-------------------------- MODULE FieldParserProofs ---------------------------
(***************************************************************************)
(* Theorems about the field parser, for every text and every INT_MAX: the  *)
(* functions compute what FieldReference says.                             *)
(***************************************************************************)
EXTENDS FieldTexts, TextLemmas

--------------------------------------------------------------------------------
(* parse_retry_value.                                                      *)

(* A digit is no white space.                                              *)
LEMMA DigitIsNoSpace ==
  ASSUME NEW c, IsDigit(c)
  PROVE  ~ IsSpace(c)
<1>1. PICK n \in 1 .. 10 : Digits[n] = c
  BY DEF IsDigit
<1>2. Digits[n] \in {"0", "1", "2", "3", "4", "5", "6", "7", "8", "9"}
  <2>1. n \in {1, 2, 3, 4, 5, 6, 7, 8, 9, 10}
    OBVIOUS
  <2> QED
    BY <2>1 DEF Digits
<1> QED
  BY <1>1, <1>2 DEF IsSpace, Space, CR, LF

(* The reference value of digits, by the same argument.                    *)
LEMMA DecimalEffect ==
  ASSUME NEW s \in Seq(Token), \A i \in 1 .. Len(s) : IsDigit(s[i])
  PROVE  /\ DecimalPrefixes(s) \in [0 .. Len(s) -> Nat]
         /\ DecimalPrefixes(s)[0] = 0
         /\ \A n \in 1 .. Len(s) :
              DecimalPrefixes(s)[n] = 10 * DecimalPrefixes(s)[n - 1] + DigitValue(s[n])
<1> DEFINE Step(x, c) == 10 * x + DigitValue(c)
           step == [x \in Nat \X (1 .. Len(s)) |-> Step(x[1], s[x[2]])]
           IsValue(g) == g = [n \in 0 .. Len(s) |->
                                IF n = 0 THEN 0 ELSE Step(g[n - 1], s[n])]
<1>1. ASSUME NEW x \in Nat, NEW n \in 1 .. Len(s) PROVE Step(x, s[n]) \in Nat
  BY DigitRange
<1>2. Len(s) \in Nat
  OBVIOUS
<1>3. DecimalPrefixes(s) = CHOOSE g : IsValue(g)
  BY DEF DecimalPrefixes
<1> HIDE DEF Step
<1>4. PICK f \in [0 .. Len(s) -> Nat] :
        f[0] = 0 /\ \A n \in 1 .. Len(s) : f[n] = step[<<f[n - 1], n>>]
  <2>1. step \in Steps(Len(s), Nat)
    BY <1>1 DEF Steps
  <2> HIDE DEF step
  <2>2. Iterations(Len(s), Nat, 0, step) # {}
    BY <1>2, <2>1, Iterate
  <2> QED
    BY <2>2 DEF Iterations
<1>5. IsValue(f)
  <2>1. ASSUME NEW n \in 1 .. Len(s) PROVE f[n] = Step(f[n - 1], s[n])
    <3>1. <<f[n - 1], n>> \in Nat \X (1 .. Len(s))
      <4>1. n - 1 \in 0 .. Len(s)
        OBVIOUS
      <4>2. f[n - 1] \in Nat
        BY <4>1
      <4> HIDE DEF step
      <4> QED
        BY <4>2
    <3>2. step[<<f[n - 1], n>>] = Step(f[n - 1], s[n])
      BY <3>1
    <3> QED
      BY <1>4, <3>2
  <2> HIDE DEF step
  <2> QED
    BY <1>2, <1>4, <2>1
<1> HIDE DEF step
<1>6. IsValue(DecimalPrefixes(s))
  <2> HIDE DEF IsValue
  <2> QED
    BY <1>3, <1>5, Zenon
<1> DEFINE D == DecimalPrefixes(s)
<1>7. /\ D[0] = 0
      /\ \A n \in 1 .. Len(s) : D[n] = Step(D[n - 1], s[n])
      /\ D = [n \in 0 .. Len(s) |-> D[n]]
  <2> HIDE DEF D
  <2>1. D = [n \in 0 .. Len(s) |-> IF n = 0 THEN 0 ELSE Step(D[n - 1], s[n])]
    BY <1>6 DEF D
  <2> QED
    BY <1>2, <2>1
<1>8. \A n \in 0 .. Len(s) : D[n] \in Nat
  <2> DEFINE T == {n \in 0 .. Len(s) : D[n] \in Nat}
  <2> HIDE DEF D
  <2>1. 0 \in T
    BY <1>2, <1>7
  <2>2. ASSUME NEW n \in 0 .. Len(s) - 1, n \in T PROVE n + 1 \in T
    <3>1. n + 1 \in 1 .. Len(s) /\ (n + 1) - 1 = n
      BY <1>2
    <3>2. D[n + 1] = Step(D[n], s[n + 1])
      BY <1>7, <3>1
    <3> QED
      BY <1>1, <2>2, <3>1, <3>2
  <2> HIDE DEF T
  <2>3. 0 .. Len(s) \subseteq T
    BY <1>2, <2>1, <2>2, UpTo
  <2> QED
    BY <2>3 DEF T
<1> QED
  BY <1>7, <1>8 DEF Step

(* The digit loop agrees with the reference after every turn: it has the   *)
(* exact value while that fits an int, and None ever after.                *)
LEMMA DigitLoopExact ==
  ASSUME NEW s \in Seq(Token), \A i \in 1 .. Len(s) : IsDigit(s[i]),
         NEW m \in 0 .. Len(s)
  PROVE  DigitLoop(s)[m] = IF DecimalPrefixes(s)[m] <= IntMax
                           THEN DecimalPrefixes(s)[m] ELSE None
<1> DEFINE L == DigitLoop(s)
           D == DecimalPrefixes(s)
           Agree(n) == L[n] = IF D[n] <= IntMax THEN D[n] ELSE None
           T == {n \in 0 .. Len(s) : Agree(n)}
<1>1. /\ L \in [0 .. Len(s) -> Retry] /\ L[0] = 0
      /\ \A n \in 1 .. Len(s) : L[n] = AddDigit(L[n - 1], s[n])
  BY DigitLoopEffect
<1>2. /\ D \in [0 .. Len(s) -> Nat] /\ D[0] = 0
      /\ \A n \in 1 .. Len(s) : D[n] = 10 * D[n - 1] + DigitValue(s[n])
  BY DecimalEffect
<1>3. IntMax \in Nat /\ Len(s) \in Nat
  BY IntMaxIsNat
<1> HIDE DEF L, D
<1>4. 0 \in T
  BY <1>1, <1>2, <1>3
<1>5. ASSUME NEW n \in 0 .. Len(s) - 1, n \in T PROVE n + 1 \in T
  <2> DEFINE d == DigitValue(s[n + 1])
  <2>1. n + 1 \in 1 .. Len(s) /\ (n + 1) - 1 = n /\ n \in 0 .. Len(s)
    BY <1>3
  <2>2. L[n + 1] = AddDigit(L[n], s[n + 1])
    BY <1>1, <2>1
  <2>3. D[n + 1] = 10 * D[n] + d
    BY <1>2, <2>1
  <2>4. IsDigit(s[n + 1]) /\ d \in 0 .. 9
    BY <2>1, DigitRange
  <2>5. D[n] \in Nat
    BY <1>2, <2>1
  <2>6. Agree(n)
    BY <1>5
  <2> HIDE DEF d
  <2>7. CASE D[n] > IntMax
    <3>1. L[n] = None
      BY <1>3, <2>5, <2>6, <2>7
    <3>2. L[n + 1] = None
      BY <2>2, <3>1 DEF AddDigit
    <3>3. ~ (D[n + 1] <= IntMax)
      BY <1>3, <2>3, <2>4, <2>5, <2>7
    <3> QED
      BY <2>1, <3>2, <3>3
  <2>8. CASE ~ (D[n] > IntMax)
    <3>1. L[n] = D[n] /\ D[n] \in 0 .. IntMax
      BY <1>3, <2>5, <2>6, <2>8
    <3>2. L[n] # None
      BY <2>5, <3>1, NoneIsNoNumber
    <3>3. WouldOverflow(D[n], d) <=> D[n] * 10 + d > IntMax
      BY <2>4, <3>1, OverflowTest
    <3>4. L[n + 1] = IF WouldOverflow(D[n], d) THEN None ELSE D[n] * 10 + d
      BY <2>2, <2>4, <3>1, <3>2 DEF AddDigit, d
    <3> QED
      BY <1>3, <2>1, <2>3, <2>4, <2>5, <3>3, <3>4
  <2> QED
    BY <2>7, <2>8
<1> HIDE DEF T
<1>6. 0 .. Len(s) \subseteq T
  BY <1>3, <1>4, <1>5, UpTo
<1> QED
  BY <1>6 DEF T, L, D

(* Once the loop has met something else than a digit, it has failed.       *)
LEMMA DigitLoopFails ==
  ASSUME NEW s \in Seq(Token), NEW i \in 1 .. Len(s), ~ IsDigit(s[i])
  PROVE  DigitLoop(s)[Len(s)] = None
<1> DEFINE L == DigitLoop(s)
           T == {n \in 0 .. Len(s) : n >= i => L[n] = None}
<1>1. \A n \in 1 .. Len(s) : L[n] = AddDigit(L[n - 1], s[n])
  BY DigitLoopEffect
<1>2. Len(s) \in Nat
  OBVIOUS
<1> HIDE DEF L
<1>3. 0 \in T
  BY <1>2
<1>4. ASSUME NEW n \in 0 .. Len(s) - 1, n \in T PROVE n + 1 \in T
  <2>1. n + 1 \in 1 .. Len(s) /\ (n + 1) - 1 = n
    BY <1>2
  <2>2. L[n + 1] = AddDigit(L[n], s[n + 1])
    BY <1>1, <2>1
  <2>3. CASE n + 1 < i
    BY <2>1, <2>3
  <2>4. CASE n + 1 = i
    <3>1. L[n + 1] = None
      BY <2>2, <2>4 DEF AddDigit
    <3> QED
      BY <2>1, <3>1
  <2>5. CASE n >= i
    <3>1. L[n] = None
      BY <1>4, <2>5
    <3>2. L[n + 1] = None
      BY <2>2, <3>1 DEF AddDigit
    <3> QED
      BY <2>1, <3>2
  <2> QED
    BY <2>1, <2>3, <2>4, <2>5
<1> HIDE DEF T
<1>5. 0 .. Len(s) \subseteq T
  BY <1>2, <1>3, <1>4, UpTo
<1> QED
  BY <1>2, <1>5 DEF T, L

(* The only way to cut value into white space, digits, white space is at   *)
(* its first and last token that is no white space.                        *)
LEMMA OnlyCut ==
  ASSUME NEW value \in Seq(Token), NEW a \in Kept(value), NEW b \in Kept(value),
         \A i \in Kept(value) : a <= i /\ i <= b
  PROVE  DigitCuts(value) = IF \A i \in a .. b : IsDigit(value[i])
                            THEN {<<a, b>>} ELSE {}
<1>1. a \in 1 .. Len(value) /\ b \in 1 .. Len(value) /\ a <= b /\ Len(value) \in Nat
  BY DEF Kept
<1>2. ASSUME NEW c \in DigitCuts(value)
      PROVE  c = <<a, b>> /\ \A i \in a .. b : IsDigit(value[i])
  <2>1. /\ c \in (1 .. Len(value)) \X (1 .. Len(value)) /\ c[1] <= c[2]
        /\ \A i \in c[1] .. c[2] : IsDigit(value[i])
        /\ \A i \in (1 .. c[1] - 1) \cup (c[2] + 1 .. Len(value)) : IsSpace(value[i])
    BY DEF DigitCuts
  <2>2. c[1] \in 1 .. Len(value) /\ c[2] \in 1 .. Len(value) /\ c = <<c[1], c[2]>>
    BY <2>1
  <2>3. ~ IsSpace(value[c[1]]) /\ ~ IsSpace(value[c[2]])
    BY <2>1, <2>2, DigitIsNoSpace
  <2>4. a <= c[1] /\ c[2] <= b
    BY <2>2, <2>3 DEF Kept
  <2>5. ~ IsSpace(value[a]) /\ ~ IsSpace(value[b])
    BY DEF Kept
  <2>6. ~ (a < c[1])
    BY <1>1, <2>1, <2>2, <2>5
  <2>7. ~ (c[2] < b)
    BY <1>1, <2>1, <2>2, <2>5
  <2>8. c[1] = a /\ c[2] = b
    BY <1>1, <2>2, <2>4, <2>6, <2>7
  <2> QED
    BY <2>1, <2>2, <2>8
<1>3. ASSUME \A i \in a .. b : IsDigit(value[i])
      PROVE  <<a, b>> \in DigitCuts(value)
  <2>1. ASSUME NEW i \in (1 .. a - 1) \cup (b + 1 .. Len(value))
        PROVE  IsSpace(value[i])
    <3>1. i \in 1 .. Len(value) /\ ~ (a <= i /\ i <= b)
      BY <1>1
    <3> QED
      BY <3>1 DEF Kept
  <2> QED
    BY <1>1, <1>3, <2>1 DEF DigitCuts
<1> QED
  BY <1>2, <1>3

(* For every text and every INT_MAX, parse_retry_value accepts white space *)
(* around nothing but digits whose number fits an int, hands out exactly   *)
(* that number, and refuses all else.                                      *)
THEOREM RetryCorrect ==
  ASSUME NEW value \in Seq(Token)
  PROVE  RetryExact(value)
<1> DEFINE t == Trim(value)
           numbers == {Decimal(SubSeq(value, c[1], c[2])) : c \in DigitCuts(value)}
<1>1. RetryReference(value) = IF \E n \in numbers : n <= IntMax
                              THEN CHOOSE n \in numbers : n <= IntMax ELSE None
  BY DEF RetryReference
<1>2. ParseRetryValue(value) = IF t = <<>> THEN None ELSE DigitLoop(t)[Len(t)]
  BY DEF ParseRetryValue
<1>3. CASE Kept(value) = {}
  <2>1. DigitCuts(value) = {}
    <3>1. ASSUME NEW c \in DigitCuts(value) PROVE FALSE
      <4>1. c[1] \in 1 .. Len(value) /\ IsDigit(value[c[1]])
        BY DEF DigitCuts
      <4> QED
        BY <1>3, <4>1, DigitIsNoSpace DEF Kept
    <3> QED
      BY <3>1
  <2>2. numbers = {}
    BY <2>1
  <2>3. t = <<>>
    BY <1>3, TrimEffect
  <2> HIDE DEF numbers, t
  <2> QED
    BY <1>1, <1>2, <2>2, <2>3 DEF RetryExact
<1>4. CASE Kept(value) # {}
  <2>1. PICK a \in Kept(value), b \in Kept(value) :
          /\ \A i \in Kept(value) : a <= i /\ i <= b
          /\ t = SubSeq(value, a, b)
          /\ Len(t) = b - a + 1
          /\ \A i \in 1 .. b - a + 1 : t[i] = value[a + i - 1]
    BY <1>4, TrimEffect
  <2>2. a \in 1 .. Len(value) /\ b \in 1 .. Len(value) /\ a <= b
    BY <2>1 DEF Kept
  <2>3. t \in Seq(Token)
    BY TrimEffect
  <2>4. (\A i \in a .. b : IsDigit(value[i])) <=> (\A i \in 1 .. Len(t) : IsDigit(t[i]))
    <3>1. ASSUME \A i \in 1 .. Len(t) : IsDigit(t[i]), NEW i \in a .. b
          PROVE  IsDigit(value[i])
      <4>1. i - a + 1 \in 1 .. Len(t) /\ a + (i - a + 1) - 1 = i
        BY <2>1, <2>2
      <4>2. t[i - a + 1] = value[i]
        BY <2>1, <4>1
      <4> QED
        BY <3>1, <4>1, <4>2
    <3>2. ASSUME \A i \in a .. b : IsDigit(value[i]), NEW i \in 1 .. Len(t)
          PROVE  IsDigit(t[i])
      <4>1. a + i - 1 \in a .. b /\ t[i] = value[a + i - 1]
        BY <2>1, <2>2
      <4> QED
        BY <3>2, <4>1
    <3> QED
      BY <3>1, <3>2
  <2>5. t # <<>> /\ Len(t) \in 0 .. Len(t)
    <3>1. Len(t) > 0
      BY <2>1, <2>2
    <3> QED
      BY <2>3, <3>1
  <2>6. DigitCuts(value) = IF \A i \in a .. b : IsDigit(value[i])
                           THEN {<<a, b>>} ELSE {}
    BY <2>1, OnlyCut
  <2>7. CASE \A i \in 1 .. Len(t) : IsDigit(t[i])
    <3>1. numbers = {Decimal(t)}
      <4>1. DigitCuts(value) = {<<a, b>>}
        BY <2>4, <2>6, <2>7
      <4>2. numbers = {Decimal(SubSeq(value, a, b))}
        BY <4>1
      <4> QED
        BY <2>1, <4>2
    <3>2. DigitLoop(t)[Len(t)] = IF Decimal(t) <= IntMax THEN Decimal(t) ELSE None
      BY <2>3, <2>5, <2>7, DigitLoopExact DEF Decimal
    <3> HIDE DEF numbers, t
    <3> QED
      BY <1>1, <1>2, <2>5, <3>1, <3>2 DEF RetryExact
  <2>8. CASE ~ \A i \in 1 .. Len(t) : IsDigit(t[i])
    <3>1. numbers = {}
      BY <2>4, <2>6, <2>8
    <3>2. DigitLoop(t)[Len(t)] = None
      BY <2>3, <2>8, DigitLoopFails
    <3> HIDE DEF numbers, t
    <3> QED
      BY <1>1, <1>2, <3>1, <3>2 DEF RetryExact
  <2> QED
    BY <2>7, <2>8
<1> QED
  BY <1>3, <1>4

--------------------------------------------------------------------------------
(* parse_field_line.                                                       *)

(* A text that starts with a space is that space and its tail.             *)
LEMMA SpaceAndTail ==
  ASSUME NEW rest \in Seq(Token), rest # <<>>, rest[1] = Space
  PROVE  Tail(rest) \in Seq(Token) /\ rest = <<Space>> \o Tail(rest)
<1>1. Len(rest) \in Nat /\ Len(rest) > 0
  OBVIOUS
<1>2. Tail(rest) = SubSeq(rest, 2, Len(rest)) /\ Tail(rest) \in Seq(Token)
  BY TailIsSubSeq, HeadTailProperties
<1>3. SubSeq(rest, 1, Len(rest)) = <<rest[1]>> \o SubSeq(rest, 1 + 1, Len(rest))
  BY <1>1, SubSeqRecursiveFirst
<1>4. SubSeq(rest, 1, Len(rest)) = rest
  BY SubSeqFull
<1>5. 1 + 1 = 2
  OBVIOUS
<1> QED
  BY <1>2, <1>3, <1>4, <1>5

(* Two tokens are a text.                                                  *)
LEMMA TwoTokens ==
  ASSUME NEW a \in Token, NEW b \in Token
  PROVE  <<a, b>> \in Seq(Token) /\ <<a>> \o <<b>> = <<a, b>>
<1>1. /\ <<a>> \in Seq(Token) /\ <<b>> \in Seq(Token) /\ <<a, b>> \in Seq(Token)
      /\ Len(<<a>>) = 1 /\ Len(<<b>>) = 1 /\ Len(<<a, b>>) = 2
      /\ <<a>>[1] = a /\ <<b>>[1] = b /\ <<a, b>>[1] = a /\ <<a, b>>[2] = b
  OBVIOUS
<1> DEFINE u == <<a>>
           v == <<b>>
           w == <<a, b>>
<1> HIDE DEF u, v, w
<1>2. /\ u \in Seq(Token) /\ v \in Seq(Token) /\ w \in Seq(Token)
      /\ Len(u) = 1 /\ Len(v) = 1 /\ Len(w) = 2
      /\ u[1] = a /\ v[1] = b /\ w[1] = a /\ w[2] = b
  BY <1>1 DEF u, v, w
<1>3. /\ u \o v \in Seq(Token) /\ Len(u \o v) = Len(u) + Len(v)
      /\ \A i \in 1 .. Len(u) + Len(v) :
           (u \o v)[i] = IF i <= Len(u) THEN u[i] ELSE v[i - Len(u)]
  BY <1>2, ConcatProperties
<1>4. u \o v = w
  BY <1>2, <1>3, SeqEqual
<1> QED
  BY <1>1, <1>4 DEF u, v, w

(* For every line, parse_field_line splits at the first colon and drops at *)
(* most one space: nothing else is lost.                                   *)
THEOREM SplitCorrect ==
  ASSUME NEW line \in Seq(Token)
  PROVE  SplitExact(line)
<1>1. CASE HasColon(line)
  <2> DEFINE k == FirstColon(line)
             name == SubSeq(line, 1, k - 1)
             rest == SubSeq(line, k + 1, Len(line))
             value == StripSpace(rest)
  <2>1. /\ k \in 1 .. Len(line) /\ Len(line) \in Nat
        /\ line[k] = Colon /\ \A j \in 1 .. k - 1 : line[j] # Colon
    BY <1>1, ColonEffect
  <2>2. FieldName(line) = name /\ FieldValue(line) = value
    BY <1>1 DEF FieldName, FieldValue
  <2> HIDE DEF k
  <2>3. /\ name \in Seq(Token) /\ rest \in Seq(Token)
        /\ Len(name) = k - 1
        /\ \A i \in 1 .. k - 1 : name[i] = line[i]
    <3>1. /\ name \in Seq(Token) /\ Len(name) = (k - 1) - 1 + 1
          /\ \A i \in 1 .. (k - 1) - 1 + 1 : name[i] = line[1 + i - 1]
      <4>1. 1 \in 1 .. Len(line) + 1 /\ k - 1 \in 0 .. Len(line) /\ 1 <= (k - 1) + 1
        BY <2>1
      <4> QED
        BY <4>1, Piece
    <3>2. rest \in Seq(Token)
      BY <2>1, Piece
    <3> HIDE DEF name, rest
    <3> QED
      BY <2>1, <3>1, <3>2
  <2>4. line = name \o (<<Colon>> \o rest)
    <3>1. line = SubSeq(line, 1, Len(line))
      BY SubSeqFull
    <3>2. SubSeq(line, 1, Len(line)) = name \o SubSeq(line, (k - 1) + 1, Len(line))
      <4>1. /\ 1 \in 1 .. Len(line) + 1 /\ k - 1 \in 1 - 1 .. Len(line)
            /\ Len(line) \in k - 1 .. Len(line)
        BY <2>1
      <4> QED
        BY <4>1, ConcatAdjacentSubSeq
    <3>3. (k - 1) + 1 = k
      BY <2>1
    <3>4. SubSeq(line, k, Len(line)) = <<line[k]>> \o rest
      BY <2>1, SubSeqRecursiveFirst
    <3> HIDE DEF name, rest
    <3> QED
      BY <2>1, <3>1, <3>2, <3>3, <3>4
  <2>5. <<Colon>> \in Seq(Token) /\ <<Space>> \in Seq(Token)
    <3>1. Colon \in Token /\ Space \in Token
      BY FieldParserAssumption
    <3> QED
      BY <3>1
  <2>6. CASE rest = <<>> \/ rest[1] # Space
    <3>1. value = rest
      BY <2>6 DEF StripSpace
    <3> HIDE DEF name, rest, value
    <3>2. line = name \o <<Colon>> \o value
      BY <2>3, <2>4, <2>5, <3>1, ConcatAssociative
    <3> QED
      BY <2>1, <2>2, <2>3, <2>6, <3>1, <3>2 DEF SplitExact
  <2>7. CASE ~ (rest = <<>> \/ rest[1] # Space)
    <3>1. value = Tail(rest)
      BY <2>7 DEF StripSpace
    <3> HIDE DEF name, rest, value
    <3>2. value \in Seq(Token) /\ rest = <<Space>> \o value
      BY <2>3, <2>5, <2>7, <3>1, SpaceAndTail
    <3>3. <<Colon>> \o rest = <<Colon, Space>> \o value
      <4>1. <<Colon>> \o (<<Space>> \o value) = (<<Colon>> \o <<Space>>) \o value
        BY <2>5, <3>2, ConcatAssociative
      <4>2. <<Colon>> \o <<Space>> = <<Colon, Space>>
        BY FieldParserAssumption, TwoTokens
      <4> QED
        BY <3>2, <4>1, <4>2
    <3>4. <<Colon, Space>> \in Seq(Token)
      BY FieldParserAssumption, TwoTokens
    <3>5. line = name \o <<Colon, Space>> \o value
      <4> DEFINE sep == <<Colon, Space>>
      <4>1. line = name \o (sep \o value)
        BY <2>4, <3>3
      <4>2. sep \in Seq(Token) /\ value \in Seq(Token) /\ name \in Seq(Token)
        BY <2>3, <3>2, <3>4
      <4> HIDE DEF sep
      <4>3. name \o (sep \o value) = (name \o sep) \o value
        BY <4>2, ConcatAssociative
      <4> QED
        BY <4>1, <4>3 DEF sep
    <3> QED
      BY <2>1, <2>2, <2>3, <3>5 DEF SplitExact
  <2> QED
    BY <2>6, <2>7
<1>2. CASE ~ HasColon(line)
  BY <1>2 DEF SplitExact, FieldName, HasColon
<1> QED
  BY <1>1, <1>2

--------------------------------------------------------------------------------
(* The same for the machine whose states are the texts.                    *)

(* Every state is a text.                                                  *)
IsText == text \in Seq(Token)

LEMMA AlwaysText == Spec => []IsText
<1>1. Init => IsText
  BY DEF Init, IsText
<1>2. IsText /\ [Next]_text => IsText'
  <2> SUFFICES ASSUME IsText, [Next]_text PROVE IsText'
    OBVIOUS
  <2>1. ASSUME NEW c \in Alphabet, Grow(c) PROVE IsText'
    BY <2>1, FieldTextsAssumption DEF Grow, IsText
  <2>2. CASE UNCHANGED text
    BY <2>2 DEF IsText
  <2> QED
    BY <2>1, <2>2 DEF Next
<1> QED
  BY <1>1, <1>2, PTL DEF Spec

(* parse_retry_value accepts exactly the numbers that fit an int, written  *)
(* with any number of digits and of white space around them.               *)
THEOREM RetryAlwaysExact == Spec => []RetryIsExact
<1>1. IsText => RetryIsExact
  BY RetryCorrect DEF IsText, RetryIsExact
<1> QED
  BY <1>1, AlwaysText, PTL

(* parse_field_line splits every line at its first colon and drops at most *)
(* one space.                                                              *)
THEOREM SplitAlwaysExact == Spec => []SplitIsExact
<1>1. IsText => SplitIsExact
  BY SplitCorrect DEF IsText, SplitIsExact
<1> QED
  BY <1>1, AlwaysText, PTL

================================================================================
