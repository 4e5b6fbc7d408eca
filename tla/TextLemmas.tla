------------------------------ MODULE TextLemmas ------------------------------
(***************************************************************************)
(* Lemmas about texts, for every alphabet and every INT_MAX: what fields   *)
(* are made of, what one more line adds to a block, and one more piece to  *)
(* a text.                                                                 *)
(***************************************************************************)
EXTENDS MessageBlocks, SequenceTheorems, WellFoundedInduction, TLAPS

--------------------------------------------------------------------------------
(* Induction and recursion on the natural numbers, stated with sets and    *)
(* functions in place of predicates and definitions, so that they can be   *)
(* cited for the scans of the parser, whose recursion is over positions.   *)

(* A set of naturals that is not empty has a least element.                *)
LEMMA LeastNat ==
  ASSUME NEW T, T \subseteq Nat, T # {}
  PROVE  \E i \in T : \A j \in T : i <= j
<1>1. PICK i \in T : \A j \in T : ~ (<<j, i>> \in OpToRel(<, Nat))
  BY NatLessThanWellFounded, WFMin
<1>2. \A j \in T : ~ (j < i)
  BY <1>1 DEF OpToRel
<1> QED
  BY <1>2

(* A set of naturals with an upper bound has a greatest element.           *)
LEMMA GreatestNat ==
  ASSUME NEW k \in Nat, NEW T, T \subseteq 0 .. k, T # {}
  PROVE  \E i \in T : \A j \in T : i >= j
<1> DEFINE U == {n \in Nat : \A j \in T : j <= n}
<1>1. PICK n \in U : \A m \in U : n <= m
  <2>1. k \in U
    OBVIOUS
  <2> QED
    BY <2>1, LeastNat
<1>2. n \in T
  <2>1. SUFFICES ASSUME n \notin T PROVE FALSE
    OBVIOUS
  <2>2. n # 0
    <3>1. PICK j \in T : TRUE
      OBVIOUS
    <3>2. j \in Nat /\ j <= n /\ j # n
      BY <1>1, <2>1
    <3> QED
      BY <3>2
  <2>3. n - 1 \in U
    BY <1>1, <2>1, <2>2
  <2> QED
    BY <1>1, <2>3
<1> QED
  BY <1>1, <1>2

(* Induction up to k: a set that contains 0, and n + 1 whenever it         *)
(* contains n, contains every number up to k.                              *)
LEMMA UpTo ==
  ASSUME NEW k \in Nat, NEW T, 0 \in T,
         \A n \in 0 .. k - 1 : n \in T => n + 1 \in T
  PROVE  0 .. k \subseteq T
<1> DEFINE bad == (0 .. k) \ T
<1>1. SUFFICES ASSUME bad # {} PROVE FALSE
  OBVIOUS
<1>2. PICK n \in bad : \A m \in bad : n <= m
  <2>1. bad \subseteq Nat
    OBVIOUS
  <2> HIDE DEF bad
  <2> QED
    BY <1>1, <2>1, LeastNat
<1>3. n # 0 /\ n - 1 \in 0 .. k - 1
  BY <1>2
<1>4. n - 1 \notin bad
  BY <1>2, <1>3
<1> QED
  BY <1>2, <1>3, <1>4

(* Recursion up to k: the functions that start with zero and step on.      *)
Steps(k, V) == [V \X (1 .. k) -> V]

Iterations(k, V, zero, step) ==
  {f \in [0 .. k -> V] :
     f[0] = zero /\ \A n \in 1 .. k : f[n] = step[<<f[n - 1], n>>]}

(* There is one.                                                           *)
LEMMA Iterate ==
  ASSUME NEW k \in Nat, NEW V, NEW zero \in V, NEW step \in Steps(k, V)
  PROVE  Iterations(k, V, zero, step) # {}
<1> USE DEF Steps
<1> DEFINE Until(n, f) == f[0] = zero /\ \A i \in 1 .. n : f[i] = step[<<f[i - 1], i>>]
           T == {n \in 0 .. k : \E f \in [0 .. k -> V] : Until(n, f)}
<1>1. 0 \in T
  <2>1. [i \in 0 .. k |-> zero] \in [0 .. k -> V]
    OBVIOUS
  <2>2. Until(0, [i \in 0 .. k |-> zero]) /\ 0 \in 0 .. k
    OBVIOUS
  <2> HIDE DEF Until
  <2> QED
    BY <2>1, <2>2, Zenon
<1>2. ASSUME NEW n \in 0 .. k - 1, n \in T PROVE n + 1 \in T
  <2>1. PICK f \in [0 .. k -> V] : Until(n, f)
    BY <1>2
  <2> DEFINE next == step[<<f[n], n + 1>>]
             g == [f EXCEPT ![n + 1] = next]
  <2>2. next \in V
    <3>1. f[n] \in V /\ n + 1 \in 1 .. k
      OBVIOUS
    <3>2. <<f[n], n + 1>> \in V \X (1 .. k)
      BY <3>1
    <3> QED
      BY <3>2
  <2>3. g \in [0 .. k -> V]
    BY <2>2
  <2>4. /\ n + 1 \in 0 .. k /\ g[n + 1] = next
        /\ \A i \in 0 .. n : g[i] = f[i]
    OBVIOUS
  <2> HIDE DEF g
  <2> HIDE DEF next
  <2>5. ASSUME NEW i \in 1 .. n + 1 PROVE g[i] = step[<<g[i - 1], i>>]
    <3>1. CASE i = n + 1
      <4>1. i - 1 = n /\ g[i - 1] = f[n]
        BY <2>4, <3>1
      <4> QED
        BY <2>4, <3>1, <4>1 DEF next
    <3>2. CASE i # n + 1
      BY <2>1, <2>4, <3>2
    <3> QED
      BY <3>1, <3>2
  <2>6. g[0] = zero
    BY <2>1, <2>4
  <2> QED
    BY <2>3, <2>4, <2>5, <2>6
<1>3. k \in T
  <2> HIDE DEF T
  <2>1. 0 .. k \subseteq T
    BY <1>1, <1>2, UpTo
  <2> QED
    BY <2>1
<1>4. PICK f \in [0 .. k -> V] : Until(k, f)
  BY <1>3
<1> QED
  BY <1>4 DEF Iterations

--------------------------------------------------------------------------------
(* Fields: what the loops of parse_retry_value return, and the parts of a  *)
(* line.                                                                   *)

(* What val may hold between two turns of the digit loop.                  *)
Retry == 0 .. IntMax \cup {None}

(* None, read as a number, is none.                                        *)
LEMMA NoneIsNoNumber == None \notin Nat
  BY FieldParserAssumption

(* INT_MAX is a number.                                                    *)
LEMMA IntMaxIsNat == IntMax \in Nat
  BY FieldParserAssumption

(* The loop starts with an int.                                            *)
LEMMA ZeroIsRetry == 0 \in Retry
  BY IntMaxIsNat DEF Retry

(* A digit is worth 0 to 9.                                                *)
LEMMA DigitRange ==
  ASSUME NEW c, IsDigit(c)
  PROVE  DigitValue(c) \in 0 .. 9
<1> DEFINE d == CHOOSE n \in 1 .. 10 : Digits[n] = c
<1>1. d \in 1 .. 10
  BY DEF IsDigit
<1> HIDE DEF d
<1>2. d - 1 \in 0 .. 9
  BY <1>1
<1> QED
  BY <1>2 DEF DigitValue, d

(* The overflow tests of one turn say whether the exact result fits; the   *)
(* second one is reached only when its product fits as well.               *)
LEMMA OverflowTest ==
  ASSUME NEW val \in 0 .. IntMax, NEW d \in 0 .. 9
  PROVE  /\ WouldOverflow(val, d) <=> val * 10 + d > IntMax
         /\ ~ (val > IntMax \div 10) => val * 10 <= IntMax
<1>1. IntMax \in Nat
  BY IntMaxIsNat
<1> DEFINE q == IntMax \div 10
<1>2. q \in Nat /\ 10 * q <= IntMax /\ IntMax < 10 * q + 10
  BY <1>1
<1> HIDE DEF q
<1>3. val > q <=> val * 10 > IntMax
  BY <1>1, <1>2
<1>4. WouldOverflow(val, d) <=> val > q \/ val * 10 > IntMax - d
  BY DEF WouldOverflow, q
<1>5. WouldOverflow(val, d) <=> val * 10 + d > IntMax
  BY <1>1, <1>3, <1>4
<1> QED
  BY <1>1, <1>3, <1>5 DEF q

(* One turn keeps val an int.                                              *)
LEMMA AddDigitType ==
  ASSUME NEW val \in Retry, NEW c
  PROVE  AddDigit(val, c) \in Retry
<1>1. CASE val = None \/ ~ IsDigit(c)
  BY <1>1 DEF AddDigit, Retry
<1>2. CASE val # None /\ IsDigit(c)
  <2>1. val \in 0 .. IntMax /\ DigitValue(c) \in 0 .. 9 /\ IntMax \in Nat
    BY <1>2, DigitRange, IntMaxIsNat DEF Retry
  <2>2. CASE WouldOverflow(val, DigitValue(c))
    BY <1>2, <2>2 DEF AddDigit, Retry
  <2>3. CASE ~ WouldOverflow(val, DigitValue(c))
    <3>1. val * 10 + DigitValue(c) <= IntMax /\ val * 10 + DigitValue(c) \in Nat
      BY <2>1, <2>3, OverflowTest
    <3>2. AddDigit(val, c) = val * 10 + DigitValue(c)
      BY <1>2, <2>3 DEF AddDigit
    <3> QED
      BY <2>1, <3>1, <3>2 DEF Retry
  <2> QED
    BY <2>2, <2>3
<1> QED
  BY <1>1, <1>2

(* The digit loop has a value after each turn, an int or None, computed    *)
(* from the one before.                                                    *)
LEMMA DigitLoopEffect ==
  ASSUME NEW s \in Seq(Token)
  PROVE  /\ DigitLoop(s) \in [0 .. Len(s) -> Retry]
         /\ DigitLoop(s)[0] = 0
         /\ \A n \in 1 .. Len(s) :
              DigitLoop(s)[n] = AddDigit(DigitLoop(s)[n - 1], s[n])
<1> DEFINE step == [x \in Retry \X (1 .. Len(s)) |-> AddDigit(x[1], s[x[2]])]
<1>1. step \in [Retry \X (1 .. Len(s)) -> Retry]
  BY AddDigitType
<1>2. Len(s) \in Nat
  OBVIOUS
<1>3. PICK f \in [0 .. Len(s) -> Retry] :
        f[0] = 0 /\ \A n \in 1 .. Len(s) : f[n] = step[<<f[n - 1], n>>]
  <2> HIDE DEF step
  <2>1. step \in Steps(Len(s), Retry)
    BY <1>1 DEF Steps
  <2>2. Iterations(Len(s), Retry, 0, step) # {}
    BY <1>2, <2>1, ZeroIsRetry, Iterate
  <2> QED
    BY <2>2 DEF Iterations
<1> DEFINE IsLoop(g) == g = [n \in 0 .. Len(s) |->
                               IF n = 0 THEN 0 ELSE AddDigit(g[n - 1], s[n])]
<1>4. IsLoop(f)
  <2>1. ASSUME NEW n \in 1 .. Len(s) PROVE f[n] = AddDigit(f[n - 1], s[n])
    <3>1. <<f[n - 1], n>> \in Retry \X (1 .. Len(s))
      <4>1. n - 1 \in 0 .. Len(s)
        OBVIOUS
      <4>2. f[n - 1] \in Retry
        BY <4>1
      <4> HIDE DEF step
      <4> QED
        BY <4>2
    <3>2. step[<<f[n - 1], n>>] = AddDigit(f[n - 1], s[n])
      BY <3>1
    <3> QED
      BY <1>3, <3>2
  <2> HIDE DEF step
  <2> QED
    BY <1>2, <1>3, <2>1
<1> HIDE DEF step
<1>5. DigitLoop(s) = CHOOSE g : IsLoop(g)
  BY DEF DigitLoop
<1>6. IsLoop(DigitLoop(s))
  <2> HIDE DEF IsLoop
  <2> QED
    BY <1>4, <1>5, Zenon
<1> DEFINE L == DigitLoop(s)
<1>7. /\ L[0] = 0
      /\ \A n \in 1 .. Len(s) : L[n] = AddDigit(L[n - 1], s[n])
      /\ L = [n \in 0 .. Len(s) |-> L[n]]
  <2> HIDE DEF L
  <2>1. L = [n \in 0 .. Len(s) |-> IF n = 0 THEN 0 ELSE AddDigit(L[n - 1], s[n])]
    BY <1>6 DEF L
  <2> QED
    BY <1>2, <2>1
<1>8. \A n \in 0 .. Len(s) : L[n] \in Retry
  <2> DEFINE T == {n \in 0 .. Len(s) : L[n] \in Retry}
  <2> HIDE DEF L
  <2>1. 0 \in T
    BY <1>2, <1>7, ZeroIsRetry
  <2>2. ASSUME NEW n \in 0 .. Len(s) - 1, n \in T PROVE n + 1 \in T
    <3>1. n + 1 \in 1 .. Len(s) /\ (n + 1) - 1 = n
      BY <1>2
    <3>2. L[n + 1] = AddDigit(L[n], s[n + 1])
      BY <1>7, <3>1
    <3> QED
      BY <2>2, <3>1, <3>2, AddDigitType
  <2> HIDE DEF T
  <2>3. 0 .. Len(s) \subseteq T
    BY <1>2, <2>1, <2>2, UpTo
  <2> QED
    BY <2>3 DEF T
<1> QED
  BY <1>7, <1>8

(* What is left between the white space at both ends of value.             *)
Kept(value) == {i \in 1 .. Len(value) : ~ IsSpace(value[i])}

(* Trim cuts at the first and the last token that is no white space.       *)
LEMMA TrimEffect ==
  ASSUME NEW value \in Seq(Token)
  PROVE  /\ Trim(value) \in Seq(Token)
         /\ Kept(value) = {} => Trim(value) = <<>>
         /\ Kept(value) # {} =>
              \E a, b \in Kept(value) :
                /\ \A i \in Kept(value) : a <= i /\ i <= b
                /\ Trim(value) = SubSeq(value, a, b)
                /\ Len(Trim(value)) = b - a + 1
                /\ \A i \in 1 .. b - a + 1 : Trim(value)[i] = value[a + i - 1]
<1>1. CASE Kept(value) = {}
  BY <1>1 DEF Trim, Kept
<1>2. CASE Kept(value) # {}
  <2> DEFINE K == Kept(value)
             a == CHOOSE i \in K : \A j \in K : i <= j
             b == CHOOSE i \in K : \A j \in K : i >= j
  <2>1. K \subseteq 0 .. Len(value) /\ K \subseteq Nat /\ Len(value) \in Nat
    BY DEF Kept
  <2> HIDE DEF K
  <2>2. /\ \E i \in K : \A j \in K : i <= j
        /\ \E i \in K : \A j \in K : i >= j
    BY <1>2, <2>1, LeastNat, GreatestNat DEF K
  <2>3. a \in K /\ \A j \in K : a <= j
    BY <2>2
  <2>4. b \in K /\ \A j \in K : b >= j
    BY <2>2
  <2>5. Trim(value) = SubSeq(value, a, b)
    BY <1>2 DEF Trim, Kept, K
  <2> HIDE DEF a, b
  <2>6. a \in 1 .. Len(value) /\ b \in 1 .. Len(value) /\ a <= b
    BY <2>3, <2>4 DEF K, Kept
  <2>7. \A i \in a .. b : value[i] \in Token
    BY <2>6
  <2>8. /\ Trim(value) \in Seq(Token)
        /\ Len(Trim(value)) = IF a <= b THEN b - a + 1 ELSE 0
        /\ \A i \in 1 .. b - a + 1 : Trim(value)[i] = value[a + i - 1]
    BY <2>5, <2>6, <2>7, SubSeqProperties
  <2>9. Len(Trim(value)) = b - a + 1
    BY <2>6, <2>8
  <2> QED
    BY <1>2, <2>1, <2>3, <2>4, <2>5, <2>8, <2>9 DEF K
<1> QED
  BY <1>1, <1>2

(* The parser of retry values never hands out anything but an int.         *)
LEMMA RetryType ==
  ASSUME NEW value \in Seq(Token)
  PROVE  ParseRetryValue(value) \in Retry
<1>1. Trim(value) \in Seq(Token)
  BY TrimEffect
<1>2. DigitLoop(Trim(value))[Len(Trim(value))] \in Retry
  <2>1. Len(Trim(value)) \in 0 .. Len(Trim(value))
    BY <1>1
  <2> QED
    BY <1>1, <2>1, DigitLoopEffect
<1>3. None \in Retry
  BY DEF Retry
<1> QED
  BY <1>2, <1>3 DEF ParseRetryValue

(* line.find(':') gives a colon with no colon before it.                   *)
LEMMA ColonEffect ==
  ASSUME NEW line \in Seq(Token), HasColon(line)
  PROVE  /\ FirstColon(line) \in 1 .. Len(line)
         /\ line[FirstColon(line)] = Colon
         /\ \A j \in 1 .. FirstColon(line) - 1 : line[j] # Colon
<1> DEFINE C == {i \in 1 .. Len(line) : line[i] = Colon}
           First(i) == line[i] = Colon /\ \A j \in 1 .. i - 1 : line[j] # Colon
<1>1. Len(line) \in Nat
  OBVIOUS
<1>2. PICK i \in C : \A j \in C : i <= j
  <2>1. C # {} /\ C \subseteq Nat
    BY DEF HasColon
  <2> HIDE DEF C
  <2> QED
    BY <2>1, LeastNat
<1>3. i \in 1 .. Len(line) /\ First(i)
  BY <1>1, <1>2
<1>4. FirstColon(line) = CHOOSE k \in 1 .. Len(line) : First(k)
  BY DEF FirstColon
<1>5. FirstColon(line) \in 1 .. Len(line) /\ First(FirstColon(line))
  <2> HIDE DEF First
  <2> QED
    BY <1>3, <1>4
<1> QED
  BY <1>5

(* The piece of a line from m to n.                                        *)
LEMMA Piece ==
  ASSUME NEW line \in Seq(Token), NEW m \in 1 .. Len(line) + 1, NEW n \in 0 .. Len(line),
         m <= n + 1
  PROVE  /\ SubSeq(line, m, n) \in Seq(Token)
         /\ Len(SubSeq(line, m, n)) = n - m + 1
         /\ \A i \in 1 .. n - m + 1 : SubSeq(line, m, n)[i] = line[m + i - 1]
<1>1. Len(line) \in Nat
  OBVIOUS
<1>2. m \in Int /\ n \in Int /\ \A i \in m .. n : line[i] \in Token
  BY <1>1
<1> DEFINE x == SubSeq(line, m, n)
<1>3. /\ x \in Seq(Token)
      /\ Len(x) = IF m <= n THEN n - m + 1 ELSE 0
      /\ \A i \in 1 .. n - m + 1 : x[i] = line[m + i - 1]
  BY <1>2, SubSeqProperties
<1> HIDE DEF x
<1>4. Len(x) = n - m + 1
  BY <1>1, <1>3
<1> QED
  BY <1>3, <1>4 DEF x

(* Removing the space leaves a text, or removes a first space.             *)
LEMMA StripSpaceEffect ==
  ASSUME NEW value \in Seq(Token)
  PROVE  StripSpace(value) \in Seq(Token)
<1>1. value # <<>> => Tail(value) \in Seq(Token)
  BY HeadTailProperties
<1> QED
  BY <1>1 DEF StripSpace

(* Name and value are texts.                                               *)
LEMMA PartsType ==
  ASSUME NEW line \in Seq(Token)
  PROVE  FieldName(line) \in Seq(Token) /\ FieldValue(line) \in Seq(Token)
<1>1. CASE HasColon(line)
  <2> DEFINE k == FirstColon(line)
  <2>1. k \in 1 .. Len(line) /\ Len(line) \in Nat
    BY <1>1, ColonEffect
  <2>2. FieldName(line) = SubSeq(line, 1, k - 1)
    BY <1>1 DEF FieldName
  <2>3. FieldValue(line) = StripSpace(SubSeq(line, k + 1, Len(line)))
    BY <1>1 DEF FieldValue
  <2> HIDE DEF k
  <2>4. SubSeq(line, 1, k - 1) \in Seq(Token) /\ SubSeq(line, k + 1, Len(line)) \in Seq(Token)
    BY <2>1, Piece
  <2> QED
    BY <2>2, <2>3, <2>4, StripSpaceEffect
<1>2. CASE ~ HasColon(line)
  BY <1>2, EmptySeq DEF FieldName, FieldValue
<1> QED
  BY <1>1, <1>2

(* Whatever the line, the message stays well formed and the error is one   *)
(* of two.                                                                 *)
LEMMA ParseFieldLineType ==
  ASSUME NEW line \in Seq(Token), NEW msg \in Message
  PROVE  ParseFieldLine(line, msg) \in [err : {"success", "invalid_retry"}, msg : Message]
<1> DEFINE value == FieldValue(line)
           retry == ParseRetryValue(value)
<1>1. value \in Seq(Token)
  BY PartsType
<1>2. retry \in 0 .. IntMax \cup {None}
  <2> HIDE DEF value
  <2> QED
    BY <1>1, RetryType DEF Retry
<1> HIDE DEF value, retry
<1>3. /\ [msg EXCEPT !.event = value] \in Message
      /\ [msg EXCEPT !.data = value] \in Message
      /\ [msg EXCEPT !.id = value] \in Message
      /\ [msg EXCEPT !.retry = retry] \in Message
  BY <1>1, <1>2 DEF Message
<1>4. CASE IsComment(line)
  BY <1>4 DEF ParseFieldLine
<1>5. CASE ~ IsComment(line)
  BY <1>3, <1>5 DEF ParseFieldLine, value, retry
<1> QED
  BY <1>4, <1>5

--------------------------------------------------------------------------------
(* Blocks.                                                                 *)

Block == Seq(Seq(Token))

--------------------------------------------------------------------------------
(* Single lines.                                                           *)

(* What parse_field_line finds in a line, starting from a fresh message.   *)
LEMMA ParsedFields ==
  ASSUME NEW line \in Seq(Token)
  PROVE  LET parsed == ParseFieldLine(line, DefaultMessage)
             value == FieldValue(line)
         IN  /\ parsed.msg.event = IF IsField(line, "event") THEN value ELSE <<"message">>
             /\ parsed.msg.id = IF IsField(line, "id") THEN value ELSE None
             /\ parsed.msg.retry = IF IsField(line, "retry")
                                   THEN ParseRetryValue(value) ELSE None
             /\ parsed.err = IF IsField(line, "retry") /\ ParseRetryValue(value) = None
                             THEN "invalid_retry" ELSE "success"
<1> DEFINE value == FieldValue(line)
           retry == ParseRetryValue(value)
           name == FieldName(line)
<1> HIDE DEF value, retry, name
<1>1. CASE IsComment(line)
  BY <1>1 DEF ParseFieldLine, IsField, DefaultMessage
<1>2. CASE ~ IsComment(line)
  <2>1. /\ IsField(line, "event") <=> name = <<"event">>
        /\ IsField(line, "data") <=> name = <<"data">>
        /\ IsField(line, "id") <=> name = <<"id">>
        /\ IsField(line, "retry") <=> name = <<"retry">>
    BY <1>2 DEF IsField, name
  <2>2. /\ <<"event">> # <<"data">> /\ <<"event">> # <<"id">> /\ <<"event">> # <<"retry">>
        /\ <<"data">> # <<"id">> /\ <<"data">> # <<"retry">> /\ <<"id">> # <<"retry">>
    OBVIOUS
  <2>3. CASE name = <<"event">>
    BY <1>2, <2>1, <2>2, <2>3 DEF ParseFieldLine, DefaultMessage, name, value, retry
  <2>4. CASE name = <<"data">>
    BY <1>2, <2>1, <2>2, <2>4 DEF ParseFieldLine, DefaultMessage, name, value, retry
  <2>5. CASE name = <<"id">>
    BY <1>2, <2>1, <2>2, <2>5 DEF ParseFieldLine, DefaultMessage, name, value, retry
  <2>6. CASE name = <<"retry">>
    BY <1>2, <2>1, <2>2, <2>6 DEF ParseFieldLine, DefaultMessage, name, value, retry
  <2>7. CASE name \notin {<<"event">>, <<"data">>, <<"id">>, <<"retry">>}
    BY <1>2, <2>1, <2>7 DEF ParseFieldLine, DefaultMessage, name, value, retry
  <2> QED
    BY <2>3, <2>4, <2>5, <2>6, <2>7
<1> QED
  BY <1>1, <1>2

--------------------------------------------------------------------------------
(* Blocks that grow by one line.                                           *)

(* What an appended line is, and that the others keep their places.        *)
LEMMA Appended ==
  ASSUME NEW lines \in Block, NEW line \in Seq(Token)
  PROVE  /\ Append(lines, line) \in Block
         /\ Len(lines) \in Nat /\ Len(Append(lines, line)) = Len(lines) + 1
         /\ Append(lines, line)[Len(lines) + 1] = line
         /\ \A i \in 1 .. Len(lines) :
              /\ Append(lines, line)[i] = lines[i]
              /\ lines[i] \in Seq(Token)
  BY DEF Block

(* The positions of a kind of line that is known by the line alone: the    *)
(* new one joins them if it is of the kind.                                *)
LEMMA NewPosition ==
  ASSUME NEW lines \in Block, NEW line \in Seq(Token), NEW Kind
  PROVE  {i \in 1 .. Len(Append(lines, line)) : Append(lines, line)[i] \in Kind}
         = {i \in 1 .. Len(lines) : lines[i] \in Kind}
           \cup (IF line \in Kind THEN {Len(lines) + 1} ELSE {})
<1> DEFINE longer == Append(lines, line)
<1>1. /\ Len(lines) \in Nat /\ Len(longer) = Len(lines) + 1
      /\ longer[Len(lines) + 1] = line
      /\ \A i \in 1 .. Len(lines) : longer[i] = lines[i]
  BY Appended
<1> HIDE DEF longer
<1>2. 1 .. Len(lines) + 1 = (1 .. Len(lines)) \cup {Len(lines) + 1}
  BY <1>1
<1>3. ASSUME NEW i
      PROVE  i \in 1 .. Len(longer) /\ longer[i] \in Kind <=>
               \/ i \in 1 .. Len(lines) /\ lines[i] \in Kind
               \/ i = Len(lines) + 1 /\ line \in Kind
  BY <1>1, <1>2
<1>4. {i \in 1 .. Len(longer) : longer[i] \in Kind}
      = {i \in 1 .. Len(lines) : lines[i] \in Kind}
        \cup (IF line \in Kind THEN {Len(lines) + 1} ELSE {})
  BY <1>3
<1> QED
  BY <1>4 DEF longer

(* The lines Interpret takes an event, data, an id and a retry from.       *)
LEMMA NewLines ==
  ASSUME NEW lines \in Block, NEW line \in Seq(Token)
  PROVE  LET longer == Append(lines, line)
             new == Len(lines) + 1
         IN  /\ EventLines(longer) = EventLines(lines)
                  \cup (IF IsField(line, "event") /\ FieldValue(line) # <<"message">>
                        THEN {new} ELSE {})
             /\ DataLines(longer) = DataLines(lines)
                  \cup (IF IsField(line, "data") /\ HasColon(line) THEN {new} ELSE {})
             /\ IdLines(longer) = IdLines(lines)
                  \cup (IF IsField(line, "id") THEN {new} ELSE {})
             /\ RetryLines(longer) = RetryLines(lines)
                  \cup (IF IsField(line, "retry")
                             /\ ParseRetryValue(FieldValue(line)) # None
                        THEN {new} ELSE {})
<1> DEFINE longer == Append(lines, line)
           Event == {l \in Seq(Token) : IsField(l, "event") /\ FieldValue(l) # <<"message">>}
           Data == {l \in Seq(Token) : IsField(l, "data") /\ HasColon(l)}
           Id == {l \in Seq(Token) : IsField(l, "id")}
           Retrying == {l \in Seq(Token) : IsField(l, "retry")
                                           /\ ParseRetryValue(FieldValue(l)) # None}
<1>1. longer \in Block
  BY Appended
<1>2. ASSUME NEW b \in Block
      PROVE  /\ EventLines(b) = {i \in 1 .. Len(b) : b[i] \in Event}
             /\ DataLines(b) = {i \in 1 .. Len(b) : b[i] \in Data}
             /\ IdLines(b) = {i \in 1 .. Len(b) : b[i] \in Id}
             /\ RetryLines(b) = {i \in 1 .. Len(b) : b[i] \in Retrying}
  <2>1. \A i \in 1 .. Len(b) : b[i] \in Seq(Token)
    BY DEF Block
  <2> QED
    BY <2>1, Zenon DEF EventLines, DataLines, IdLines, RetryLines
<1>3. /\ line \in Event <=> IsField(line, "event") /\ FieldValue(line) # <<"message">>
      /\ line \in Data <=> IsField(line, "data") /\ HasColon(line)
      /\ line \in Id <=> IsField(line, "id")
      /\ line \in Retrying <=> IsField(line, "retry")
                               /\ ParseRetryValue(FieldValue(line)) # None
  BY Zenon
<1> HIDE DEF Event, Data, Id, Retrying, longer
<1>4. \A Kind : {i \in 1 .. Len(longer) : longer[i] \in Kind}
                = {i \in 1 .. Len(lines) : lines[i] \in Kind}
                  \cup (IF line \in Kind THEN {Len(lines) + 1} ELSE {})
  BY NewPosition DEF longer
<1>5. /\ EventLines(longer) = EventLines(lines)
           \cup (IF line \in Event THEN {Len(lines) + 1} ELSE {})
      /\ DataLines(longer) = DataLines(lines)
           \cup (IF line \in Data THEN {Len(lines) + 1} ELSE {})
      /\ IdLines(longer) = IdLines(lines)
           \cup (IF line \in Id THEN {Len(lines) + 1} ELSE {})
      /\ RetryLines(longer) = RetryLines(lines)
           \cup (IF line \in Retrying THEN {Len(lines) + 1} ELSE {})
  BY <1>1, <1>2, <1>4, Zenon
<1> QED
  BY <1>3, <1>5, Zenon DEF longer

(* A position found last is found last until a later one is.               *)
LEMMA LastOfLonger ==
  ASSUME NEW lines \in Block, NEW line \in Seq(Token),
         NEW wanted \in SUBSET (1 .. Len(lines)), NEW default
  PROVE  /\ LastValue(Append(lines, line), wanted, default)
              = LastValue(lines, wanted, default)
         /\ LastValue(Append(lines, line), wanted \cup {Len(lines) + 1}, default)
              = FieldValue(line)
<1>1. Len(lines) \in Nat /\ Append(lines, line)[Len(lines) + 1] = line
  BY Appended
<1>2. \A i \in 1 .. Len(lines) : Append(lines, line)[i] = lines[i]
  BY Appended
<1>3. wanted # {} => Max(wanted) \in wanted
  <2>1. wanted \subseteq 0 .. Len(lines)
    BY <1>1
  <2>2. wanted # {} => \E i \in wanted : \A j \in wanted : i >= j
    BY <1>1, <2>1, GreatestNat
  <2> QED
    BY <2>2 DEF Max
<1>4. Max(wanted \cup {Len(lines) + 1}) = Len(lines) + 1
  <2>1. \A j \in wanted \cup {Len(lines) + 1} : j \in Nat /\ Len(lines) + 1 >= j
    BY <1>1
  <2>2. \A i \in wanted \cup {Len(lines) + 1} :
          (\A j \in wanted \cup {Len(lines) + 1} : i >= j) <=> i = Len(lines) + 1
    BY <1>1, <2>1
  <2> QED
    BY <2>2 DEF Max
<1> QED
  BY <1>1, <1>2, <1>3, <1>4 DEF LastValue

(* A field's value is text.                                                *)
LEMMA ValueIsText ==
  ASSUME NEW line \in Seq(Token)
  PROVE  FieldValue(line) \in Seq(Token)
<1>1. CASE HasColon(line)
  <2>1. FirstColon(line) \in 1 .. Len(line) /\ Len(line) \in Nat
    BY <1>1, ColonEffect
  <2>2. /\ FirstColon(line) + 1 \in 1 .. Len(line) + 1 /\ Len(line) \in 0 .. Len(line)
        /\ FirstColon(line) + 1 <= Len(line) + 1
    BY <2>1
  <2>3. SubSeq(line, FirstColon(line) + 1, Len(line)) \in Seq(Token)
    BY <2>2, Piece
  <2> QED
    BY <1>1, <2>3, StripSpaceEffect DEF FieldValue
<1>2. CASE ~ HasColon(line)
  BY <1>2, EmptySeq DEF FieldValue
<1> QED
  BY <1>1, <1>2

(* The values are joined one line after the other.                         *)
LEMMA JoinedEffect ==
  ASSUME NEW lines \in Block, NEW wanted
  PROVE  /\ JoinedPrefixes(lines, wanted) \in [0 .. Len(lines) -> Seq(Token)]
         /\ JoinedPrefixes(lines, wanted)[0] = <<>>
         /\ \A n \in 1 .. Len(lines) :
              JoinedPrefixes(lines, wanted)[n]
                = AddValue(lines, wanted, JoinedPrefixes(lines, wanted)[n - 1], n)
<1> DEFINE V == Seq(Token)
           Add(v, n) == AddValue(lines, wanted, v, n)
           step == [x \in V \X (1 .. Len(lines)) |-> Add(x[1], x[2])]
<1>1. Len(lines) \in Nat /\ \A n \in 1 .. Len(lines) : lines[n] \in Seq(Token)
  BY DEF Block
<1>2. ASSUME NEW v \in V, NEW n \in 1 .. Len(lines) PROVE Add(v, n) \in V
  <2>1. FieldValue(lines[n]) \in V
    BY <1>1, ValueIsText
  <2>2. v \o <<LF>> \o FieldValue(lines[n]) \in V
    <3> DEFINE w == FieldValue(lines[n])
    <3>1. <<LF>> \in Seq(Token)
      <4>1. LF \in Token
        BY FieldParserAssumption
      <4> QED
        BY <4>1
    <3>2. w \in Seq(Token)
      BY <2>1
    <3> HIDE DEF w
    <3>3. v \o <<LF>> \in Seq(Token)
      BY <3>1, ConcatProperties
    <3>4. (v \o <<LF>>) \o w \in Seq(Token)
      BY <3>2, <3>3, ConcatProperties
    <3> QED
      BY <3>4 DEF w
  <2> QED
    BY <2>1, <2>2 DEF AddValue
<1> HIDE DEF Add
<1>3. step \in Steps(Len(lines), V)
  BY <1>2 DEF Steps
<1>4. <<>> \in V
  BY EmptySeq
<1> HIDE DEF V
<1>5. PICK f \in [0 .. Len(lines) -> V] :
        f[0] = <<>> /\ \A n \in 1 .. Len(lines) : f[n] = step[<<f[n - 1], n>>]
  <2> HIDE DEF step
  <2>1. Iterations(Len(lines), V, <<>>, step) # {}
    BY <1>1, <1>3, <1>4, Iterate
  <2> QED
    BY <2>1 DEF Iterations
<1> DEFINE IsJoined(g) == g = [n \in 0 .. Len(lines) |->
                                 IF n = 0 THEN <<>> ELSE Add(g[n - 1], n)]
<1>6. \A n \in 1 .. Len(lines) : f[n] = Add(f[n - 1], n)
  <2> SUFFICES ASSUME NEW n \in 1 .. Len(lines) PROVE f[n] = Add(f[n - 1], n)
    OBVIOUS
  <2>1. n - 1 \in 0 .. Len(lines)
    BY <1>1
  <2>2. <<f[n - 1], n>> \in V \X (1 .. Len(lines))
    BY <2>1
  <2>3. step[<<f[n - 1], n>>] = Add(f[n - 1], n)
    BY <2>2
  <2> QED
    BY <1>5, <2>3
<1> HIDE DEF step
<1>7. IsJoined(f)
  BY <1>1, <1>5, <1>6
<1> DEFINE J == JoinedPrefixes(lines, wanted)
<1>8. IsJoined(J)
  <2>1. J = CHOOSE g : IsJoined(g)
    BY DEF JoinedPrefixes, Add
  <2> HIDE DEF IsJoined, J
  <2> QED
    BY <1>7, <2>1, Zenon
<1> HIDE DEF J
<1>9. /\ J[0] = <<>> /\ \A n \in 1 .. Len(lines) : J[n] = Add(J[n - 1], n)
      /\ J = [n \in 0 .. Len(lines) |-> J[n]]
  <2>1. J = [n \in 0 .. Len(lines) |-> IF n = 0 THEN <<>> ELSE Add(J[n - 1], n)]
    BY <1>8 DEF J
  <2>2. \A n \in 0 .. Len(lines) : J[n] = IF n = 0 THEN <<>> ELSE Add(J[n - 1], n)
    BY <2>1, Zenon
  <2>3. 0 \in 0 .. Len(lines) /\ \A n \in 1 .. Len(lines) : n \in 0 .. Len(lines) /\ n # 0
    BY <1>1
  <2>4. J = [n \in 0 .. Len(lines) |-> J[n]]
    BY <2>1, <2>2
  <2> QED
    BY <2>2, <2>3, <2>4, Zenon
<1>10. \A n \in 0 .. Len(lines) : J[n] \in V
  <2> DEFINE T == {n \in 0 .. Len(lines) : J[n] \in V}
  <2>1. 0 \in T
    BY <1>1, <1>4, <1>9
  <2>2. ASSUME NEW n \in 0 .. Len(lines) - 1, n \in T PROVE n + 1 \in T
    <3>1. n + 1 \in 1 .. Len(lines) /\ (n + 1) - 1 = n
      BY <1>1
    <3>2. J[n + 1] = Add(J[n], n + 1)
      BY <1>9, <3>1
    <3> QED
      BY <1>2, <2>2, <3>1, <3>2
  <2> HIDE DEF T
  <2>3. 0 .. Len(lines) \subseteq T
    BY <1>1, <2>1, <2>2, UpTo
  <2> QED
    BY <2>3 DEF T
<1> QED
  BY <1>9, <1>10 DEF J, V, Add

(* A line that is not wanted adds nothing to the joined values; the first  *)
(* wanted one is their start, a later one comes after an LF.               *)
LEMMA JoinedOfLonger ==
  ASSUME NEW lines \in Block, NEW line \in Seq(Token),
         NEW wanted, wanted \subseteq 1 .. Len(lines)
  PROVE  /\ JoinedValues(Append(lines, line), wanted) = JoinedValues(lines, wanted)
         /\ JoinedValues(Append(lines, line), wanted \cup {Len(lines) + 1})
              = IF wanted = {} THEN FieldValue(line)
                ELSE JoinedValues(lines, wanted) \o <<LF>> \o FieldValue(line)
<1> DEFINE longer == Append(lines, line)
           more == wanted \cup {Len(lines) + 1}
           J == JoinedPrefixes(lines, wanted)
           K == JoinedPrefixes(longer, wanted)
           L == JoinedPrefixes(longer, more)
<1>1. /\ longer \in Block /\ Len(lines) \in Nat /\ Len(longer) = Len(lines) + 1
      /\ longer[Len(lines) + 1] = line
      /\ \A i \in 1 .. Len(lines) : longer[i] = lines[i]
  BY Appended
<1> HIDE DEF longer
<1>2. /\ J[0] = <<>> /\ K[0] = <<>> /\ L[0] = <<>>
      /\ \A n \in 1 .. Len(lines) : J[n] = AddValue(lines, wanted, J[n - 1], n)
      /\ \A n \in 1 .. Len(lines) + 1 : K[n] = AddValue(longer, wanted, K[n - 1], n)
      /\ \A n \in 1 .. Len(lines) + 1 : L[n] = AddValue(longer, more, L[n - 1], n)
  BY <1>1, JoinedEffect
<1> HIDE DEF J, K, L
<1>3. wanted # {} => Min(more) = Min(wanted)
  <2>1. \A j \in wanted : j \in Nat /\ j <= Len(lines)
    BY <1>1
  <2>2. \A i \in more : (\A j \in more : i <= j) <=> IF wanted = {} THEN i = Len(lines) + 1
                                   ELSE i \in wanted /\ \A j \in wanted : i <= j
    BY <1>1, <2>1
  <2>3. ASSUME wanted # {}
        PROVE  \A i : i \in more /\ (\A j \in more : i <= j) <=>
                      i \in wanted /\ (\A j \in wanted : i <= j)
    BY <2>2, <2>3
  <2> QED
    BY <2>3 DEF Min
<1>4. wanted = {} => Min(more) = Len(lines) + 1
  BY <1>1 DEF Min
<1>5. \A n \in 0 .. Len(lines) : K[n] = J[n] /\ L[n] = J[n]
  <2> DEFINE T == {n \in 0 .. Len(lines) : K[n] = J[n] /\ L[n] = J[n]}
  <2>1. 0 \in T
    BY <1>1, <1>2
  <2>2. ASSUME NEW n \in 0 .. Len(lines) - 1, n \in T PROVE n + 1 \in T
    <3>1. n + 1 \in 1 .. Len(lines) /\ n + 1 \in 1 .. Len(lines) + 1 /\ (n + 1) - 1 = n
      BY <1>1
    <3>2. /\ J[n + 1] = AddValue(lines, wanted, J[n], n + 1)
          /\ K[n + 1] = AddValue(longer, wanted, J[n], n + 1)
          /\ L[n + 1] = AddValue(longer, more, J[n], n + 1)
      BY <1>2, <2>2, <3>1
    <3>3. longer[n + 1] = lines[n + 1] /\ (n + 1 \in more <=> n + 1 \in wanted)
      BY <1>1, <3>1
    <3> HIDE DEF more
    <3>4. /\ AddValue(longer, wanted, J[n], n + 1) = AddValue(lines, wanted, J[n], n + 1)
          /\ AddValue(longer, more, J[n], n + 1) = AddValue(lines, wanted, J[n], n + 1)
      BY <1>3, <3>3, Zenon DEF AddValue
    <3> QED
      BY <3>1, <3>2, <3>4
  <2> HIDE DEF T
  <2>3. 0 .. Len(lines) \subseteq T
    BY <1>1, <2>1, <2>2, UpTo
  <2> QED
    BY <2>3 DEF T
<1>6. /\ K[Len(lines) + 1] = AddValue(longer, wanted, J[Len(lines)], Len(lines) + 1)
      /\ L[Len(lines) + 1] = AddValue(longer, more, J[Len(lines)], Len(lines) + 1)
  <2>1. /\ Len(lines) + 1 \in 1 .. Len(lines) + 1 /\ (Len(lines) + 1) - 1 = Len(lines)
        /\ Len(lines) \in 0 .. Len(lines)
    BY <1>1
  <2> QED
    BY <1>2, <1>5, <2>1
<1>7. Len(lines) + 1 \notin wanted /\ Len(lines) + 1 \in more
  BY <1>1
<1>8. K[Len(lines) + 1] = J[Len(lines)]
  BY <1>6, <1>7 DEF AddValue
<1>9. L[Len(lines) + 1] = IF wanted = {} THEN FieldValue(line)
                          ELSE J[Len(lines)] \o <<LF>> \o FieldValue(line)
  <2>1. wanted # {} => Min(wanted) # Len(lines) + 1
    <3>1. wanted # {} => Min(wanted) \in wanted
      <4>1. wanted \subseteq Nat
        BY <1>1
      <4> QED
        BY <4>1, LeastNat DEF Min
    <3> QED
      BY <1>7, <3>1
  <2> HIDE DEF more
  <2> QED
    BY <1>1, <1>3, <1>4, <1>6, <1>7, <2>1, Zenon DEF AddValue
<1> QED
  BY <1>1, <1>8, <1>9, Zenon DEF JoinedValues, J, K, L, longer

(* A line is of one field only.                                            *)
LEMMA OneField ==
  ASSUME NEW line, NEW name, NEW other, IsField(line, name), IsField(line, other)
  PROVE  name = other
<1>1. <<name>> = <<other>>
  BY DEF IsField
<1> QED
  BY <1>1

(* No lines mean the fresh message.                                        *)
LEMMA NoLines == Interpret(<<>>) = DefaultMessage /\ DataLines(<<>>) = {}
<1> DEFINE none == <<>>
<1>1. none \in Block /\ Len(none) = 0 /\ 1 .. Len(none) = {}
  BY DEF Block
<1> HIDE DEF none
<1>2. /\ EventLines(none) = {} /\ DataLines(none) = {}
      /\ IdLines(none) = {} /\ RetryLines(none) = {}
  BY <1>1 DEF EventLines, DataLines, IdLines, RetryLines
<1>3. JoinedValues(none, {}) = <<>>
  BY <1>1, JoinedEffect DEF JoinedValues
<1>4. ParseRetryValue(<<>>) = None
  <2>1. Trim(<<>>) = <<>>
    <3>1. none \in Seq(Token)
      BY EmptySeq DEF none
    <3>2. Kept(none) = {}
      BY <1>1 DEF Kept
    <3>3. Trim(none) = <<>>
      BY <3>1, <3>2, TrimEffect
    <3> QED
      BY <3>3 DEF none
  <2> QED
    BY <2>1 DEF ParseRetryValue
<1>5. /\ LastValue(none, EventLines(none), <<"message">>) = <<"message">>
      /\ LastValue(none, IdLines(none), None) = None
      /\ LastValue(none, RetryLines(none), <<>>) = <<>>
  BY <1>2 DEF LastValue
<1> QED
  BY <1>2, <1>3, <1>4, <1>5, Zenon DEF Interpret, DefaultMessage, none

(* What one more line adds to the meaning of a block.                      *)
LEMMA InterpretLonger ==
  ASSUME NEW lines \in Block, NEW line \in Seq(Token)
  PROVE  LET old == Interpret(lines)
             now == Interpret(Append(lines, line))
             value == FieldValue(line)
         IN  /\ now.event = IF IsField(line, "event") /\ value # <<"message">>
                            THEN value ELSE old.event
             /\ now.data = IF IsField(line, "data") /\ HasColon(line)
                           THEN IF DataLines(lines) = {} THEN value
                                ELSE old.data \o <<LF>> \o value
                           ELSE old.data
             /\ now.id = IF IsField(line, "id") THEN value ELSE old.id
             /\ now.retry = IF IsField(line, "retry") /\ ParseRetryValue(value) # None
                            THEN ParseRetryValue(value) ELSE old.retry
<1> DEFINE longer == Append(lines, line)
           new == Len(lines) + 1
           value == FieldValue(line)
<1>1. /\ EventLines(longer) = EventLines(lines)
           \cup (IF IsField(line, "event") /\ value # <<"message">> THEN {new} ELSE {})
      /\ DataLines(longer) = DataLines(lines)
           \cup (IF IsField(line, "data") /\ HasColon(line) THEN {new} ELSE {})
      /\ IdLines(longer) = IdLines(lines)
           \cup (IF IsField(line, "id") THEN {new} ELSE {})
      /\ RetryLines(longer) = RetryLines(lines)
           \cup (IF IsField(line, "retry") /\ ParseRetryValue(value) # None
                 THEN {new} ELSE {})
  BY NewLines, Zenon
<1>2. /\ EventLines(lines) \subseteq 1 .. Len(lines)
      /\ DataLines(lines) \subseteq 1 .. Len(lines)
      /\ IdLines(lines) \subseteq 1 .. Len(lines)
      /\ RetryLines(lines) \subseteq 1 .. Len(lines)
  BY Zenon DEF EventLines, DataLines, IdLines, RetryLines
<1>3. \A W \in SUBSET (1 .. Len(lines)) :
        \A default :
          /\ LastValue(longer, W, default) = LastValue(lines, W, default)
          /\ LastValue(longer, W \cup {new}, default) = value
  BY LastOfLonger, Zenon
<1>4. \A W \in SUBSET (1 .. Len(lines)) :
        /\ JoinedValues(longer, W) = JoinedValues(lines, W)
        /\ JoinedValues(longer, W \cup {new})
             = IF W = {} THEN value ELSE JoinedValues(lines, W) \o <<LF>> \o value
  BY JoinedOfLonger, Zenon
<1> HIDE DEF longer, new, value
<1>5. LastValue(longer, EventLines(longer), <<"message">>)
      = IF IsField(line, "event") /\ value # <<"message">> THEN value
        ELSE LastValue(lines, EventLines(lines), <<"message">>)
  <2> DEFINE W == EventLines(lines)
  <2> HIDE DEF W
  <2>1. EventLines(longer) = IF IsField(line, "event") /\ value # <<"message">>
                             THEN W \cup {new} ELSE W
    BY <1>1 DEF W
  <2>2. W \in SUBSET (1 .. Len(lines))
    BY <1>2 DEF W
  <2>3. /\ LastValue(longer, W, <<"message">>) = LastValue(lines, W, <<"message">>)
        /\ LastValue(longer, W \cup {new}, <<"message">>) = value
    BY <1>3, <2>2, Zenon
  <2> QED
    BY <2>1, <2>3, Zenon DEF W
<1>6. JoinedValues(longer, DataLines(longer))
      = IF IsField(line, "data") /\ HasColon(line)
        THEN IF DataLines(lines) = {} THEN value
             ELSE JoinedValues(lines, DataLines(lines)) \o <<LF>> \o value
        ELSE JoinedValues(lines, DataLines(lines))
  <2> DEFINE W == DataLines(lines)
  <2> HIDE DEF W
  <2>1. DataLines(longer) = IF IsField(line, "data") /\ HasColon(line)
                            THEN W \cup {new} ELSE W
    BY <1>1 DEF W
  <2>2. W \in SUBSET (1 .. Len(lines))
    BY <1>2 DEF W
  <2>3. /\ JoinedValues(longer, W) = JoinedValues(lines, W)
        /\ JoinedValues(longer, W \cup {new})
             = IF W = {} THEN value ELSE JoinedValues(lines, W) \o <<LF>> \o value
    BY <1>4, <2>2, Zenon
  <2> QED
    BY <2>1, <2>3, Zenon DEF W
<1>7. LastValue(longer, IdLines(longer), None)
      = IF IsField(line, "id") THEN value ELSE LastValue(lines, IdLines(lines), None)
  <2> DEFINE W == IdLines(lines)
  <2> HIDE DEF W
  <2>1. IdLines(longer) = IF IsField(line, "id") THEN W \cup {new} ELSE W
    BY <1>1 DEF W
  <2>2. W \in SUBSET (1 .. Len(lines))
    BY <1>2 DEF W
  <2>3. /\ LastValue(longer, W, None) = LastValue(lines, W, None)
        /\ LastValue(longer, W \cup {new}, None) = value
    BY <1>3, <2>2, Zenon
  <2> QED
    BY <2>1, <2>3, Zenon DEF W
<1>8. LastValue(longer, RetryLines(longer), <<>>)
      = IF IsField(line, "retry") /\ ParseRetryValue(value) # None THEN value
        ELSE LastValue(lines, RetryLines(lines), <<>>)
  <2> DEFINE W == RetryLines(lines)
  <2> HIDE DEF W
  <2>1. RetryLines(longer) = IF IsField(line, "retry") /\ ParseRetryValue(value) # None
                             THEN W \cup {new} ELSE W
    BY <1>1 DEF W
  <2>2. W \in SUBSET (1 .. Len(lines))
    BY <1>2 DEF W
  <2>3. /\ LastValue(longer, W, <<>>) = LastValue(lines, W, <<>>)
        /\ LastValue(longer, W \cup {new}, <<>>) = value
    BY <1>3, <2>2, Zenon
  <2> QED
    BY <2>1, <2>3, Zenon DEF W
<1>9. \A b : /\ Interpret(b).event = LastValue(b, EventLines(b), <<"message">>)
             /\ Interpret(b).data = JoinedValues(b, DataLines(b))
             /\ Interpret(b).id = LastValue(b, IdLines(b), None)
             /\ Interpret(b).retry
                  = ParseRetryValue(LastValue(b, RetryLines(b), <<>>))
  BY DEF Interpret
<1>10. Interpret(longer).retry
       = IF IsField(line, "retry") /\ ParseRetryValue(value) # None
         THEN ParseRetryValue(value) ELSE Interpret(lines).retry
  BY <1>8, <1>9, Zenon
<1> QED
  BY <1>5, <1>6, <1>7, <1>9, <1>10, Zenon DEF longer, value

--------------------------------------------------------------------------------
(* Sequences that grow.                                                    *)

(* The greatest of some positions, if there is one.                        *)
LEMMA GreatestOrZero ==
  ASSUME NEW k \in Nat, NEW T, T \subseteq 1 .. k
  PROVE  /\ Max({0} \cup T) \in {0} \cup T
         /\ \A j \in T : j <= Max({0} \cup T)
<1> DEFINE U == {0} \cup T
<1>1. U \subseteq 0 .. k /\ U # {}
  OBVIOUS
<1> HIDE DEF U
<1>2. \E i \in U : \A j \in U : i >= j
  BY <1>1, GreatestNat
<1>3. Max(U) \in U /\ \A j \in U : Max(U) >= j
  BY <1>2 DEF Max
<1>4. \A j \in U : j \in Nat
  BY <1>1
<1> QED
  BY <1>3, <1>4 DEF U

(* A prefix, element by element.                                           *)
LEMMA PrefixByElements ==
  ASSUME NEW S, NEW s \in Seq(S), NEW t \in Seq(S), Len(s) <= Len(t),
         \A i \in 1 .. Len(s) : s[i] = t[i]
  PROVE  IsPrefix(s, t)
<1>1. SubSeq(s, 1, Len(s)) = s
  BY SubSeqFull
<1> DEFINE u == SubSeq(t, 1, Len(s))
<1>2. Len(s) \in Nat /\ Len(t) \in Nat /\ \A i \in 1 .. Len(s) : t[i] \in S
  BY ElementOfSeq
<1>3. u \in Seq(S) /\ Len(u) = Len(s) /\ \A i \in 1 .. Len(s) : u[i] = t[i]
  <2>1. /\ u \in Seq(S)
        /\ Len(u) = IF 1 <= Len(s) THEN Len(s) - 1 + 1 ELSE 0
        /\ \A i \in 1 .. Len(s) - 1 + 1 : u[i] = t[1 + i - 1]
    BY <1>2, SubSeqProperties
  <2> HIDE DEF u
  <2> QED
    BY <1>2, <2>1
<1> HIDE DEF u
<1>4. u = s
  BY <1>3, SeqEqual
<1> QED
  BY <1>1, <1>4 DEF IsPrefix, u

(* What grows only by appending has its earlier values as prefixes.        *)
LEMMA Grows ==
  ASSUME NEW S, NEW k \in Nat, NEW f \in [0 .. k -> Seq(S)],
         \A n \in 1 .. k : f[n] = f[n - 1] \/ \E x \in S : f[n] = Append(f[n - 1], x),
         NEW m \in 0 .. k
  PROVE  IsPrefix(f[m], f[k])
<1> DEFINE Within(n) == /\ Len(f[m]) <= Len(f[m + n])
                        /\ \A i \in 1 .. Len(f[m]) : f[m][i] = f[m + n][i]
           T == {n \in 0 .. k - m : Within(n)}
<1>1. k - m \in Nat /\ m + 0 = m /\ m + (k - m) = k
  OBVIOUS
<1>2. \A n \in 0 .. k : f[n] \in Seq(S) /\ Len(f[n]) \in Nat
  OBVIOUS
<1>3. 0 \in T
  BY <1>1, <1>2
<1>4. ASSUME NEW n \in 0 .. (k - m) - 1, n \in T PROVE n + 1 \in T
  <2>1. /\ m + (n + 1) \in 1 .. k /\ (m + (n + 1)) - 1 = m + n /\ m + n \in 0 .. k
        /\ n + 1 \in 0 .. k - m
    OBVIOUS
  <2> DEFINE old == f[m + n]
             new == f[m + (n + 1)]
  <2>2. new = old \/ \E x \in S : new = Append(old, x)
    BY <2>1
  <2>3. /\ old \in Seq(S) /\ Len(old) \in Nat /\ Len(f[m]) \in Nat
        /\ Len(f[m]) <= Len(old) /\ \A i \in 1 .. Len(f[m]) : f[m][i] = old[i]
    BY <1>2, <1>4, <2>1
  <2> HIDE DEF old, new
  <2>4. /\ Len(f[m]) <= Len(new)
        /\ \A i \in 1 .. Len(f[m]) : f[m][i] = new[i]
    <3>1. CASE new = old
      BY <2>3, <3>1
    <3>2. ASSUME NEW x \in S, new = Append(old, x)
          PROVE  /\ Len(f[m]) <= Len(new)
                 /\ \A i \in 1 .. Len(f[m]) : f[m][i] = new[i]
      <4>1. Len(new) = Len(old) + 1 /\ \A i \in 1 .. Len(old) : new[i] = old[i]
        BY <2>3, <3>2, AppendProperties
      <4> QED
        BY <2>3, <4>1
    <3> QED
      BY <2>2, <3>1, <3>2
  <2> QED
    BY <2>1, <2>4 DEF new
<1>5. k - m \in T
  <2> HIDE DEF T
  <2>1. 0 .. k - m \subseteq T
    BY <1>1, <1>3, <1>4, UpTo
  <2> QED
    BY <1>1, <2>1
<1>6. Len(f[m]) <= Len(f[k]) /\ \A i \in 1 .. Len(f[m]) : f[m][i] = f[k][i]
  BY <1>1, <1>5
<1>7. f[m] \in Seq(S) /\ f[k] \in Seq(S)
  BY <1>2
<1> QED
  BY <1>6, <1>7, PrefixByElements

--------------------------------------------------------------------------------
(* The lines of a text.                                                    *)

EOL == {CR, LF}

(* The terminator before a position lies before it, and none comes after.  *)
LEMMA TerminatorEffect ==
  ASSUME NEW s \in Seq(Token), NEW i \in 1 .. Len(s)
  PROVE  /\ TerminatorBefore(s, i) \in 0 .. i - 1
         /\ TerminatorBefore(s, i) # 0 => s[TerminatorBefore(s, i)] \in EOL
         /\ \A j \in TerminatorBefore(s, i) + 1 .. i - 1 : s[j] \notin EOL
<1> DEFINE T == {j \in 1 .. i - 1 : s[j] \in EOL}
           t == TerminatorBefore(s, i)
<1>1. t = Max({0} \cup T)
  BY DEF TerminatorBefore, EOL
<1>2. i - 1 \in Nat /\ T \subseteq 1 .. i - 1
  OBVIOUS
<1> HIDE DEF T, t
<1>3. t \in {0} \cup T /\ \A j \in T : j <= t
  BY <1>1, <1>2, GreatestOrZero
<1>4. t \in 0 .. i - 1
  BY <1>2, <1>3
<1>5. t # 0 => s[t] \in EOL
  BY <1>3 DEF T
<1>6. ASSUME NEW j \in t + 1 .. i - 1, s[j] \in EOL PROVE FALSE
  <2>1. j \in T
    BY <1>4, <1>6 DEF T
  <2> QED
    BY <1>3, <1>4, <1>6, <2>1
<1> QED
  BY <1>4, <1>5, <1>6 DEF t

(* One more token adds a line or leaves the lines as they are.             *)
LEMMA AddLineType ==
  ASSUME NEW s \in Seq(Token), NEW lines \in Block, NEW n \in 1 .. Len(s)
  PROVE  /\ AddLine(s, lines, n) \in Block
         /\ \/ AddLine(s, lines, n) = lines
            \/ \E line \in Seq(Token) : AddLine(s, lines, n) = Append(lines, line)
<1> DEFINE line == SubSeq(s, TerminatorBefore(s, n) + 1, n - 1)
<1>1. TerminatorBefore(s, n) \in 0 .. n - 1
  BY TerminatorEffect
<1>2. /\ TerminatorBefore(s, n) + 1 \in 1 .. Len(s) + 1 /\ n - 1 \in 0 .. Len(s)
      /\ TerminatorBefore(s, n) + 1 <= (n - 1) + 1
  BY <1>1
<1>3. line \in Seq(Token)
  BY <1>2, Piece
<1> HIDE DEF line
<1>4. Append(lines, line) \in Block
  BY <1>3, Appended
<1> QED
  BY <1>3, <1>4, Zenon DEF AddLine, line

(* The lines are found one token after the other.                          *)
LEMMA LinesEffect ==
  ASSUME NEW s \in Seq(Token)
  PROVE  /\ LinePrefixes(s) \in [0 .. Len(s) -> Block]
         /\ LinePrefixes(s)[0] = <<>>
         /\ \A n \in 1 .. Len(s) :
              LinePrefixes(s)[n] = AddLine(s, LinePrefixes(s)[n - 1], n)
<1> DEFINE V == Block
           Add(v, n) == AddLine(s, v, n)
           step == [x \in V \X (1 .. Len(s)) |-> Add(x[1], x[2])]
<1>1. Len(s) \in Nat
  OBVIOUS
<1>2. ASSUME NEW v \in V, NEW n \in 1 .. Len(s) PROVE Add(v, n) \in V
  BY AddLineType
<1> HIDE DEF Add
<1>3. step \in Steps(Len(s), V)
  BY <1>2 DEF Steps
<1>4. <<>> \in V
  BY EmptySeq DEF Block
<1> HIDE DEF V
<1>5. PICK f \in [0 .. Len(s) -> V] :
        f[0] = <<>> /\ \A n \in 1 .. Len(s) : f[n] = step[<<f[n - 1], n>>]
  <2> HIDE DEF step
  <2>1. Iterations(Len(s), V, <<>>, step) # {}
    BY <1>1, <1>3, <1>4, Iterate
  <2> QED
    BY <2>1 DEF Iterations
<1> DEFINE IsSplit(g) == g = [n \in 0 .. Len(s) |->
                                IF n = 0 THEN <<>> ELSE Add(g[n - 1], n)]
<1>6. \A n \in 1 .. Len(s) : f[n] = Add(f[n - 1], n)
  <2> SUFFICES ASSUME NEW n \in 1 .. Len(s) PROVE f[n] = Add(f[n - 1], n)
    OBVIOUS
  <2>1. n - 1 \in 0 .. Len(s)
    BY <1>1
  <2>2. <<f[n - 1], n>> \in V \X (1 .. Len(s))
    BY <2>1
  <2>3. step[<<f[n - 1], n>>] = Add(f[n - 1], n)
    BY <2>2
  <2> QED
    BY <1>5, <2>3
<1> HIDE DEF step
<1>7. IsSplit(f)
  BY <1>1, <1>5, <1>6
<1> DEFINE J == LinePrefixes(s)
<1>8. IsSplit(J)
  <2>1. J = CHOOSE g : IsSplit(g)
    BY DEF LinePrefixes, Add
  <2> HIDE DEF IsSplit, J
  <2> QED
    BY <1>7, <2>1, Zenon
<1> HIDE DEF J
<1>9. /\ J[0] = <<>> /\ \A n \in 1 .. Len(s) : J[n] = Add(J[n - 1], n)
      /\ J = [n \in 0 .. Len(s) |-> J[n]]
  <2>1. J = [n \in 0 .. Len(s) |-> IF n = 0 THEN <<>> ELSE Add(J[n - 1], n)]
    BY <1>8 DEF J
  <2>2. \A n \in 0 .. Len(s) : J[n] = IF n = 0 THEN <<>> ELSE Add(J[n - 1], n)
    BY <2>1, Zenon
  <2>3. 0 \in 0 .. Len(s) /\ \A n \in 1 .. Len(s) : n \in 0 .. Len(s) /\ n # 0
    BY <1>1
  <2>4. J = [n \in 0 .. Len(s) |-> J[n]]
    BY <2>1, <2>2
  <2> QED
    BY <2>2, <2>3, <2>4, Zenon
<1>10. \A n \in 0 .. Len(s) : J[n] \in V
  <2> DEFINE T == {n \in 0 .. Len(s) : J[n] \in V}
  <2>1. 0 \in T
    BY <1>1, <1>4, <1>9
  <2>2. ASSUME NEW n \in 0 .. Len(s) - 1, n \in T PROVE n + 1 \in T
    <3>1. n + 1 \in 1 .. Len(s) /\ (n + 1) - 1 = n
      BY <1>1
    <3>2. J[n + 1] = Add(J[n], n + 1)
      BY <1>9, <3>1
    <3> QED
      BY <1>2, <2>2, <3>1, <3>2
  <2> HIDE DEF T
  <2>3. 0 .. Len(s) \subseteq T
    BY <1>1, <2>1, <2>2, UpTo
  <2> QED
    BY <2>3 DEF T
<1> QED
  BY <1>9, <1>10 DEF J, V, Add

(* The lines up to a position are the first of all the lines.              *)
LEMMA LinesArePrefix ==
  ASSUME NEW s \in Seq(Token), NEW k \in 0 .. Len(s)
  PROVE  IsPrefix(LinePrefixes(s)[k], LinesOf(s))
<1> DEFINE f == LinePrefixes(s)
<1>1. Len(s) \in Nat /\ f \in [0 .. Len(s) -> Block]
  BY LinesEffect
<1>2. ASSUME NEW n \in 1 .. Len(s)
      PROVE  f[n] = f[n - 1] \/ \E line \in Seq(Token) : f[n] = Append(f[n - 1], line)
  <2>1. f[n] = AddLine(s, f[n - 1], n)
    BY LinesEffect
  <2> HIDE DEF f
  <2>2. n - 1 \in 0 .. Len(s)
    BY <1>1
  <2>3. f[n - 1] \in Block
    BY <1>1, <2>2
  <2> QED
    BY <2>1, <2>3, AddLineType
<1> HIDE DEF f
<1>3. IsPrefix(f[k], f[Len(s)])
  BY <1>1, <1>2, Grows DEF Block
<1> QED
  BY <1>3 DEF f, LinesOf

(* Without a terminator there is no further line.                          *)
LEMMA NoFurtherLine ==
  ASSUME NEW s \in Seq(Token), NEW k \in 0 .. Len(s), NEW n \in k .. Len(s),
         \A i \in k + 1 .. n : ~ EndsLine(s, i)
  PROVE  LinePrefixes(s)[n] = LinePrefixes(s)[k]
<1> DEFINE f == LinePrefixes(s)
           T == {m \in 0 .. n - k : f[k + m] = f[k]}
<1>1. Len(s) \in Nat /\ n - k \in Nat /\ k + 0 = k /\ k + (n - k) = n
  OBVIOUS
<1>2. \A i \in 1 .. Len(s) : f[i] = AddLine(s, f[i - 1], i)
  BY LinesEffect
<1> HIDE DEF f
<1>3. 0 \in T
  BY <1>1
<1>4. ASSUME NEW m \in 0 .. (n - k) - 1, m \in T PROVE m + 1 \in T
  <2>1. /\ k + (m + 1) \in 1 .. Len(s) /\ (k + (m + 1)) - 1 = k + m
        /\ k + (m + 1) \in k + 1 .. n /\ m + 1 \in 0 .. n - k
    BY <1>1
  <2>2. f[k + (m + 1)] = AddLine(s, f[k + m], k + (m + 1))
    BY <1>2, <2>1
  <2>3. ~ EndsLine(s, k + (m + 1))
    BY <2>1
  <2>4. f[k + (m + 1)] = f[k + m]
    BY <2>2, <2>3 DEF AddLine
  <2> QED
    BY <1>4, <2>1, <2>4
<1>5. n - k \in T
  <2> HIDE DEF T
  <2>1. 0 .. n - k \subseteq T
    BY <1>1, <1>3, <1>4, UpTo
  <2> QED
    BY <1>1, <2>1
<1> QED
  BY <1>1, <1>5 DEF f

(* The lines of a text are still there when more text comes.               *)
LEMMA LongerText ==
  ASSUME NEW s \in Seq(Token), NEW t \in Seq(Token), NEW k \in 0 .. Len(s)
  PROVE  LinePrefixes(s \o t)[k] = LinePrefixes(s)[k]
<1> DEFINE u == s \o t
           f == LinePrefixes(s)
           g == LinePrefixes(u)
           T == {n \in 0 .. Len(s) : g[n] = f[n]}
<1>1. /\ u \in Seq(Token) /\ Len(s) \in Nat /\ Len(t) \in Nat
      /\ Len(u) = Len(s) + Len(t)
      /\ \A i \in 1 .. Len(s) : u[i] = s[i]
  BY ConcatProperties
<1> HIDE DEF u
<1>2. /\ f[0] = <<>> /\ g[0] = <<>>
      /\ \A n \in 1 .. Len(s) : f[n] = AddLine(s, f[n - 1], n)
      /\ \A n \in 1 .. Len(u) : g[n] = AddLine(u, g[n - 1], n)
  BY <1>1, LinesEffect
<1> HIDE DEF f, g
<1>3. ASSUME NEW n \in 1 .. Len(s), NEW lines
      PROVE  AddLine(u, lines, n) = AddLine(s, lines, n)
  <2>1. EndsLine(u, n) <=> EndsLine(s, n)
    BY <1>1 DEF EndsLine
  <2>2. TerminatorBefore(u, n) = TerminatorBefore(s, n)
    <3>1. \A j \in 1 .. n - 1 : j \in 1 .. Len(s)
      BY <1>1
    <3>2. \A j \in 1 .. n - 1 : u[j] = s[j]
      BY <1>1, <3>1
    <3>3. {j \in 1 .. n - 1 : u[j] \in EOL} = {j \in 1 .. n - 1 : s[j] \in EOL}
      BY <3>2, Zenon
    <3> QED
      BY <3>3, Zenon DEF TerminatorBefore, EOL
  <2> DEFINE a == TerminatorBefore(s, n) + 1
  <2>3. a \in 1 .. n
    BY TerminatorEffect
  <2> HIDE DEF a
  <2>4. SubSeq(u, a, n - 1) = SubSeq(s, a, n - 1)
    <3> DEFINE x == SubSeq(u, a, n - 1)
               y == SubSeq(s, a, n - 1)
    <3>1. n - 1 \in 0 .. Len(s) /\ n - 1 \in 0 .. Len(u) /\ a <= (n - 1) + 1
          /\ a \in 1 .. Len(s) + 1 /\ a \in 1 .. Len(u) + 1
      BY <1>1, <2>3
    <3>2. /\ x \in Seq(Token) /\ y \in Seq(Token)
          /\ Len(x) = (n - 1) - a + 1 /\ Len(y) = (n - 1) - a + 1
          /\ \A i \in 1 .. (n - 1) - a + 1 : x[i] = u[a + i - 1] /\ y[i] = s[a + i - 1]
      BY <1>1, <3>1, Piece
    <3> HIDE DEF x, y
    <3>3. ASSUME NEW i \in 1 .. Len(x) PROVE x[i] = y[i]
      <4>1. i \in 1 .. (n - 1) - a + 1 /\ a + i - 1 \in 1 .. Len(s)
        BY <2>3, <3>2
      <4> QED
        BY <1>1, <3>2, <4>1
    <3>4. x = y
      BY <3>2, <3>3, SeqEqual
    <3> QED
      BY <3>4 DEF x, y
  <2> QED
    BY <2>1, <2>2, <2>4, Zenon DEF AddLine, a
<1>4. 0 \in T
  BY <1>2
<1>5. ASSUME NEW n \in 0 .. Len(s) - 1, n \in T PROVE n + 1 \in T
  <2>1. /\ n + 1 \in 1 .. Len(s) /\ n + 1 \in 1 .. Len(u) /\ (n + 1) - 1 = n
        /\ n + 1 \in 0 .. Len(s)
    BY <1>1
  <2>2. f[n + 1] = AddLine(s, f[n], n + 1) /\ g[n + 1] = AddLine(u, f[n], n + 1)
    BY <1>2, <1>5, <2>1
  <2>3. AddLine(u, f[n], n + 1) = AddLine(s, f[n], n + 1)
    BY <1>3, <2>1
  <2> QED
    BY <2>1, <2>2, <2>3
<1>6. 0 .. Len(s) \subseteq T
  <2> HIDE DEF T
  <2> QED
    BY <1>1, <1>4, <1>5, UpTo
<1> QED
  BY <1>6 DEF f, g, u

(* Reading may stop after k tokens: they end with a terminator, and it is  *)
(* not the CR of a CRLF.                                                   *)
LineStart(s, k) ==
  /\ k # 0 => s[k] \in EOL
  /\ ~ (k \in 1 .. Len(s) - 1 /\ s[k] = CR /\ s[k + 1] = LF)

(* The next line is what comes before the next terminator.                 *)
LEMMA NextLine ==
  ASSUME NEW s \in Seq(Token), NEW k \in 0 .. Len(s), LineStart(s, k),
         NEW n \in k + 1 .. Len(s), s[n] \in EOL,
         \A i \in k + 1 .. n - 1 : s[i] \notin EOL
  PROVE  LinePrefixes(s)[n] = Append(LinePrefixes(s)[k], SubSeq(s, k + 1, n - 1))
<1>1. /\ Len(s) \in Nat /\ n - 1 \in k .. Len(s) /\ n - 1 \in 0 .. Len(s)
      /\ n \in 1 .. Len(s)
  OBVIOUS
<1>2. CR \in EOL /\ LF \in EOL /\ CR # LF
  BY DEF EOL, CR, LF
<1>3. LinePrefixes(s)[n - 1] = LinePrefixes(s)[k]
  <2>1. \A i \in k + 1 .. n - 1 : ~ EndsLine(s, i)
    BY DEF EndsLine, EOL
  <2> QED
    BY <1>1, <2>1, NoFurtherLine
<1>4. EndsLine(s, n)
  <2>1. s[n] \in {CR, LF}
    BY DEF EOL
  <2>2. ASSUME n > 1, s[n - 1] = CR, s[n] = LF PROVE FALSE
    <3>1. CASE n - 1 = k
      <4>1. k \in 1 .. Len(s) - 1 /\ s[k] = CR /\ s[k + 1] = LF
        BY <1>1, <2>2, <3>1
      <4> QED
        BY <4>1 DEF LineStart
    <3>2. CASE n - 1 # k
      <4>1. n - 1 \in k + 1 .. n - 1
        BY <1>1, <3>2
      <4> QED
        BY <1>2, <2>2, <4>1
    <3> QED
      BY <3>1, <3>2
  <2> QED
    BY <2>1, <2>2 DEF EndsLine
<1>5. TerminatorBefore(s, n) = k
  <2> DEFINE t == TerminatorBefore(s, n)
  <2>1. /\ t \in 0 .. n - 1
        /\ t # 0 => s[t] \in EOL
        /\ \A j \in t + 1 .. n - 1 : s[j] \notin EOL
    BY <1>1, TerminatorEffect
  <2> HIDE DEF t
  <2>2. k # 0 => s[k] \in EOL
    BY DEF LineStart
  <2>3. ~ t < k
    <3>1. t < k => k \in t + 1 .. n - 1 /\ k # 0
      BY <2>1
    <3> QED
      BY <2>1, <2>2, <3>1
  <2>4. ~ t > k
    <3>1. t > k => t \in k + 1 .. n - 1 /\ t # 0
      BY <2>1
    <3> QED
      BY <2>1, <3>1
  <2>5. t = k
    BY <2>1, <2>3, <2>4
  <2> QED
    BY <2>5 DEF t
<1>6. LinePrefixes(s)[n] = AddLine(s, LinePrefixes(s)[n - 1], n)
  BY <1>1, LinesEffect
<1> QED
  BY <1>3, <1>4, <1>5, <1>6 DEF AddLine

(* The LF of a CRLF ends no line of its own.                               *)
LEMMA NoLineAfterCR ==
  ASSUME NEW s \in Seq(Token), NEW n \in 1 .. Len(s) - 1, s[n] = CR, s[n + 1] = LF
  PROVE  LinePrefixes(s)[n + 1] = LinePrefixes(s)[n]
<1>1. n + 1 \in 1 .. Len(s) /\ (n + 1) - 1 = n /\ n + 1 > 1
  OBVIOUS
<1>2. LinePrefixes(s)[n + 1] = AddLine(s, LinePrefixes(s)[n], n + 1)
  BY <1>1, LinesEffect
<1>3. ~ EndsLine(s, n + 1)
  BY <1>1 DEF EndsLine
<1> QED
  BY <1>2, <1>3 DEF AddLine

--------------------------------------------------------------------------------
(* A text that is read up to its last tokens, the unread ones.             *)

ReadUpTo(text, unread) == Len(text) - Len(unread)
LinesRead(text, unread) == LinePrefixes(text)[ReadUpTo(text, unread)]

Cut(text, unread) ==
  /\ text \in Seq(Token) /\ unread \in Seq(Token)
  /\ Len(unread) <= Len(text)
  /\ \A i \in 1 .. Len(unread) : unread[i] = text[ReadUpTo(text, unread) + i]
  /\ LineStart(text, ReadUpTo(text, unread))

(* Nothing was read of nothing.                                            *)
LEMMA CutOfNothing == Cut(<<>>, <<>>) /\ LinesRead(<<>>, <<>>) = <<>>
<1> DEFINE none == <<>>
<1>1. none \in Seq(Token) /\ Len(none) = 0
  BY EmptySeq
<1> HIDE DEF none
<1>2. LinePrefixes(none)[0] = <<>> /\ ReadUpTo(none, none) = 0
  <2>1. ReadUpTo(none, none) = 0
    BY <1>1 DEF ReadUpTo
  <2>2. LinePrefixes(none)[0] = <<>>
    BY <1>1, LinesEffect
  <2> QED
    BY <2>1, <2>2
<1>3. LineStart(none, 0)
  BY <1>1 DEF LineStart
<1>4. Cut(none, none) /\ LinesRead(none, none) = <<>>
  BY <1>1, <1>2, <1>3 DEF Cut, LinesRead
<1> QED
  BY <1>4 DEF none

(* The place reading has reached.                                          *)
LEMMA CutPlace ==
  ASSUME NEW text, NEW unread, Cut(text, unread)
  PROVE  /\ Len(text) \in Nat /\ Len(unread) \in Nat
         /\ ReadUpTo(text, unread) \in 0 .. Len(text)
         /\ ReadUpTo(text, unread) + Len(unread) = Len(text)
         /\ LinesRead(text, unread) \in Block
<1>1. /\ text \in Seq(Token) /\ Len(text) \in Nat /\ Len(unread) \in Nat
      /\ ReadUpTo(text, unread) \in 0 .. Len(text)
      /\ ReadUpTo(text, unread) + Len(unread) = Len(text)
  BY DEF Cut, ReadUpTo
<1> QED
  BY <1>1, LinesEffect DEF LinesRead

(* More text is unread text, and leaves what was read.                     *)
LEMMA CutOfLonger ==
  ASSUME NEW text, NEW unread, Cut(text, unread), NEW chunk \in Seq(Token),
         ~ (text # <<>> /\ chunk # <<>> /\ text[Len(text)] = CR /\ chunk[1] = LF)
  PROVE  /\ Cut(text \o chunk, unread \o chunk)
         /\ LinesRead(text \o chunk, unread \o chunk) = LinesRead(text, unread)
<1> DEFINE longer == text \o chunk
           rest == unread \o chunk
           k == ReadUpTo(text, unread)
<1>1. /\ text \in Seq(Token) /\ unread \in Seq(Token)
      /\ Len(text) \in Nat /\ Len(unread) \in Nat /\ Len(chunk) \in Nat
      /\ k \in 0 .. Len(text) /\ k + Len(unread) = Len(text)
      /\ \A i \in 1 .. Len(unread) : unread[i] = text[k + i]
      /\ LineStart(text, k)
  BY CutPlace DEF Cut
<1>2. /\ longer \in Seq(Token) /\ Len(longer) = Len(text) + Len(chunk)
      /\ \A i \in 1 .. Len(text) + Len(chunk) :
           longer[i] = IF i <= Len(text) THEN text[i] ELSE chunk[i - Len(text)]
  BY <1>1, ConcatProperties
<1>3. /\ rest \in Seq(Token) /\ Len(rest) = Len(unread) + Len(chunk)
      /\ \A i \in 1 .. Len(unread) + Len(chunk) :
           rest[i] = IF i <= Len(unread) THEN unread[i] ELSE chunk[i - Len(unread)]
  BY <1>1, ConcatProperties
<1>4. LinePrefixes(longer)[k] = LinePrefixes(text)[k]
  BY <1>1, LongerText
<1> HIDE DEF longer, rest
<1>5. ReadUpTo(longer, rest) = k
  <2> HIDE DEF k
  <2>1. /\ Len(text) \in Nat /\ Len(unread) \in Nat /\ Len(chunk) \in Nat /\ k \in Nat
        /\ k + Len(unread) = Len(text) /\ Len(longer) = Len(text) + Len(chunk)
        /\ Len(rest) = Len(unread) + Len(chunk)
    BY <1>1, <1>2, <1>3
  <2> QED
    BY <2>1 DEF ReadUpTo
<1> HIDE DEF k
<1>6. \A i \in 1 .. Len(rest) : rest[i] = longer[k + i]
  <2> SUFFICES ASSUME NEW i \in 1 .. Len(rest) PROVE rest[i] = longer[k + i]
    OBVIOUS
  <2>1. /\ Len(text) \in Nat /\ Len(unread) \in Nat /\ Len(chunk) \in Nat /\ k \in Nat
        /\ k + Len(unread) = Len(text) /\ Len(rest) = Len(unread) + Len(chunk)
    BY <1>1, <1>3
  <2>2. i \in 1 .. Len(unread) + Len(chunk) /\ k + i \in 1 .. Len(text) + Len(chunk)
    BY <2>1
  <2>3. CASE i <= Len(unread)
    <3>1. i \in 1 .. Len(unread) /\ k + i <= Len(text)
      BY <2>1, <2>2, <2>3
    <3>2. rest[i] = unread[i]
      BY <1>3, <2>2, <2>3
    <3>3. longer[k + i] = text[k + i]
      BY <1>2, <2>2, <3>1
    <3>4. unread[i] = text[k + i]
      BY <1>1, <3>1
    <3> QED
      BY <3>2, <3>3, <3>4
  <2>4. CASE ~ i <= Len(unread)
    <3>1. (k + i) - Len(text) = i - Len(unread) /\ ~ k + i <= Len(text)
      BY <2>1, <2>2, <2>4
    <3>2. rest[i] = chunk[i - Len(unread)]
      BY <1>3, <2>2, <2>4
    <3>3. longer[k + i] = chunk[(k + i) - Len(text)]
      BY <1>2, <2>2, <3>1
    <3> QED
      BY <3>1, <3>2, <3>3
  <2> QED
    BY <2>3, <2>4
<1>7. LineStart(longer, k)
  <2>1. k # 0 => longer[k] \in EOL
    <3>1. k # 0 => longer[k] = text[k] /\ text[k] \in EOL
      BY <1>1, <1>2 DEF LineStart
    <3> QED
      BY <3>1
  <2>2. ASSUME k \in 1 .. Len(longer) - 1, longer[k] = CR, longer[k + 1] = LF PROVE FALSE
    <3>1. CASE k < Len(text)
      <4>1. k \in 1 .. Len(text) - 1 /\ text[k] = CR /\ text[k + 1] = LF
        BY <1>1, <1>2, <2>2, <3>1
      <4> QED
        BY <1>1, <4>1 DEF LineStart
    <3>2. CASE ~ k < Len(text)
      <4>1. k = Len(text) /\ Len(text) # 0 /\ Len(chunk) # 0
        BY <1>1, <1>2, <2>2, <3>2
      <4>2. longer[k] = text[Len(text)] /\ longer[k + 1] = chunk[1]
        <5>1. /\ k \in 1 .. Len(text) + Len(chunk) /\ k <= Len(text)
              /\ k + 1 \in 1 .. Len(text) + Len(chunk) /\ ~ k + 1 <= Len(text)
              /\ (k + 1) - Len(text) = 1
          BY <1>1, <4>1
        <5>2. longer[k] = text[k]
          BY <1>2, <5>1
        <5>3. longer[k + 1] = chunk[(k + 1) - Len(text)]
          BY <1>2, <5>1
        <5> QED
          BY <4>1, <5>1, <5>2, <5>3
      <4>3. text # <<>> /\ chunk # <<>>
        BY <4>1
      <4> QED
        BY <2>2, <4>2, <4>3
    <3> QED
      BY <3>1, <3>2
  <2> QED
    BY <2>1, <2>2 DEF LineStart
<1>8. Len(rest) <= Len(longer)
  BY <1>1, <1>2, <1>3
<1> QED
  BY <1>2, <1>3, <1>4, <1>5, <1>6, <1>7, <1>8 DEF Cut, LinesRead, longer, rest, k

(* Reading a line takes it and its terminator off the unread tokens.       *)
LEMMA CutOfNext ==
  ASSUME NEW text, NEW unread, Cut(text, unread),
         NEW n \in 1 .. Len(unread), unread[n] \in EOL,
         \A i \in 1 .. n - 1 : unread[i] \notin EOL,
         NEW t, t = IF unread[n] = CR /\ n < Len(unread) /\ unread[n + 1] = LF THEN 2 ELSE 1
  PROVE  LET rest == SubSeq(unread, n + t, Len(unread))
         IN  /\ Cut(text, rest)
             /\ LinesRead(text, rest)
                  = Append(LinesRead(text, unread), SubSeq(unread, 1, n - 1))
<1> DEFINE rest == SubSeq(unread, n + t, Len(unread))
           k == ReadUpTo(text, unread)
<1>1. /\ text \in Seq(Token) /\ unread \in Seq(Token)
      /\ Len(text) \in Nat /\ Len(unread) \in Nat
      /\ k \in 0 .. Len(text) /\ k + Len(unread) = Len(text)
      /\ \A i \in 1 .. Len(unread) : unread[i] = text[k + i]
      /\ LineStart(text, k)
  BY CutPlace DEF Cut
<1>2. /\ t \in {1, 2} /\ n + t \in 1 .. Len(unread) + 1
      /\ t = 2 => unread[n] = CR /\ n < Len(unread) /\ unread[n + 1] = LF
      /\ t = 1 => ~ (unread[n] = CR /\ n < Len(unread) /\ unread[n + 1] = LF)
  BY <1>1
<1>3. /\ rest \in Seq(Token) /\ Len(rest) = Len(unread) - (n + t) + 1
      /\ \A i \in 1 .. Len(rest) : rest[i] = unread[n + t + i - 1]
  <2> DEFINE m == n + t
  <2>1. Len(unread) \in 0 .. Len(unread) /\ m <= Len(unread) + 1 /\ m \in 1 .. Len(unread) + 1
    BY <1>1, <1>2
  <2> HIDE DEF m
  <2>2. /\ SubSeq(unread, m, Len(unread)) \in Seq(Token)
        /\ Len(SubSeq(unread, m, Len(unread))) = Len(unread) - m + 1
        /\ \A i \in 1 .. Len(unread) - m + 1 :
             SubSeq(unread, m, Len(unread))[i] = unread[m + i - 1]
    BY <1>1, <2>1, Piece
  <2>3. rest = SubSeq(unread, m, Len(unread))
    BY DEF m
  <2> HIDE DEF rest
  <2>4. /\ rest \in Seq(Token) /\ Len(rest) = Len(unread) - m + 1
        /\ \A i \in 1 .. Len(rest) : rest[i] = unread[m + i - 1]
    BY <2>2, <2>3
  <2> QED
    BY <2>4 DEF m
<1> HIDE DEF rest, k
<1> DEFINE r == ReadUpTo(text, rest)
<1>4. /\ n \in Nat /\ t \in Nat /\ k \in Nat /\ Len(text) \in Nat /\ Len(unread) \in Nat
      /\ 1 <= n /\ 1 <= t /\ n + t <= Len(unread) + 1 /\ k + Len(unread) = Len(text)
      /\ Len(rest) = Len(unread) - (n + t) + 1 /\ r = Len(text) - Len(rest)
  BY <1>1, <1>2, <1>3 DEF ReadUpTo
<1> HIDE DEF r
<1>5. r = k + n + t - 1 /\ r \in 0 .. Len(text)
  BY <1>4
<1>6. \A i \in 1 .. Len(rest) : rest[i] = text[r + i]
  <2> SUFFICES ASSUME NEW i \in 1 .. Len(rest) PROVE rest[i] = text[r + i]
    OBVIOUS
  <2> DEFINE j == n + t + i - 1
  <2>1. j \in 1 .. Len(unread) /\ k + j = r + i
    BY <1>4, <1>5
  <2>2. rest[i] = unread[j]
    BY <1>3
  <2> HIDE DEF j
  <2>3. unread[j] = text[k + j]
    BY <1>1, <2>1
  <2> QED
    BY <2>1, <2>2, <2>3
<1>7. /\ k + n \in k + 1 .. Len(text) /\ text[k + n] = unread[n]
      /\ \A i \in k + 1 .. (k + n) - 1 : text[i] \notin EOL
  <2>1. ASSUME NEW i \in k + 1 .. (k + n) - 1 PROVE text[i] \notin EOL
    <3>1. i - k \in 1 .. n - 1 /\ i - k \in 1 .. Len(unread) /\ k + (i - k) = i
      BY <1>1
    <3> QED
      BY <1>1, <3>1
  <2> QED
    BY <1>1, <2>1
<1>8. LinePrefixes(text)[k + n]
      = Append(LinePrefixes(text)[k], SubSeq(unread, 1, n - 1))
  <2>1. LinePrefixes(text)[k + n]
        = Append(LinePrefixes(text)[k], SubSeq(text, k + 1, (k + n) - 1))
    BY <1>1, <1>7, NextLine
  <2>2. SubSeq(text, k + 1, (k + n) - 1) = SubSeq(unread, 1, n - 1)
    <3> DEFINE x == SubSeq(text, k + 1, (k + n) - 1)
               y == SubSeq(unread, 1, n - 1)
    <3>1. /\ k + 1 \in 1 .. Len(text) + 1 /\ (k + n) - 1 \in 0 .. Len(text)
          /\ k + 1 <= ((k + n) - 1) + 1
          /\ 1 \in 1 .. Len(unread) + 1 /\ n - 1 \in 0 .. Len(unread) /\ 1 <= (n - 1) + 1
          /\ ((k + n) - 1) - (k + 1) + 1 = n - 1 /\ (n - 1) - 1 + 1 = n - 1
      BY <1>1
    <3>2. /\ x \in Seq(Token) /\ Len(x) = n - 1
          /\ \A i \in 1 .. n - 1 : x[i] = text[(k + 1) + i - 1]
      <4>1. /\ x \in Seq(Token) /\ Len(x) = ((k + n) - 1) - (k + 1) + 1
            /\ \A i \in 1 .. ((k + n) - 1) - (k + 1) + 1 : x[i] = text[(k + 1) + i - 1]
        BY <1>1, <3>1, Piece
      <4> HIDE DEF x
      <4> QED
        BY <3>1, <4>1
    <3>3. /\ y \in Seq(Token) /\ Len(y) = n - 1
          /\ \A i \in 1 .. n - 1 : y[i] = unread[1 + i - 1]
      <4>1. /\ y \in Seq(Token) /\ Len(y) = (n - 1) - 1 + 1
            /\ \A i \in 1 .. (n - 1) - 1 + 1 : y[i] = unread[1 + i - 1]
        BY <1>1, <3>1, Piece
      <4> HIDE DEF y
      <4> QED
        BY <3>1, <4>1
    <3> HIDE DEF x, y
    <3>4. ASSUME NEW i \in 1 .. Len(x) PROVE x[i] = y[i]
      <4>1. i \in 1 .. n - 1 /\ i \in 1 .. Len(unread) /\ (k + 1) + i - 1 = k + i
            /\ 1 + i - 1 = i
        BY <1>1, <3>2
      <4> QED
        BY <1>1, <3>2, <3>3, <4>1
    <3>5. x = y
      BY <3>2, <3>3, <3>4, SeqEqual
    <3> QED
      BY <3>5 DEF x, y
  <2> QED
    BY <2>1, <2>2
<1>9. LinesRead(text, rest) = Append(LinesRead(text, unread), SubSeq(unread, 1, n - 1))
  <2>1. CASE t = 1
    <3>1. r = k + n
      BY <1>4, <1>5, <2>1
    <3> QED
      BY <1>8, <3>1 DEF LinesRead, k, r
  <2>2. CASE t = 2
    <3>1. /\ k + n \in 1 .. Len(text) - 1 /\ text[k + n] = CR /\ text[(k + n) + 1] = LF
          /\ (k + n) + 1 = r
      <4>1. n < Len(unread) /\ unread[n] = CR /\ unread[n + 1] = LF
        BY <1>2, <2>2
      <4>2. /\ k + n \in 1 .. Len(text) - 1 /\ (k + n) + 1 = r /\ n + 1 \in 1 .. Len(unread)
            /\ k + (n + 1) = (k + n) + 1
        BY <1>4, <1>5, <2>2, <4>1
      <4>3. text[k + (n + 1)] = LF
        BY <1>1, <4>1, <4>2
      <4> QED
        BY <1>7, <4>1, <4>2, <4>3
    <3>2. LinePrefixes(text)[(k + n) + 1] = LinePrefixes(text)[k + n]
      BY <1>1, <3>1, NoLineAfterCR
    <3> QED
      BY <1>8, <3>1, <3>2 DEF LinesRead, k, r
  <2> QED
    BY <1>2, <2>1, <2>2
<1>10. LineStart(text, r)
  <2>1. CASE t = 1
    <3>1. r = k + n /\ k + n # 0
      BY <1>4, <1>5, <2>1
    <3>2. ASSUME k + n \in 1 .. Len(text) - 1, text[k + n] = CR, text[k + n + 1] = LF
          PROVE  FALSE
      <4>1. n < Len(unread) /\ n + 1 \in 1 .. Len(unread) /\ k + (n + 1) = k + n + 1
        BY <1>1, <3>2
      <4>2. unread[n] = CR /\ unread[n + 1] = LF
        BY <1>1, <1>7, <3>2, <4>1
      <4> QED
        BY <1>2, <2>1, <4>1, <4>2
    <3> QED
      BY <1>7, <3>1, <3>2 DEF LineStart
  <2>2. CASE t = 2
    <3>1. /\ r = k + (n + 1) /\ n + 1 \in 1 .. Len(unread)
          /\ unread[n + 1] = LF
      BY <1>2, <1>4, <1>5, <2>2
    <3>2. text[k + (n + 1)] = LF
      BY <1>1, <3>1
    <3>3. LF \in EOL /\ LF # CR
      BY DEF EOL, CR, LF
    <3> QED
      BY <3>1, <3>2, <3>3 DEF LineStart
  <2> QED
    BY <1>2, <2>1, <2>2
<1>11. Len(rest) <= Len(text)
  BY <1>4
<1>12. Cut(text, rest)
  BY <1>1, <1>3, <1>6, <1>10, <1>11 DEF Cut, r
<1> QED
  BY <1>9, <1>12 DEF rest

(* When no terminator is left, all lines are read.                         *)
LEMMA CutAtEnd ==
  ASSUME NEW text, NEW unread, Cut(text, unread),
         \A i \in 1 .. Len(unread) : unread[i] \notin EOL
  PROVE  LinesRead(text, unread) = LinesOf(text)
<1> DEFINE k == ReadUpTo(text, unread)
<1>1. /\ text \in Seq(Token) /\ Len(text) \in Nat /\ Len(unread) \in Nat
      /\ k \in 0 .. Len(text) /\ k + Len(unread) = Len(text)
      /\ \A i \in 1 .. Len(unread) : unread[i] = text[k + i]
  BY CutPlace DEF Cut
<1> HIDE DEF k
<1>2. ASSUME NEW i \in k + 1 .. Len(text) PROVE ~ EndsLine(text, i)
  <2>1. i - k \in 1 .. Len(unread) /\ k + (i - k) = i
    BY <1>1
  <2>2. text[i] \notin EOL
    BY <1>1, <2>1
  <2> QED
    BY <2>2 DEF EndsLine, EOL
<1>3. Len(text) \in k .. Len(text)
  BY <1>1
<1>4. LinePrefixes(text)[Len(text)] = LinePrefixes(text)[k]
  BY <1>1, <1>2, <1>3, NoFurtherLine
<1> QED
  BY <1>4 DEF LinesRead, LinesOf, k

--------------------------------------------------------------------------------
(* The messages of some lines.                                             *)

(* The lines of a block that is not complete.                              *)
OpenLines(lines) == BlockAt(lines, Len(lines))

(* A prefix has the elements of the whole.                                 *)
LEMMA ElementsOfPrefix ==
  ASSUME NEW S, NEW s \in Seq(S), NEW t \in Seq(S), IsPrefix(s, t)
  PROVE  Len(s) <= Len(t) /\ \A i \in 1 .. Len(s) : s[i] = t[i]
<1>1. SubSeq(s, 1, Len(s)) = s
  BY SubSeqFull
<1> DEFINE u == SubSeq(t, 1, Len(s))
<1>2. Len(s) \in Nat /\ Len(t) \in Nat /\ Len(s) <= Len(t) /\ u = s
  BY <1>1 DEF IsPrefix
<1>3. \A i \in 1 .. Len(s) : t[i] \in S
  BY <1>2, ElementOfSeq
<1>4. \A i \in 1 .. Len(s) - 1 + 1 : u[i] = t[1 + i - 1]
  BY <1>2, <1>3, SubSeqProperties
<1> HIDE DEF u
<1>5. \A i \in 1 .. Len(s) : i \in 1 .. Len(s) - 1 + 1 /\ 1 + i - 1 = i
  BY <1>2
<1> QED
  BY <1>2, <1>4, <1>5

(* The lines after the last empty one are a block without empty lines.     *)
LEMMA BlockAtEffect ==
  ASSUME NEW lines \in Block, NEW n \in 0 .. Len(lines)
  PROVE  /\ LastEmpty(lines, n) \in 0 .. n
         /\ BlockAt(lines, n) \in Block
         /\ Len(BlockAt(lines, n)) = n - LastEmpty(lines, n)
         /\ \A i \in 1 .. n - LastEmpty(lines, n) :
              BlockAt(lines, n)[i] = lines[LastEmpty(lines, n) + i]
<1> DEFINE T == {j \in 1 .. n : lines[j] = <<>>}
           e == LastEmpty(lines, n)
           b == BlockAt(lines, n)
<1>1. e = Max({0} \cup T) /\ n \in Nat /\ T \subseteq 1 .. n /\ n <= Len(lines)
      /\ Len(lines) \in Nat
  BY DEF LastEmpty, Block
<1> HIDE DEF T, e
<1>2. e \in 0 .. n
  <2>1. e \in {0} \cup T
    BY <1>1, GreatestOrZero
  <2> QED
    BY <1>1, <2>1
<1>3. \A i \in e + 1 .. n : lines[i] \in Seq(Token)
  <2>1. \A i \in 1 .. Len(lines) : lines[i] \in Seq(Token)
    BY ElementOfSeq DEF Block
  <2> QED
    BY <1>1, <1>2, <2>1
<1>4. b = SubSeq(lines, e + 1, n)
  BY DEF BlockAt, e
<1> HIDE DEF b
<1>5. /\ b \in Seq(Seq(Token))
      /\ Len(b) = IF e + 1 <= n THEN n - (e + 1) + 1 ELSE 0
      /\ \A i \in 1 .. n - (e + 1) + 1 : b[i] = lines[(e + 1) + i - 1]
  <2>1. e + 1 \in Int /\ n \in Int
    BY <1>1, <1>2
  <2> HIDE DEF Block
  <2> QED
    BY <1>3, <1>4, <2>1, SubSeqProperties
<1>6. Len(b) = n - e
  BY <1>1, <1>2, <1>5
<1>7. ASSUME NEW i \in 1 .. n - e PROVE b[i] = lines[e + i]
  <2>1. i \in 1 .. n - (e + 1) + 1 /\ (e + 1) + i - 1 = e + i
    BY <1>1, <1>2
  <2>2. b[i] = lines[(e + 1) + i - 1]
    BY <1>5, <2>1
  <2> QED
    BY <2>1, <2>2
<1> QED
  BY <1>2, <1>5, <1>6, <1>7 DEF Block, b, e

(* What completed messages are.                                            *)
Interpreted == {Interpret(block) : block \in Block}

(* The messages are found one line after the other.                        *)
LEMMA MessagesEffect ==
  ASSUME NEW lines \in Block
  PROVE  /\ MessagePrefixes(lines) \in [0 .. Len(lines) -> Seq(Interpreted)]
         /\ MessagePrefixes(lines)[0] = <<>>
         /\ \A n \in 1 .. Len(lines) :
              MessagePrefixes(lines)[n] = AddMessage(lines, MessagePrefixes(lines)[n - 1], n)
<1> DEFINE V == Seq(Interpreted)
           Add(v, n) == AddMessage(lines, v, n)
           step == [x \in V \X (1 .. Len(lines)) |-> Add(x[1], x[2])]
<1>1. Len(lines) \in Nat
  BY DEF Block
<1>2. ASSUME NEW v \in V, NEW n \in 1 .. Len(lines) PROVE Add(v, n) \in V
  <2>1. n - 1 \in 0 .. Len(lines)
    BY <1>1
  <2>2. Interpret(BlockAt(lines, n - 1)) \in Interpreted
    BY <2>1, BlockAtEffect DEF Interpreted
  <2>3. Append(v, Interpret(BlockAt(lines, n - 1))) \in V
    BY <2>2
  <2> HIDE DEF V
  <2> QED
    BY <1>2, <2>3 DEF AddMessage
<1> HIDE DEF Add
<1>3. step \in Steps(Len(lines), V)
  BY <1>2 DEF Steps
<1>4. <<>> \in V
  BY EmptySeq
<1> HIDE DEF V
<1>5. PICK f \in [0 .. Len(lines) -> V] :
        f[0] = <<>> /\ \A n \in 1 .. Len(lines) : f[n] = step[<<f[n - 1], n>>]
  <2> HIDE DEF step
  <2>1. Iterations(Len(lines), V, <<>>, step) # {}
    BY <1>1, <1>3, <1>4, Iterate
  <2> QED
    BY <2>1 DEF Iterations
<1> DEFINE IsRead(g) == g = [n \in 0 .. Len(lines) |->
                               IF n = 0 THEN <<>> ELSE Add(g[n - 1], n)]
<1>6. \A n \in 1 .. Len(lines) : f[n] = Add(f[n - 1], n)
  <2> SUFFICES ASSUME NEW n \in 1 .. Len(lines) PROVE f[n] = Add(f[n - 1], n)
    OBVIOUS
  <2>1. n - 1 \in 0 .. Len(lines)
    BY <1>1
  <2>2. <<f[n - 1], n>> \in V \X (1 .. Len(lines))
    BY <2>1
  <2>3. step[<<f[n - 1], n>>] = Add(f[n - 1], n)
    BY <2>2
  <2> QED
    BY <1>5, <2>3
<1> HIDE DEF step
<1>7. IsRead(f)
  BY <1>1, <1>5, <1>6
<1> DEFINE J == MessagePrefixes(lines)
<1>8. IsRead(J)
  <2>1. J = CHOOSE g : IsRead(g)
    BY DEF MessagePrefixes, Add
  <2> HIDE DEF IsRead, J
  <2> QED
    BY <1>7, <2>1, Zenon
<1> HIDE DEF J
<1>9. /\ J[0] = <<>> /\ \A n \in 1 .. Len(lines) : J[n] = Add(J[n - 1], n)
      /\ J = [n \in 0 .. Len(lines) |-> J[n]]
  <2>1. J = [n \in 0 .. Len(lines) |-> IF n = 0 THEN <<>> ELSE Add(J[n - 1], n)]
    BY <1>8 DEF J
  <2>2. \A n \in 0 .. Len(lines) : J[n] = IF n = 0 THEN <<>> ELSE Add(J[n - 1], n)
    BY <2>1, Zenon
  <2>3. 0 \in 0 .. Len(lines) /\ \A n \in 1 .. Len(lines) : n \in 0 .. Len(lines) /\ n # 0
    BY <1>1
  <2>4. J = [n \in 0 .. Len(lines) |-> J[n]]
    BY <2>1, <2>2
  <2> QED
    BY <2>2, <2>3, <2>4, Zenon
<1>10. \A n \in 0 .. Len(lines) : J[n] \in V
  <2> DEFINE T == {n \in 0 .. Len(lines) : J[n] \in V}
  <2>1. 0 \in T
    BY <1>1, <1>4, <1>9
  <2>2. ASSUME NEW n \in 0 .. Len(lines) - 1, n \in T PROVE n + 1 \in T
    <3>1. n + 1 \in 1 .. Len(lines) /\ (n + 1) - 1 = n
      BY <1>1
    <3>2. J[n + 1] = Add(J[n], n + 1)
      BY <1>9, <3>1
    <3> QED
      BY <1>2, <2>2, <3>1, <3>2
  <2> HIDE DEF T
  <2>3. 0 .. Len(lines) \subseteq T
    BY <1>1, <2>1, <2>2, UpTo
  <2> QED
    BY <2>3 DEF T
<1> QED
  BY <1>9, <1>10 DEF J, V, Add

(* Lines that come later change neither the blocks before them nor the     *)
(* messages.                                                               *)
LEMMA SameBlock ==
  ASSUME NEW lines \in Block, NEW more \in Block, Len(lines) <= Len(more),
         \A i \in 1 .. Len(lines) : lines[i] = more[i],
         NEW n \in 0 .. Len(lines)
  PROVE  LastEmpty(more, n) = LastEmpty(lines, n) /\ BlockAt(more, n) = BlockAt(lines, n)
<1>1. Len(lines) \in Nat /\ Len(more) \in Nat /\ n \in 0 .. Len(more)
  BY DEF Block
<1>2. LastEmpty(more, n) = LastEmpty(lines, n)
  <2>1. {j \in 1 .. n : more[j] = <<>>} = {j \in 1 .. n : lines[j] = <<>>}
    BY <1>1
  <2> QED
    BY <2>1, Zenon DEF LastEmpty
<1> DEFINE e == LastEmpty(lines, n)
           x == BlockAt(lines, n)
           y == BlockAt(more, n)
<1>3. /\ e \in 0 .. n
      /\ x \in Block /\ Len(x) = n - e /\ \A i \in 1 .. n - e : x[i] = lines[e + i]
  BY BlockAtEffect
<1> DEFINE d == LastEmpty(more, n)
<1> HIDE DEF d
<1>9. y \in Block /\ Len(y) = n - d /\ \A i \in 1 .. n - d : y[i] = more[d + i]
  BY <1>1, BlockAtEffect DEF d
<1> HIDE DEF e, x, y
<1>4. y \in Block /\ Len(y) = n - e /\ \A i \in 1 .. n - e : y[i] = more[e + i]
  <2>1. d = e
    BY <1>2, Zenon DEF d, e
  <2> QED
    BY <1>9, <2>1
<1> HIDE DEF e, x, y
<1>5. ASSUME NEW i \in 1 .. Len(x) PROVE x[i] = y[i]
  <2>1. i \in 1 .. n - e /\ e + i \in 1 .. Len(lines)
    BY <1>1, <1>3
  <2> QED
    BY <1>3, <1>4, <2>1
<1>6. x = y
  BY <1>3, <1>4, <1>5, SeqEqual DEF Block
<1> QED
  BY <1>2, <1>6 DEF x, y

LEMMA SameMessages ==
  ASSUME NEW lines \in Block, NEW more \in Block, Len(lines) <= Len(more),
         \A i \in 1 .. Len(lines) : lines[i] = more[i]
  PROVE  MessagePrefixes(more)[Len(lines)] = MessagesIn(lines)
<1> DEFINE f == MessagePrefixes(lines)
           g == MessagePrefixes(more)
           T == {n \in 0 .. Len(lines) : g[n] = f[n]}
<1>1. Len(lines) \in Nat /\ Len(more) \in Nat
  BY DEF Block
<1>2. /\ f[0] = <<>> /\ g[0] = <<>>
      /\ \A n \in 1 .. Len(lines) : f[n] = AddMessage(lines, f[n - 1], n)
      /\ \A n \in 1 .. Len(more) : g[n] = AddMessage(more, g[n - 1], n)
  BY MessagesEffect
<1> HIDE DEF f, g
<1>3. 0 \in T
  BY <1>1, <1>2
<1>4. ASSUME NEW n \in 0 .. Len(lines) - 1, n \in T PROVE n + 1 \in T
  <2>1. /\ n + 1 \in 1 .. Len(lines) /\ n + 1 \in 1 .. Len(more) /\ (n + 1) - 1 = n
        /\ n + 1 \in 0 .. Len(lines) /\ n \in 0 .. Len(lines)
    BY <1>1
  <2>2. f[n + 1] = AddMessage(lines, f[n], n + 1) /\ g[n + 1] = AddMessage(more, f[n], n + 1)
    BY <1>2, <1>4, <2>1
  <2>3. BlockAt(more, n) = BlockAt(lines, n) /\ more[n + 1] = lines[n + 1]
    BY <1>1, <2>1, SameBlock
  <2>4. AddMessage(more, f[n], n + 1) = AddMessage(lines, f[n], n + 1)
    BY <2>1, <2>3 DEF AddMessage
  <2> QED
    BY <2>1, <2>2, <2>4
<1>5. 0 .. Len(lines) \subseteq T
  <2> HIDE DEF T
  <2> QED
    BY <1>1, <1>3, <1>4, UpTo
<1>6. Len(lines) \in T
  BY <1>1, <1>5
<1> QED
  BY <1>6 DEF f, g, MessagesIn

(* The messages of the first lines are the first messages.                 *)
LEMMA MessagesArePrefix ==
  ASSUME NEW lines \in Block, NEW more \in Block, IsPrefix(lines, more)
  PROVE  IsPrefix(MessagesIn(lines), MessagesIn(more))
<1> DEFINE f == MessagePrefixes(more)
<1>1. Len(lines) <= Len(more) /\ \A i \in 1 .. Len(lines) : lines[i] = more[i]
  BY ElementsOfPrefix DEF Block
<1>2. /\ Len(more) \in Nat /\ Len(lines) \in 0 .. Len(more)
      /\ f \in [0 .. Len(more) -> Seq(Interpreted)]
  BY <1>1, MessagesEffect DEF Block
<1>3. f[Len(lines)] = MessagesIn(lines)
  BY <1>1, SameMessages
<1>4. ASSUME NEW n \in 1 .. Len(more)
      PROVE  f[n] = f[n - 1] \/ \E msg \in Interpreted : f[n] = Append(f[n - 1], msg)
  <2>1. n - 1 \in 0 .. Len(more)
    BY <1>2
  <2>2. f[n] = AddMessage(more, f[n - 1], n)
    BY MessagesEffect
  <2>3. Interpret(BlockAt(more, n - 1)) \in Interpreted
    BY <2>1, BlockAtEffect DEF Interpreted
  <2> HIDE DEF f
  <2> QED
    BY <2>2, <2>3 DEF AddMessage
<1> HIDE DEF f
<1>5. IsPrefix(f[Len(lines)], f[Len(more)])
  BY <1>2, <1>4, Grows
<1> QED
  BY <1>3, <1>5 DEF f, MessagesIn

(* An empty line completes the open block; another line joins it.          *)
LEMMA MessagesOfLonger ==
  ASSUME NEW lines \in Block, NEW line \in Seq(Token)
  PROVE  LET longer == Append(lines, line)
         IN  /\ line = <<>> =>
                  /\ MessagesIn(longer)
                       = Append(MessagesIn(lines), Interpret(OpenLines(lines)))
                  /\ OpenLines(longer) = <<>>
             /\ line # <<>> =>
                  /\ MessagesIn(longer) = MessagesIn(lines)
                  /\ OpenLines(longer) = Append(OpenLines(lines), line)
<1> DEFINE longer == Append(lines, line)
           k == Len(lines)
<1>1. /\ longer \in Block /\ k \in Nat /\ Len(longer) = k + 1 /\ longer[k + 1] = line
      /\ \A i \in 1 .. k : lines[i] = longer[i]
  BY Appended
<1> HIDE DEF longer
<1>2. k + 1 \in 1 .. Len(longer) /\ (k + 1) - 1 = k /\ k <= Len(longer) /\ k \in 0 .. k
  BY <1>1
<1>3. MessagesIn(longer) = AddMessage(longer, MessagesIn(lines), k + 1)
  <2>1. MessagePrefixes(longer)[k + 1]
        = AddMessage(longer, MessagePrefixes(longer)[k], k + 1)
    BY <1>1, <1>2, MessagesEffect
  <2>2. MessagePrefixes(longer)[k] = MessagesIn(lines)
    BY <1>1, <1>2, SameMessages
  <2> QED
    BY <1>1, <2>1, <2>2 DEF MessagesIn
<1>4. LastEmpty(longer, k) = LastEmpty(lines, k) /\ BlockAt(longer, k) = BlockAt(lines, k)
  BY <1>1, <1>2, SameBlock
<1>5. MessagesIn(longer) = IF line = <<>> THEN Append(MessagesIn(lines), Interpret(OpenLines(lines)))
                           ELSE MessagesIn(lines)
  BY <1>1, <1>2, <1>3, <1>4 DEF AddMessage, OpenLines
<1> DEFINE e == LastEmpty(lines, k)
           now == LastEmpty(longer, k + 1)
           T == {j \in 1 .. k : longer[j] = <<>>}
<1>6. /\ e = Max({0} \cup T) /\ T \subseteq 1 .. k
      /\ now = Max({0} \cup (T \cup (IF line = <<>> THEN {k + 1} ELSE {})))
  <2>1. {j \in 1 .. k + 1 : longer[j] = <<>>} = T \cup (IF line = <<>> THEN {k + 1} ELSE {})
    BY <1>1
  <2>2. {j \in 1 .. k : lines[j] = <<>>} = T
    BY <1>1
  <2> HIDE DEF T, k
  <2>3. now = Max({0} \cup (T \cup (IF line = <<>> THEN {k + 1} ELSE {})))
    BY <2>1 DEF LastEmpty
  <2>4. e = Max({0} \cup T)
    BY <2>2 DEF LastEmpty
  <2>5. T \subseteq 1 .. k
    BY DEF T
  <2> QED
    BY <2>3, <2>4, <2>5
<1>7. /\ e \in 0 .. k
      /\ OpenLines(lines) \in Block /\ Len(OpenLines(lines)) = k - e
      /\ \A i \in 1 .. k - e : OpenLines(lines)[i] = lines[e + i]
  BY <1>2, BlockAtEffect DEF OpenLines
<1>8. /\ now \in 0 .. k + 1
      /\ OpenLines(longer) \in Block /\ Len(OpenLines(longer)) = (k + 1) - now
      /\ \A i \in 1 .. (k + 1) - now : OpenLines(longer)[i] = longer[now + i]
  <2>1. k + 1 \in 0 .. Len(longer)
    BY <1>1
  <2> HIDE DEF k
  <2>2. /\ now \in 0 .. k + 1
        /\ BlockAt(longer, k + 1) \in Block /\ Len(BlockAt(longer, k + 1)) = (k + 1) - now
        /\ \A i \in 1 .. (k + 1) - now : BlockAt(longer, k + 1)[i] = longer[now + i]
    BY <1>1, <2>1, BlockAtEffect
  <2> QED
    BY <1>1, <2>2 DEF OpenLines
<1> HIDE DEF e, now, T, k
<1>9. CASE line = <<>>
  <2> DEFINE U == T \cup {k + 1}
  <2>1. U \subseteq 1 .. k + 1 /\ k + 1 \in Nat /\ k + 1 \in U
    BY <1>1, <1>6
  <2>2. now = Max({0} \cup U)
    BY <1>6, <1>9
  <2> HIDE DEF U
  <2>3. k + 1 <= now
    BY <2>1, <2>2, GreatestOrZero
  <2>4. Len(OpenLines(longer)) = 0
    BY <1>1, <1>8, <2>3
  <2>5. OpenLines(longer) = <<>>
    BY <1>8, <2>4, EmptySeq, SeqEqual DEF Block
  <2> QED
    BY <1>5, <1>9, <2>5 DEF longer
<1>10. CASE line # <<>>
  <2>1. now = e
    BY <1>6, <1>10
  <2> DEFINE x == OpenLines(longer)
             y == Append(OpenLines(lines), line)
  <2>2. /\ y \in Block /\ Len(y) = (k - e) + 1 /\ y[(k - e) + 1] = line
        /\ \A i \in 1 .. k - e : y[i] = OpenLines(lines)[i]
    BY <1>7, Appended
  <2>3. /\ x \in Block /\ Len(x) = (k + 1) - e
        /\ \A i \in 1 .. (k + 1) - e : x[i] = longer[e + i]
    BY <1>8, <2>1
  <2> HIDE DEF x, y
  <2>4. Len(x) = Len(y) /\ Len(x) = (k - e) + 1
    BY <1>1, <1>7, <2>2, <2>3
  <2>5. ASSUME NEW i \in 1 .. Len(x) PROVE x[i] = y[i]
    <3>1. i \in 1 .. (k + 1) - e /\ x[i] = longer[e + i]
      BY <2>3
    <3>2. CASE i = (k - e) + 1
      <4>1. e + i = k + 1
        BY <1>1, <1>7, <3>2
      <4> QED
        BY <1>1, <2>2, <3>1, <3>2, <4>1
    <3>3. CASE i # (k - e) + 1
      <4>1. i \in 1 .. k - e /\ e + i \in 1 .. k
        BY <1>1, <1>7, <2>4, <3>3
      <4> QED
        BY <1>1, <1>7, <2>2, <3>1, <4>1
    <3> QED
      BY <3>2, <3>3
  <2>6. x = y
    BY <2>2, <2>3, <2>4, <2>5, SeqEqual DEF Block
  <2> QED
    BY <1>5, <1>10, <2>6 DEF longer, x, y
<1> QED
  BY <1>9, <1>10

(* No lines have no message and no open block.                             *)
LEMMA NoMessages == MessagesIn(<<>>) = <<>> /\ OpenLines(<<>>) = <<>>
<1> DEFINE none == <<>>
<1>1. none \in Block /\ Len(none) = 0 /\ 0 \in 0 .. Len(none)
  BY EmptySeq DEF Block
<1> HIDE DEF none
<1>2. MessagesIn(none) = <<>>
  BY <1>1, MessagesEffect DEF MessagesIn
<1>3. LastEmpty(none, 0) \in 0 .. 0 /\ OpenLines(none) \in Block
      /\ Len(OpenLines(none)) = 0 - LastEmpty(none, 0)
  BY <1>1, BlockAtEffect DEF OpenLines
<1>4. Len(OpenLines(none)) = 0
  BY <1>3
<1>5. OpenLines(none) = <<>>
  BY <1>3, <1>4, EmptySeq, SeqEqual DEF Block
<1> QED
  BY <1>2, <1>5 DEF none

(* What was read of a text are its first lines and its first messages.     *)
LEMMA ReadIsPrefix ==
  ASSUME NEW text, NEW unread, Cut(text, unread)
  PROVE  /\ IsPrefix(LinesRead(text, unread), LinesOf(text))
         /\ IsPrefix(MessagesIn(LinesRead(text, unread)), MessagesOf(text))
<1>1. /\ text \in Seq(Token) /\ ReadUpTo(text, unread) \in 0 .. Len(text)
      /\ LinesRead(text, unread) \in Block
  BY CutPlace DEF Cut
<1>2. IsPrefix(LinesRead(text, unread), LinesOf(text))
  BY <1>1, LinesArePrefix DEF LinesRead
<1>3. LinesOf(text) \in Block
  <2>1. Len(text) \in 0 .. Len(text)
    BY <1>1
  <2> QED
    BY <1>1, <2>1, LinesEffect DEF LinesOf
<1> QED
  BY <1>1, <1>2, <1>3, MessagesArePrefix DEF MessagesOf

(* No terminator in a part of a text.                                      *)
HasNoEnd(part) == \A i \in 1 .. Len(part) : part[i] \notin EOL

(* The last token of a text is that of its last chunk.                     *)
LEMMA EndOfConcat ==
  ASSUME NEW text \in Seq(Token), NEW chunk \in Seq(Token), chunk # <<>>
  PROVE  (text \o chunk)[Len(text \o chunk)] = chunk[Len(chunk)]
<1>1. Len(text) \in Nat /\ Len(chunk) \in Nat /\ Len(chunk) # 0
  BY EmptySeq
<1>2. /\ Len(text \o chunk) = Len(text) + Len(chunk)
      /\ \A i \in 1 .. Len(text) + Len(chunk) :
           (text \o chunk)[i] = IF i <= Len(text) THEN text[i] ELSE chunk[i - Len(text)]
  BY ConcatProperties
<1>3. /\ Len(text) + Len(chunk) \in 1 .. Len(text) + Len(chunk)
      /\ ~ Len(text) + Len(chunk) <= Len(text)
      /\ (Len(text) + Len(chunk)) - Len(text) = Len(chunk)
  BY <1>1
<1> QED
  BY <1>2, <1>3

================================================================================
