----------------------------- MODULE BufferProofs -----------------------------
(***************************************************************************)
(* Theorems about Buffer for every alphabet, every set of chunks and every *)
(* set of limits.                                                          *)
(***************************************************************************)
EXTENDS Buffer, SequenceTheorems, WellFoundedInduction, TLAPS

(* A set of naturals that is not empty has a least element.                *)
LEMMA LeastNat ==
  ASSUME NEW T, T \subseteq Nat, T # {}
  PROVE  \E i \in T : \A j \in T : i <= j
<1>1. PICK i \in T : \A j \in T : ~ (<<j, i>> \in OpToRel(<, Nat))
  BY NatLessThanWellFounded, WFMin
<1>2. \A j \in T : ~ (j < i)
  BY <1>1 DEF OpToRel
<1> QED
  BY <1>2

(* A set of naturals with an upper bound has a greatest element.           *)
LEMMA GreatestNat ==
  ASSUME NEW k \in Nat, NEW T, T \subseteq 0 .. k, T # {}
  PROVE  \E i \in T : \A j \in T : i >= j
<1> DEFINE U == {n \in Nat : \A j \in T : j <= n}
<1>1. PICK n \in U : \A m \in U : n <= m
  <2>1. k \in U
    OBVIOUS
  <2> QED
    BY <2>1, LeastNat
<1>2. n \in T
  <2>1. SUFFICES ASSUME n \notin T PROVE FALSE
    OBVIOUS
  <2>2. n # 0
    <3>1. PICK j \in T : TRUE
      OBVIOUS
    <3>2. j \in Nat /\ j <= n /\ j # n
      BY <1>1, <2>1
    <3> QED
      BY <3>2
  <2>3. n - 1 \in U
    BY <1>1, <2>1, <2>2
  <2> QED
    BY <1>1, <2>3
<1> QED
  BY <1>1, <1>2

(* find_line_end returns a position in the string that holds a terminator, *)
(* and no terminator comes before it.                                      *)
LEMMA FirstLineEnd ==
  ASSUME TypeOK, NEW start \in Nat, LineEnds(start) # {}
  PROVE  /\ FindLineEnd(start) \in LineEnds(start)
         /\ \A j \in LineEnds(start) : FindLineEnd(start) <= j
<1>1. LineEnds(start) \subseteq Nat
  BY DEF LineEnds, TypeOK
<1>2. \E i \in LineEnds(start) : \A j \in LineEnds(start) : i <= j
  BY <1>1, LeastNat
<1> QED
  BY <1>2 DEF FindLineEnd

(* The bytes of Unread are the bytes of the string from read_pos_ on.      *)
LEMMA UnreadBytes ==
  ASSUME TypeOK
  PROVE  /\ Unread \in Seq(Byte)
         /\ Len(Unread) = Len(buffer_) - read_pos_
         /\ \A i \in 1 .. Len(Unread) : Unread[i] = buffer_[read_pos_ + i]
<1>1. \A i \in read_pos_ + 1 .. Len(buffer_) : buffer_[i] \in Byte
  BY DEF TypeOK
<1>2. read_pos_ + 1 \in Int /\ Len(buffer_) \in Int
  BY DEF TypeOK
<1> DEFINE m == read_pos_ + 1
           n == Len(buffer_)
<1>3. /\ SubSeq(buffer_, m, n) \in Seq(Byte)
      /\ Len(SubSeq(buffer_, m, n)) = IF m <= n THEN n - m + 1 ELSE 0
      /\ \A i \in 1 .. n - m + 1 : SubSeq(buffer_, m, n)[i] = buffer_[m + i - 1]
  BY <1>1, <1>2, SubSeqProperties
<1>4. Len(Unread) = Len(buffer_) - read_pos_
  BY <1>3 DEF Unread, TypeOK
<1>5. \A i \in 1 .. Len(Unread) : Unread[i] = buffer_[read_pos_ + i]
  BY <1>3, <1>4 DEF Unread, TypeOK
<1> QED
  BY <1>3, <1>4, <1>5 DEF Unread

(* The trim loop of read_line finds nothing to cut: a line without         *)
(* terminators keeps its length.                                           *)
LEMMA NothingToTrim ==
  ASSUME NEW line \in Seq(Byte), \A i \in 1 .. Len(line) : line[i] \notin EOL
  PROVE  TrimmedLen(line) = Len(line)
<1> DEFINE Cut(n) == /\ n = 0 \/ line[n] \notin EOL
                     /\ \A i \in n + 1 .. Len(line) : line[i] \in EOL
<1>1. Len(line) \in 0 .. Len(line) /\ Cut(Len(line))
  OBVIOUS
<1>2. \A n \in 0 .. Len(line) : Cut(n) => n = Len(line)
  OBVIOUS
<1>3. TrimmedLen(line) = CHOOSE n \in 0 .. Len(line) : Cut(n)
  BY DEF TrimmedLen
<1> HIDE DEF Cut
<1> QED
  BY <1>1, <1>2, <1>3

(* What read_line hands out and where it leaves the read position.         *)
LEMMA ReadLineEffect ==
  ASSUME TypeOK, LineEnds(read_pos_) # {}
  PROVE  /\ FindLineEnd(read_pos_) \in read_pos_ .. Len(buffer_) - 1
         /\ buffer_[FindLineEnd(read_pos_) + 1] \in EOL
         /\ \A i \in read_pos_ + 1 .. FindLineEnd(read_pos_) : buffer_[i] \notin EOL
         /\ RawLine \in Seq(Byte)
         /\ SubSeq(RawLine, 1, TrimmedLen(RawLine)) = RawLine
         /\ AfterTerminator(FindLineEnd(read_pos_)) \in read_pos_ + 1 .. Len(buffer_)
<1> DEFINE e == FindLineEnd(read_pos_)
<1>1. e \in LineEnds(read_pos_) /\ \A j \in LineEnds(read_pos_) : e <= j
  BY FirstLineEnd DEF TypeOK
<1>2. e \in read_pos_ .. Len(buffer_) - 1 /\ buffer_[e + 1] \in EOL
  BY <1>1 DEF LineEnds
<1>3. \A i \in read_pos_ + 1 .. e : buffer_[i] \notin EOL
  <2> SUFFICES ASSUME NEW i \in read_pos_ + 1 .. e, buffer_[i] \in EOL
               PROVE  FALSE
    OBVIOUS
  <2>1. i - 1 \in LineEnds(read_pos_)
    BY <1>2 DEF LineEnds, TypeOK
  <2> QED
    BY <1>1, <1>2, <2>1 DEF TypeOK
<1>4. /\ RawLine \in Seq(Byte)
      /\ Len(RawLine) = e - read_pos_
      /\ \A i \in 1 .. Len(RawLine) : RawLine[i] = buffer_[read_pos_ + i]
  <2> HIDE DEF e
  <2>1. read_pos_ + 1 \in Int /\ e \in Int
    BY <1>2 DEF TypeOK
  <2>2. \A i \in read_pos_ + 1 .. e : buffer_[i] \in Byte
    BY <1>2 DEF TypeOK
  <2>3. RawLine = SubSeq(buffer_, read_pos_ + 1, e)
    BY DEF RawLine, e
  <2>4. /\ RawLine \in Seq(Byte)
        /\ Len(RawLine) = IF read_pos_ + 1 <= e THEN e - (read_pos_ + 1) + 1 ELSE 0
        /\ \A i \in 1 .. e - (read_pos_ + 1) + 1 :
             RawLine[i] = buffer_[(read_pos_ + 1) + i - 1]
    BY <2>1, <2>2, <2>3, SubSeqProperties
  <2> QED
    BY <1>2, <2>4 DEF TypeOK
<1>5. \A i \in 1 .. Len(RawLine) : RawLine[i] \notin EOL
  <2> SUFFICES ASSUME NEW i \in 1 .. Len(RawLine) PROVE RawLine[i] \notin EOL
    OBVIOUS
  <2>1. read_pos_ + i \in read_pos_ + 1 .. e
    BY <1>2, <1>4 DEF TypeOK
  <2> QED
    BY <1>3, <1>4, <2>1
<1>6. SubSeq(RawLine, 1, TrimmedLen(RawLine)) = RawLine
  BY <1>4, <1>5, NothingToTrim, SubSeqFull
<1>7. AfterTerminator(e) \in read_pos_ + 1 .. Len(buffer_)
  <2> HIDE DEF e
  <2> QED
    BY <1>2 DEF AfterTerminator, TypeOK
<1> QED
  BY <1>2, <1>3, <1>4, <1>6, <1>7

--------------------------------------------------------------------------------

(* append.                                                                 *)
LEMMA AppendChunkType ==
  ASSUME TypeOK, NEW chunk \in Seq(Byte), AppendChunk(chunk)
  PROVE  /\ TypeOK'
         /\ ret' \in [call : {"append"}, err : {"success", "buffer_overflow"}]
<1>1. chunk \in Seq(Byte)
  OBVIOUS
<1>2. Unread \in Seq(Byte) /\ Len(Unread) = Len(buffer_) - read_pos_
  BY UnreadBytes
<1>3. ret' \in [call : {"append"}, err : {"success", "buffer_overflow"}]
  BY DEF AppendChunk
<1>4. CASE buffer_' = buffer_ \o chunk /\ read_pos_' = read_pos_
  <2>1. buffer_' \in Seq(Byte) /\ Len(buffer_') = Len(buffer_) + Len(chunk)
    BY <1>1, <1>4, ConcatProperties DEF TypeOK
  <2> QED
    BY <1>1, <1>3, <1>4, <2>1 DEF TypeOK, AppendChunk, Results
<1>5. CASE buffer_' = Unread \o chunk /\ read_pos_' = 0
  <2>1. buffer_' \in Seq(Byte)
    BY <1>1, <1>2, <1>5, ConcatProperties
  <2> QED
    BY <1>3, <1>5, <2>1 DEF TypeOK, AppendChunk, Results
<1>6. CASE Compact
  BY <1>2, <1>3, <1>6 DEF Compact, TypeOK, AppendChunk, Results
<1> QED
  BY <1>4, <1>5, <1>6 DEF AppendChunk

(* read_line; a line that is returned moves the read position.             *)
LEMMA ReadLineType ==
  ASSUME TypeOK, ReadLine
  PROVE  /\ TypeOK'
         /\ ret' \in [call : {"read_line"}, line : Seq(Byte) \cup {None}]
         /\ \/ ret'.line = None
            \/ read_pos_' \in read_pos_ + 1 .. Len(buffer_)
<1>1. CASE LineEnds(read_pos_) = {}
  <2>1. ret' = [call |-> "read_line", line |-> None] /\ UNCHANGED read_pos_
    BY <1>1 DEF ReadLine
  <2> QED
    BY <2>1 DEF ReadLine, TypeOK, Results
<1>2. CASE LineEnds(read_pos_) # {}
  <2>1. /\ RawLine \in Seq(Byte)
        /\ SubSeq(RawLine, 1, TrimmedLen(RawLine)) = RawLine
        /\ AfterTerminator(FindLineEnd(read_pos_)) \in read_pos_ + 1 .. Len(buffer_)
    BY <1>2, ReadLineEffect
  <2>2. /\ ret' = [call |-> "read_line", line |-> RawLine]
        /\ read_pos_' = AfterTerminator(FindLineEnd(read_pos_))
    BY <1>2, <2>1 DEF ReadLine
  <2>3. ret' \in [call : {"read_line"}, line : Seq(Byte) \cup {None}]
    BY <2>1, <2>2
  <2>4. ret' \in Results
    BY <2>3 DEF Results
  <2>5. read_pos_' \in read_pos_ + 1 .. Len(buffer_)
    BY <2>1, <2>2
  <2>6. buffer_' = buffer_ /\ max_size_' = max_size_
    BY DEF ReadLine
  <2>7. read_pos_' \in 0 .. Len(buffer_')
    BY <2>5, <2>6 DEF TypeOK
  <2> QED
    BY <2>3, <2>4, <2>5, <2>6, <2>7 DEF TypeOK
<1> QED
  BY <1>1, <1>2

(* clear.                                                                  *)
LEMMA ClearType ==
  ASSUME TypeOK, Clear
  PROVE  TypeOK'
  BY DEF Clear, TypeOK, Results

(* Type correctness of every operation of Buffer; in particular read_pos_  *)
(* never passes the end of the string, so no erase or view is out of range. *)
THEOREM TypeCorrect == Spec => []TypeOK
<1>1. Init => TypeOK
  BY BufferAssumption DEF Init, TypeOK, Results
<1>2. TypeOK /\ [Next]_vars => TypeOK'
  <2> SUFFICES ASSUME TypeOK, [Next]_vars PROVE TypeOK'
    OBVIOUS
  <2>1. ASSUME NEW chunk \in Chunks, AppendChunk(chunk) PROVE TypeOK'
    BY <2>1, BufferAssumption, AppendChunkType
  <2>2. CASE ReadLine
    BY <2>2, ReadLineType
  <2>3. CASE Clear
    BY <2>3, ClearType
  <2>4. ASSUME NEW n \in MaxSizes, SetMaxSize(n) PROVE TypeOK'
    BY <2>4, BufferAssumption DEF SetMaxSize, TypeOK, Results
  <2>5. CASE UNCHANGED vars
    BY <2>5 DEF vars, TypeOK
  <2> QED
    BY <2>1, <2>2, <2>3, <2>4, <2>5 DEF Next
<1> QED
  BY <1>1, <1>2, PTL DEF Spec

(* No operation makes the string longer than the limit in force, whatever  *)
(* the history of reads, compactions and changes of the limit.             *)
THEOREM GrowthBounded == Spec => GrowthIsBounded
<1> DEFINE A == Len(buffer_') > Len(buffer_) => Len(buffer_') <= max_size_
<1>1. TypeOK /\ [Next]_vars => [A]_vars
  <2> SUFFICES ASSUME TypeOK, Next, Len(buffer_') > Len(buffer_)
               PROVE  Len(buffer_') <= max_size_
    BY DEF A
  <2>1. ASSUME NEW chunk \in Chunks, AppendChunk(chunk)
        PROVE  Len(buffer_') <= max_size_
    <3>1. chunk \in Seq(Byte)
      BY BufferAssumption
    <3>2. Unread \in Seq(Byte) /\ Len(Unread) = Len(buffer_) - read_pos_
      BY UnreadBytes
    <3>3. /\ Len(buffer_ \o chunk) = Len(buffer_) + Len(chunk)
          /\ Len(Unread \o chunk) = Len(Unread) + Len(chunk)
      BY <3>1, <3>2, ConcatProperties DEF TypeOK
    <3>4. CASE chunk = <<>> /\ buffer_' = buffer_ \o chunk
      BY <3>3, <3>4, EmptySeq DEF TypeOK
    <3>5. CASE Compact
      BY <3>2, <3>5 DEF Compact, TypeOK
    <3> QED
      BY <2>1, <3>3, <3>4, <3>5 DEF AppendChunk, Fits
  <2> QED
    BY <2>1 DEF Next, ReadLine, Clear, SetMaxSize, TypeOK
<1> QED
  BY <1>1, TypeCorrect, PTL DEF Spec, GrowthIsBounded

--------------------------------------------------------------------------------
(* Lemmas on sequences for the refinement of LineStream.                   *)

(* Appending to a sequence appends to each of its suffixes.                *)
LEMMA SuffixOfConcat ==
  ASSUME NEW s \in Seq(Byte), NEW t \in Seq(Byte), NEW p \in 0 .. Len(s)
  PROVE  SubSeq(s \o t, p + 1, Len(s \o t)) = SubSeq(s, p + 1, Len(s)) \o t
<1> DEFINE u == s \o t
           x == SubSeq(u, p + 1, Len(u))
           v == SubSeq(s, p + 1, Len(s))
<1>1. /\ u \in Seq(Byte)
      /\ Len(u) = Len(s) + Len(t)
      /\ \A i \in 1 .. Len(u) : u[i] = IF i <= Len(s) THEN s[i] ELSE t[i - Len(s)]
  BY ConcatProperties
<1> HIDE DEF u
<1>2. /\ x \in Seq(Byte)
      /\ Len(x) = Len(u) - p
      /\ \A i \in 1 .. Len(u) - p : x[i] = u[p + i]
  <2>1. \A i \in p + 1 .. Len(u) : u[i] \in Byte
    BY <1>1
  <2>2. p + 1 \in Int /\ Len(u) \in Int
    BY <1>1
  <2>3. /\ x \in Seq(Byte)
        /\ Len(x) = IF p + 1 <= Len(u) THEN Len(u) - (p + 1) + 1 ELSE 0
        /\ \A i \in 1 .. Len(u) - (p + 1) + 1 : x[i] = u[(p + 1) + i - 1]
    BY <2>1, <2>2, SubSeqProperties
  <2> HIDE DEF x
  <2>4. /\ p \in Int /\ Len(u) \in Int
        /\ p <= Len(u)
    BY <1>1
  <2>5. Len(x) = Len(u) - p
    BY <2>3, <2>4
  <2>6. ASSUME NEW i \in 1 .. Len(u) - p PROVE x[i] = u[p + i]
    <3>1. i \in 1 .. Len(u) - (p + 1) + 1 /\ (p + 1) + i - 1 = p + i
      BY <2>4
    <3> QED
      BY <3>1, <2>3
  <2> QED
    BY <2>3, <2>5, <2>6
<1>3. /\ v \in Seq(Byte)
      /\ Len(v) = Len(s) - p
      /\ \A i \in 1 .. Len(s) - p : v[i] = s[p + i]
  <2>1. /\ v \in Seq(Byte)
        /\ Len(v) = IF p + 1 <= Len(s) THEN Len(s) - (p + 1) + 1 ELSE 0
        /\ \A i \in 1 .. Len(s) - (p + 1) + 1 : v[i] = s[(p + 1) + i - 1]
    BY SubSeqProperties
  <2> HIDE DEF v
  <2> QED
    BY <2>1
<1> HIDE DEF x, v
<1>4. /\ v \o t \in Seq(Byte)
      /\ Len(v \o t) = Len(v) + Len(t)
      /\ \A i \in 1 .. Len(v) + Len(t) :
           (v \o t)[i] = IF i <= Len(v) THEN v[i] ELSE t[i - Len(v)]
  BY <1>3, ConcatProperties
<1>5. Len(x) = Len(v \o t)
  BY <1>1, <1>2, <1>3, <1>4
<1>6. ASSUME NEW i \in 1 .. Len(x) PROVE x[i] = (v \o t)[i]
  <2>1. i \in Nat /\ i >= 1 /\ i <= Len(u) - p
    BY <1>1, <1>2
  <2>2. p + i \in 1 .. Len(u) /\ x[i] = u[p + i]
    BY <1>1, <1>2, <2>1
  <2>3. u[p + i] = IF p + i <= Len(s) THEN s[p + i] ELSE t[(p + i) - Len(s)]
    BY <1>1, <2>2
  <2>4. (v \o t)[i] = IF i <= Len(v) THEN v[i] ELSE t[i - Len(v)]
    BY <1>4, <1>5
  <2>5. CASE i <= Len(v)
    BY <1>3, <2>1, <2>2, <2>3, <2>4, <2>5
  <2>6. CASE i > Len(v)
    <3>1. (p + i) - Len(s) = i - Len(v) /\ ~ (p + i <= Len(s)) /\ ~ (i <= Len(v))
      BY <1>3, <2>1, <2>6
    <3> QED
      BY <2>2, <2>3, <2>4, <3>1
  <2>7. i <= Len(v) \/ i > Len(v)
    BY <1>3, <2>1
  <2> QED
    BY <2>5, <2>6, <2>7
<1>7. x = v \o t
  BY <1>2, <1>4, <1>5, <1>6, SeqEqual
<1> QED
  BY <1>7 DEF x, v, u

(* A piece of a suffix is a piece of the sequence.                         *)
LEMMA SubSeqOfSuffix ==
  ASSUME NEW s \in Seq(Byte), NEW p \in 0 .. Len(s),
         NEW m \in 1 .. Len(s) - p + 1, NEW n \in 0 .. Len(s) - p
  PROVE  SubSeq(SubSeq(s, p + 1, Len(s)), m, n) = SubSeq(s, p + m, p + n)
<1> DEFINE v == SubSeq(s, p + 1, Len(s))
           x == SubSeq(v, m, n)
           y == SubSeq(s, p + m, p + n)
<1>1. /\ v \in Seq(Byte)
      /\ Len(v) = Len(s) - p
      /\ \A i \in 1 .. Len(s) - p : v[i] = s[p + i]
  <2>1. /\ v \in Seq(Byte)
        /\ Len(v) = IF p + 1 <= Len(s) THEN Len(s) - (p + 1) + 1 ELSE 0
        /\ \A i \in 1 .. Len(s) - (p + 1) + 1 : v[i] = s[(p + 1) + i - 1]
    BY SubSeqProperties
  <2> HIDE DEF v
  <2> QED
    BY <2>1
<1> HIDE DEF v
<1>2. /\ x \in Seq(Byte)
      /\ Len(x) = IF m <= n THEN n - m + 1 ELSE 0
      /\ \A i \in 1 .. n - m + 1 : x[i] = v[m + i - 1]
  <2>1. \A i \in m .. n : v[i] \in Byte
    BY <1>1
  <2> QED
    BY <2>1, SubSeqProperties
<1>3. /\ y \in Seq(Byte)
      /\ Len(y) = IF p + m <= p + n THEN (p + n) - (p + m) + 1 ELSE 0
      /\ \A i \in 1 .. (p + n) - (p + m) + 1 : y[i] = s[(p + m) + i - 1]
  <2>1. \A i \in p + m .. p + n : s[i] \in Byte
    OBVIOUS
  <2>2. p + m \in Int /\ p + n \in Int
    OBVIOUS
  <2> QED
    BY <2>1, <2>2, SubSeqProperties
<1> HIDE DEF x, y
<1>4. Len(x) = Len(y)
  BY <1>2, <1>3
<1>5. ASSUME NEW i \in 1 .. Len(x) PROVE x[i] = y[i]
  <2>1. i \in 1 .. n - m + 1 /\ m + i - 1 \in 1 .. Len(s) - p
    BY <1>2
  <2>2. x[i] = s[p + (m + i - 1)]
    BY <1>1, <1>2, <2>1
  <2>3. y[i] = s[(p + m) + i - 1]
    BY <1>3, <2>1
  <2>4. p + (m + i - 1) = (p + m) + i - 1
    BY <2>1
  <2> QED
    BY <2>2, <2>3, <2>4
<1>6. x = y
  BY <1>2, <1>3, <1>4, <1>5, SeqEqual
<1> QED
  BY <1>6 DEF x, y, v

--------------------------------------------------------------------------------
(* Step simulation: each operation of Buffer is an operation of LineStream *)
(* on the unread bytes.                                                    *)

LEMMA AppendImplements ==
  ASSUME TypeOK, NEW chunk \in Seq(Byte), AppendChunk(chunk)
  PROVE  LS!AppendChunk(chunk)
<1>1. chunk \in Seq(Byte) /\ Len(chunk) \in Nat
  OBVIOUS
<1>2. Unread \in Seq(Byte) /\ Len(Unread) = Len(buffer_) - read_pos_
  BY UnreadBytes
<1>3. CASE /\ chunk = <<>> \/ Fits(buffer_, chunk)
           /\ buffer_' = buffer_ \o chunk
           /\ read_pos_' = read_pos_
           /\ ret' = [call |-> "append", err |-> "success"]
  <2>1. Unread' = Unread \o chunk
    BY <1>1, <1>3, SuffixOfConcat DEF Unread, TypeOK
  <2>2. chunk = <<>> \/ Len(Unread) + Len(chunk) <= max_size_
    BY <1>1, <1>2, <1>3 DEF Fits, TypeOK
  <2> QED
    BY <1>3, <2>1, <2>2 DEF LS!AppendChunk, AppendChunk
<1>4. CASE /\ chunk # <<>>
           /\ Fits(Unread, chunk)
           /\ buffer_' = Unread \o chunk
           /\ read_pos_' = 0
           /\ ret' = [call |-> "append", err |-> "success"]
  <2>1. Unread' = Unread \o chunk
    <3>1. Unread \o chunk \in Seq(Byte)
      BY <1>1, <1>2, ConcatProperties
    <3>2. SubSeq(Unread \o chunk, 1, Len(Unread \o chunk)) = Unread \o chunk
      BY <3>1, SubSeqFull
    <3>3. Unread' = SubSeq(buffer_', read_pos_' + 1, Len(buffer_'))
      BY DEF Unread
    <3> QED
      BY <1>4, <3>2, <3>3
  <2> QED
    BY <1>4, <2>1 DEF LS!AppendChunk, AppendChunk, Fits
<1>5. CASE /\ chunk # <<>>
           /\ ~ Fits(Unread, chunk)
           /\ Compact
           /\ ret' = [call |-> "append", err |-> "buffer_overflow"]
  <2>1. Unread' = Unread
    <3>1. SubSeq(Unread, 1, Len(Unread)) = Unread
      BY <1>2, SubSeqFull
    <3>2. buffer_' = Unread /\ read_pos_' = 0
      BY <1>5 DEF Compact
    <3>3. Unread' = SubSeq(buffer_', read_pos_' + 1, Len(buffer_'))
      BY DEF Unread
    <3> QED
      BY <3>1, <3>2, <3>3
  <2>2. Len(Unread) + Len(chunk) > max_size_
    BY <1>1, <1>2, <1>5 DEF Fits, TypeOK
  <2> QED
    BY <1>5, <2>1, <2>2 DEF LS!AppendChunk, AppendChunk
<1> QED
  BY <1>3, <1>4, <1>5 DEF AppendChunk

(* read_line cuts the same line from the string as from its unread bytes.  *)
LEMMA ReadLineImplements ==
  ASSUME TypeOK, ReadLine
  PROVE  LS!ReadLine
<1>1. /\ Unread \in Seq(Byte)
      /\ Len(Unread) = Len(buffer_) - read_pos_
      /\ \A i \in 1 .. Len(Unread) : Unread[i] = buffer_[read_pos_ + i]
  BY UnreadBytes
<1>2. CASE LineEnds(read_pos_) = {}
  <2>1. ASSUME NEW i \in 1 .. Len(Unread), Unread[i] \in EOL PROVE FALSE
    <3>1. read_pos_ + i - 1 \in LineEnds(read_pos_)
      BY <1>1, <2>1 DEF LineEnds, TypeOK
    <3> QED
      BY <1>2, <3>1
  <2>2. \A i \in 1 .. Len(Unread) : Unread[i] \notin EOL
    BY <2>1
  <2>3. Unread' = Unread
    BY <1>2 DEF ReadLine, Unread
  <2> QED
    BY <1>2, <2>2, <2>3 DEF LS!ReadLine, ReadLine, EOL
<1>3. CASE LineEnds(read_pos_) # {}
  <2> DEFINE e == FindLineEnd(read_pos_)
             n == e - read_pos_ + 1
  <2>1. /\ e \in read_pos_ .. Len(buffer_) - 1
        /\ buffer_[e + 1] \in EOL
        /\ \A i \in read_pos_ + 1 .. e : buffer_[i] \notin EOL
        /\ SubSeq(RawLine, 1, TrimmedLen(RawLine)) = RawLine
        /\ AfterTerminator(e) \in read_pos_ + 1 .. Len(buffer_)
    BY <1>3, ReadLineEffect
  <2>2. /\ read_pos_' = AfterTerminator(e)
        /\ ret' = [call |-> "read_line", line |-> RawLine]
        /\ buffer_' = buffer_
        /\ max_size_' = max_size_
    BY <1>3, <2>1 DEF ReadLine
  <2>3. RawLine = SubSeq(buffer_, read_pos_ + 1, e)
    BY DEF RawLine
  <2> HIDE DEF e
  <2>4. n \in 1 .. Len(Unread) /\ Unread[n] = buffer_[e + 1]
    BY <1>1, <2>1 DEF TypeOK
  <2>5. \A i \in 1 .. n - 1 : Unread[i] \notin EOL
    BY <1>1, <2>1 DEF TypeOK
  <2>6. RawLine = SubSeq(Unread, 1, n - 1)
    <3>1. 1 \in 1 .. Len(buffer_) - read_pos_ + 1 /\ n - 1 \in 0 .. Len(buffer_) - read_pos_
      BY <2>1 DEF TypeOK
    <3>2. SubSeq(Unread, 1, n - 1) = SubSeq(buffer_, read_pos_ + 1, read_pos_ + (n - 1))
      BY <3>1, SubSeqOfSuffix DEF Unread, TypeOK
    <3>3. read_pos_ + (n - 1) = e
      BY <2>1 DEF TypeOK
    <3> QED
      BY <2>3, <3>2, <3>3
  <2>7. AfterTerminator(e) = e + LS!TerminatorLen(n)
    <3>1. n < Len(Unread) <=> e + 1 < Len(buffer_)
      BY <1>1, <2>1 DEF TypeOK
    <3>2. e + 1 < Len(buffer_) => Unread[n + 1] = buffer_[e + 2]
      BY <1>1, <2>1, <3>1 DEF TypeOK
    <3> QED
      BY <2>1, <2>4, <3>1, <3>2 DEF AfterTerminator, LS!TerminatorLen
  <2>8. Unread' = SubSeq(Unread, n + LS!TerminatorLen(n), Len(Unread))
    <3> DEFINE k == n + LS!TerminatorLen(n)
    <3>1. /\ k = AfterTerminator(e) - read_pos_ + 1
          /\ k \in 1 .. Len(buffer_) - read_pos_ + 1
          /\ Len(Unread) \in 0 .. Len(buffer_) - read_pos_
          /\ read_pos_ + k = AfterTerminator(e) + 1
          /\ read_pos_ + Len(Unread) = Len(buffer_)
      <4> HIDE DEF k
      <4>1. LS!TerminatorLen(n) \in {1, 2}
        BY DEF LS!TerminatorLen
      <4>2. k = n + LS!TerminatorLen(n)
        BY DEF k
      <4>3. k = AfterTerminator(e) - read_pos_ + 1
        BY <2>1, <2>7, <4>1, <4>2 DEF TypeOK
      <4>4. /\ AfterTerminator(e) \in Nat /\ read_pos_ \in Nat /\ Len(buffer_) \in Nat
            /\ read_pos_ + 1 <= AfterTerminator(e)
            /\ AfterTerminator(e) <= Len(buffer_)
        BY <2>1 DEF TypeOK
      <4>5. k \in 1 .. Len(buffer_) - read_pos_ + 1 /\ read_pos_ + k = AfterTerminator(e) + 1
        BY <4>3, <4>4
      <4>6. /\ Len(Unread) \in 0 .. Len(buffer_) - read_pos_
            /\ read_pos_ + Len(Unread) = Len(buffer_)
        BY <1>1, <4>4
      <4> QED
        BY <4>3, <4>5, <4>6
    <3> HIDE DEF k
    <3>2. SubSeq(Unread, k, Len(Unread)) = SubSeq(buffer_, read_pos_ + k, read_pos_ + Len(Unread))
      BY <3>1, SubSeqOfSuffix DEF Unread, TypeOK
    <3>3. Unread' = SubSeq(buffer_, AfterTerminator(e) + 1, Len(buffer_))
      BY <2>2 DEF Unread
    <3> QED
      BY <3>1, <3>2, <3>3 DEF k
  <2> HIDE DEF n
  <2> QED
    BY <2>1, <2>2, <2>4, <2>5, <2>6, <2>8 DEF LS!ReadLine, EOL
<1> QED
  BY <1>2, <1>3

(* What the operations do to the unread bytes, for the parsers that hold a *)
(* buffer.                                                                 *)
LEMMA AppendText ==
  ASSUME TypeOK, NEW chunk \in Seq(Byte), AppendChunk(chunk)
  PROVE  Unread' = IF ret'.err = "success" THEN Unread \o chunk ELSE Unread
BY AppendImplements DEF LS!AppendChunk

LEMMA ReadLineText ==
  ASSUME TypeOK, ReadLine
  PROVE  \/ /\ ret'.line = None
            /\ Unread' = Unread
            /\ \A i \in 1 .. Len(Unread) : Unread[i] \notin EOL
         \/ \E n \in 1 .. Len(Unread) :
              /\ Unread[n] \in EOL
              /\ \A i \in 1 .. n - 1 : Unread[i] \notin EOL
              /\ ret'.line = SubSeq(Unread, 1, n - 1)
              /\ LET t == IF Unread[n] = CR /\ n < Len(Unread) /\ Unread[n + 1] = LF
                          THEN 2 ELSE 1
                 IN  Unread' = SubSeq(Unread, n + t, Len(Unread))
<1>1. LS!ReadLine
  BY ReadLineImplements
<1>2. CASE /\ \A i \in 1 .. Len(Unread) : Unread[i] \notin {CR, LF}
           /\ Unread' = Unread
           /\ ret' = [call |-> "read_line", line |-> None]
  BY <1>2 DEF EOL
<1>3. ASSUME NEW n \in 1 .. Len(Unread),
             Unread[n] \in {CR, LF},
             \A i \in 1 .. n - 1 : Unread[i] \notin {CR, LF},
             ret' = [call |-> "read_line", line |-> SubSeq(Unread, 1, n - 1)],
             Unread' = SubSeq(Unread, n + LS!TerminatorLen(n), Len(Unread))
      PROVE  /\ Unread[n] \in EOL
             /\ \A i \in 1 .. n - 1 : Unread[i] \notin EOL
             /\ ret'.line = SubSeq(Unread, 1, n - 1)
             /\ LET t == IF Unread[n] = CR /\ n < Len(Unread) /\ Unread[n + 1] = LF
                         THEN 2 ELSE 1
                IN  Unread' = SubSeq(Unread, n + t, Len(Unread))
  BY <1>3 DEF LS!TerminatorLen, EOL
<1> QED
  BY <1>1, <1>2, <1>3 DEF LS!ReadLine

LEMMA ClearText ==
  ASSUME Clear
  PROVE  Unread' = <<>>
BY SubSeqEmpty DEF Clear, Unread

(* Buffer implements the plain bounded line stream: which chunks are       *)
(* refused, which lines come out and what remains do not depend on when    *)
(* the string was compacted or where the read position stands.             *)
THEOREM BufferImplementsLineStream == Spec => ImplementsLineStream
<1>1. Init => LS!Init
  <2> SUFFICES ASSUME Init PROVE LS!Init
    OBVIOUS
  <2>1. Unread = <<>>
    BY SubSeqEmpty DEF Init, Unread
  <2> QED
    BY <2>1 DEF Init, LS!Init
<1>2. TypeOK /\ [Next]_vars => [LS!Next]_(LS!vars)
  <2> SUFFICES ASSUME TypeOK, [Next]_vars PROVE LS!Next \/ UNCHANGED LS!vars
    BY DEF LS!vars
  <2>1. ASSUME NEW chunk \in Chunks, AppendChunk(chunk) PROVE LS!Next
    BY <2>1, BufferAssumption, AppendImplements DEF LS!Next
  <2>2. CASE ReadLine
    BY <2>2, ReadLineImplements DEF LS!Next
  <2>3. CASE Clear
    <3>1. Unread' = <<>>
      BY <2>3, SubSeqEmpty DEF Clear, Unread
    <3> QED
      BY <2>3, <3>1 DEF Clear, LS!Clear, LS!Next
  <2>4. ASSUME NEW n \in MaxSizes, SetMaxSize(n) PROVE LS!Next
    BY <2>4 DEF SetMaxSize, LS!SetMaxSize, LS!Next, Unread
  <2>5. CASE UNCHANGED vars
    BY <2>5 DEF vars, LS!vars, Unread
  <2> QED
    BY <2>1, <2>2, <2>3, <2>4, <2>5 DEF Next
<1> QED
  BY <1>1, <1>2, TypeCorrect, PTL DEF Spec, ImplementsLineStream, LS!Spec

--------------------------------------------------------------------------------
(* has_complete_message.                                                   *)

(* One turn of its scan at pos, when found says of each position whether   *)
(* the scan from there ends at a boundary.                                 *)
StopsAt(pos) ==
  \/ FindLineEnd(pos) = pos
  \/ FindLineEnd(pos) = pos + 1 /\ buffer_[pos + 1] = CR
StepsTo(pos) ==
  IF buffer_[FindLineEnd(pos) + 1] = LF THEN FindLineEnd(pos) + 1 ELSE FindLineEnd(pos)
Scans(found) ==
  found = [pos \in 0 .. Len(buffer_) |->
             /\ LineEnds(pos) # {}
             /\ LET line_end == FindLineEnd(pos)
                IN  \/ line_end = pos
                    \/ line_end = pos + 1 /\ buffer_[pos + 1] = CR
                    \/ found[IF buffer_[line_end + 1] = LF
                               THEN line_end + 1 ELSE line_end]]

(* The scan moves on and stays in the string.                              *)
LEMMA ScanMoves ==
  ASSUME TypeOK, NEW pos \in 0 .. Len(buffer_), LineEnds(pos) # {}
  PROVE  /\ FindLineEnd(pos) \in pos .. Len(buffer_) - 1
         /\ buffer_[FindLineEnd(pos) + 1] \in EOL
         /\ \A i \in pos .. FindLineEnd(pos) - 1 : buffer_[i + 1] \notin EOL
         /\ StepsTo(pos) \in 0 .. Len(buffer_)
<1> DEFINE e == FindLineEnd(pos)
<1>1. e \in LineEnds(pos) /\ \A j \in LineEnds(pos) : e <= j
  BY FirstLineEnd
<1>2. Len(buffer_) \in Nat
  BY DEF TypeOK
<1>3. e \in pos .. Len(buffer_) - 1 /\ buffer_[e + 1] \in EOL
  BY <1>1 DEF LineEnds
<1>4. ASSUME NEW i \in pos .. e - 1, buffer_[i + 1] \in EOL PROVE FALSE
  <2> HIDE DEF e
  <2>1. i \in pos .. Len(buffer_) - 1 /\ ~ (e <= i)
    BY <1>2, <1>3
  <2>2. i \in LineEnds(pos)
    BY <1>4, <2>1 DEF LineEnds
  <2> QED
    BY <1>1, <2>1, <2>2
<1>5. StepsTo(pos) = e \/ StepsTo(pos) = e + 1
  BY DEF StepsTo
<1> HIDE DEF e
<1>6. StepsTo(pos) \in 0 .. Len(buffer_)
  BY <1>2, <1>3, <1>5
<1> QED
  BY <1>3, <1>4, <1>6 DEF e

(* The recursion of the scan has a solution: the least set of positions    *)
(* closed under its turns.                                                 *)
LEMMA ScanExists ==
  ASSUME TypeOK
  PROVE  \E found : Scans(found)
<1> DEFINE places == 0 .. Len(buffer_)
           Turn(pos, T) == LineEnds(pos) # {} /\ (StopsAt(pos) \/ StepsTo(pos) \in T)
           Closed(T) == \A pos \in places : Turn(pos, T) => pos \in T
           least == {pos \in places : \A T \in SUBSET places : Closed(T) => pos \in T}
           turned == {pos \in places : Turn(pos, least)}
           found == [pos \in places |-> pos \in least]
<1>1. ASSUME NEW T, NEW U, T \subseteq U, NEW pos, Turn(pos, T) PROVE Turn(pos, U)
  BY <1>1
<1> HIDE DEF Turn
<1>2. turned \subseteq least
  <2> SUFFICES ASSUME NEW pos \in turned, NEW T \in SUBSET places, Closed(T)
               PROVE  pos \in T
    OBVIOUS
  <2>1. least \subseteq T
    OBVIOUS
  <2>2. pos \in places /\ Turn(pos, least)
    OBVIOUS
  <2>3. Turn(pos, T)
    BY <1>1, <2>1, <2>2
  <2> QED
    BY <2>2, <2>3
<1>3. least \subseteq turned
  <2>1. Closed(turned)
    <3> SUFFICES ASSUME NEW pos \in places, Turn(pos, turned) PROVE Turn(pos, least)
      OBVIOUS
    <3> QED
      BY <1>1, <1>2
  <2> QED
    BY <2>1
<1>4. \A pos \in places : pos \in least <=> Turn(pos, least)
  BY <1>2, <1>3
<1> HIDE DEF least
<1>5. ASSUME NEW pos \in places
      PROVE  Turn(pos, least)
               = (LineEnds(pos) # {} /\ (StopsAt(pos) \/ found[StepsTo(pos)]))
  <2>1. CASE LineEnds(pos) = {}
    BY <2>1 DEF Turn
  <2>2. CASE LineEnds(pos) # {}
    <3>1. StepsTo(pos) \in places
      BY <2>2, ScanMoves
    <3>2. found[StepsTo(pos)] = (StepsTo(pos) \in least)
      BY <3>1, Zenon
    <3> QED
      BY <3>2 DEF Turn
  <2> QED
    BY <2>1, <2>2
<1> HIDE DEF Turn
<1>6. Scans(found)
  <2> DEFINE other == [pos \in places |->
                        LineEnds(pos) # {} /\ (StopsAt(pos) \/ found[StepsTo(pos)])]
  <2>1. \A pos \in places : found[pos] = other[pos]
    BY <1>4, <1>5
  <2>2. found = other
    <3>1. found = [pos \in places |-> found[pos]] /\ other = [pos \in places |-> other[pos]]
      OBVIOUS
    <3> HIDE DEF found, other
    <3> QED
      BY <2>1, <3>1
  <2> QED
    <3> HIDE DEF found
    <3> QED
      BY <2>2 DEF Scans, StopsAt, StepsTo
<1> QED
  BY <1>6

(* has_complete_message is what such a scan says of the read position.     *)
LEMMA ScanResult ==
  ASSUME TypeOK
  PROVE  \E found : Scans(found) /\ (HasCompleteMessage <=> found[read_pos_])
<1> DEFINE scan == CHOOSE found : Scans(found)
<1>1. Scans(scan)
  BY ScanExists
<1>2. HasCompleteMessage <=> scan[read_pos_]
  BY DEF HasCompleteMessage, Scans
<1> QED
  BY <1>1, <1>2

(* The position of an empty line ahead.                                    *)
BoundaryAt(q) ==
  /\ q \in read_pos_ .. Len(buffer_) - 1
  /\ buffer_[q + 1] \in EOL
  /\ \/ q = read_pos_
     \/ buffer_[q] \in EOL /\ ~ (buffer_[q] = CR /\ buffer_[q + 1] = LF)

LEMMA BoundaryAhead ==
  ASSUME TypeOK
  PROVE  EmptyLineAhead <=> \E q : BoundaryAt(q)
<1>1. /\ Len(Unread) = Len(buffer_) - read_pos_
      /\ \A i \in 1 .. Len(Unread) : Unread[i] = buffer_[read_pos_ + i]
      /\ read_pos_ \in Nat /\ Len(buffer_) \in Nat
  BY UnreadBytes DEF TypeOK
<1> DEFINE Ahead(k) == /\ Unread[k] \in EOL
                       /\ \/ k = 1
                          \/ /\ Unread[k - 1] \in EOL
                             /\ ~ (Unread[k - 1] = CR /\ Unread[k] = LF)
<1>2. ASSUME NEW k \in 1 .. Len(Unread)
      PROVE  Ahead(k) <=> BoundaryAt(read_pos_ + k - 1)
  <2> DEFINE q == read_pos_ + k - 1
  <2>1. /\ q \in read_pos_ .. Len(buffer_) - 1 /\ q + 1 = read_pos_ + k
        /\ q = read_pos_ <=> k = 1
        /\ q = read_pos_ + (k - 1)
        /\ k # 1 => k - 1 \in 1 .. Len(Unread)
    BY <1>1
  <2>2. Unread[k] = buffer_[q + 1] /\ (k # 1 => Unread[k - 1] = buffer_[q])
    BY <1>1, <2>1
  <2> HIDE DEF q
  <2>3. Ahead(k) <=> BoundaryAt(q)
    BY <2>1, <2>2 DEF BoundaryAt
  <2> QED
    BY <2>3 DEF q
<1>3. ASSUME NEW q, BoundaryAt(q)
      PROVE  q - read_pos_ + 1 \in 1 .. Len(Unread) /\ read_pos_ + (q - read_pos_ + 1) - 1 = q
  BY <1>1, <1>3 DEF BoundaryAt
<1>4. EmptyLineAhead <=> \E k \in 1 .. Len(Unread) : Ahead(k)
  BY DEF EmptyLineAhead
<1> HIDE DEF Ahead
<1> QED
  BY <1>2, <1>3, <1>4

(* No scan that starts before an empty line passes it by: of the places    *)
(* from which one did, the last would lead to another.                     *)
LEMMA ScanFinds ==
  ASSUME TypeOK, NEW found, Scans(found), NEW q, BoundaryAt(q)
  PROVE  found[read_pos_]
<1> DEFINE lost == {pos \in read_pos_ .. q : ~ found[pos]}
<1>1. /\ read_pos_ \in Nat /\ Len(buffer_) \in Nat
      /\ q \in read_pos_ .. Len(buffer_) - 1 /\ q \in Nat /\ buffer_[q + 1] \in EOL
      /\ q # read_pos_ => buffer_[q] \in EOL
  BY DEF TypeOK, BoundaryAt
<1>2. ASSUME NEW pos \in 0 .. Len(buffer_)
      PROVE  found[pos]
               = (LineEnds(pos) # {} /\ (StopsAt(pos) \/ found[StepsTo(pos)]))
  BY DEF Scans, StopsAt, StepsTo
<1>3. SUFFICES ASSUME lost # {} PROVE FALSE
  BY <1>1
<1>4. PICK pos \in lost : \A other \in lost : pos >= other
  <2>1. lost \subseteq 0 .. q
    BY <1>1
  <2> HIDE DEF lost
  <2> QED
    BY <1>1, <1>3, <2>1, GreatestNat
<1>5. pos \in read_pos_ .. q /\ ~ found[pos] /\ pos \in 0 .. Len(buffer_)
  BY <1>1
<1>6. LineEnds(pos) # {}
  <2>1. q \in LineEnds(pos)
    BY <1>1, <1>5 DEF LineEnds
  <2> QED
    BY <2>1
<1> DEFINE e == FindLineEnd(pos)
<1>7. /\ e \in pos .. Len(buffer_) - 1 /\ buffer_[e + 1] \in EOL
      /\ \A i \in pos .. e - 1 : buffer_[i + 1] \notin EOL
      /\ StepsTo(pos) \in 0 .. Len(buffer_)
  BY <1>5, <1>6, ScanMoves
<1>8. ~ StopsAt(pos) /\ ~ found[StepsTo(pos)]
  BY <1>2, <1>5, <1>6
<1>9. e # pos
  BY <1>8 DEF StopsAt
<1> HIDE DEF e
<1>10. e < q
  <2>1. ~ (q \in pos .. e - 1)
    BY <1>1, <1>7
  <2>2. e # q
    <3> SUFFICES ASSUME e = q PROVE FALSE
      OBVIOUS
    <3>1. q # read_pos_ /\ q - 1 \in pos .. e - 1 /\ (q - 1) + 1 = q
      BY <1>1, <1>5, <1>7, <1>9
    <3> QED
      BY <1>1, <1>7, <3>1
  <2> QED
    BY <1>1, <1>5, <1>7, <2>1, <2>2
<1>11. CASE buffer_[e + 1] = LF
  <2>1. StepsTo(pos) = e + 1
    BY <1>11 DEF StepsTo, e
  <2>2. e + 1 \in lost /\ e + 1 > pos
    BY <1>1, <1>5, <1>7, <1>8, <1>10, <2>1
  <2> HIDE DEF lost
  <2> QED
    BY <1>1, <1>4, <1>5, <1>7, <2>2
<1>12. CASE buffer_[e + 1] # LF
  <2>1. StepsTo(pos) = e
    BY <1>12 DEF StepsTo, e
  <2>2. e \in lost /\ e > pos
    BY <1>1, <1>5, <1>7, <1>8, <1>9, <1>10, <2>1
  <2> HIDE DEF lost
  <2> QED
    BY <1>1, <1>4, <1>5, <1>7, <2>2
<1> QED
  BY <1>11, <1>12

(* For every alphabet and every history of appends, reads, clears and      *)
(* limits: has_complete_message never overlooks an empty line.             *)
THEOREM NeverMissed == Spec => []BoundaryNeverMissed
<1>1. TypeOK => BoundaryNeverMissed
  <2> SUFFICES ASSUME TypeOK, EmptyLineAhead PROVE HasCompleteMessage
    BY DEF BoundaryNeverMissed
  <2>1. PICK q : BoundaryAt(q)
    BY BoundaryAhead
  <2>2. PICK found : Scans(found) /\ (HasCompleteMessage <=> found[read_pos_])
    BY ScanResult
  <2> QED
    BY <2>1, <2>2, ScanFinds
<1> QED
  BY <1>1, TypeCorrect, PTL

(* Where a scan over lines that LFs end stops, there is an empty line: of  *)
(* the starts of lines from which it would stop elsewhere, the last would  *)
(* lead to another.                                                        *)
LEMMA ScanIsRight ==
  ASSUME TypeOK, NEW found, Scans(found), found[read_pos_],
         \A i \in read_pos_ .. Len(buffer_) - 1 : buffer_[i + 1] # CR,
         \A q : ~ BoundaryAt(q)
  PROVE  FALSE
<1> DEFINE starts == {pos \in read_pos_ .. Len(buffer_) :
                        /\ pos = read_pos_ \/ buffer_[pos] = LF
                        /\ found[pos]}
<1>1. read_pos_ \in 0 .. Len(buffer_) /\ read_pos_ \in Nat /\ Len(buffer_) \in Nat
  BY DEF TypeOK
<1>2. ASSUME NEW pos \in 0 .. Len(buffer_)
      PROVE  found[pos]
               = (LineEnds(pos) # {} /\ (StopsAt(pos) \/ found[StepsTo(pos)]))
  BY DEF Scans, StopsAt, StepsTo
<1>3. read_pos_ \in starts
  BY <1>1
<1>4. PICK pos \in starts : \A other \in starts : pos >= other
  <2>1. starts \subseteq 0 .. Len(buffer_) /\ starts # {}
    BY <1>1, <1>3
  <2> HIDE DEF starts
  <2> QED
    BY <1>1, <2>1, GreatestNat
<1>5. /\ pos \in read_pos_ .. Len(buffer_) /\ pos \in 0 .. Len(buffer_)
      /\ pos = read_pos_ \/ buffer_[pos] = LF
  BY <1>1
<1>6. LineEnds(pos) # {} /\ (StopsAt(pos) \/ found[StepsTo(pos)])
  BY <1>2, <1>5
<1> DEFINE e == FindLineEnd(pos)
<1>7. e \in pos .. Len(buffer_) - 1 /\ buffer_[e + 1] \in EOL
  BY <1>5, <1>6, ScanMoves
<1>8. StopsAt(pos) <=> e = pos \/ (e = pos + 1 /\ buffer_[pos + 1] = CR)
  BY DEF StopsAt
<1>9. buffer_[e + 1] = LF => StepsTo(pos) = e + 1
  BY DEF StepsTo
<1> HIDE DEF e
<1>10. buffer_[e + 1] = LF /\ e \in read_pos_ .. Len(buffer_) - 1
  <2>1. e \in read_pos_ .. Len(buffer_) - 1
    BY <1>1, <1>5, <1>7
  <2> QED
    BY <1>7, <2>1 DEF EOL
<1>11. e # pos
  <2> SUFFICES ASSUME e = pos PROVE BoundaryAt(e)
    OBVIOUS
  <2>1. pos = read_pos_ \/ (buffer_[pos] = LF /\ buffer_[pos] # CR)
    BY <1>5, BufferAssumption
  <2> QED
    BY <1>5, <1>7, <1>10, <2>1 DEF BoundaryAt, EOL
<1>12. ~ (e = pos + 1 /\ buffer_[pos + 1] = CR)
  <2> SUFFICES ASSUME e = pos + 1 PROVE buffer_[pos + 1] # CR
    OBVIOUS
  <2>1. pos \in read_pos_ .. Len(buffer_) - 1
    BY <1>1, <1>5, <1>7
  <2> QED
    BY <2>1
<1>13. found[e + 1]
  BY <1>6, <1>8, <1>9, <1>10, <1>11, <1>12
<1>14. e + 1 \in starts /\ e + 1 > pos
  <2>1. e + 1 \in read_pos_ .. Len(buffer_) /\ e + 1 > pos
    BY <1>1, <1>5, <1>7
  <2> QED
    BY <1>10, <1>13, <2>1
<1> HIDE DEF starts
<1> QED
  BY <1>1, <1>4, <1>5, <1>7, <1>14

(* Where no CR is unread, has_complete_message says exactly whether an     *)
(* empty line is ahead.                                                    *)
THEOREM ExactForLF == Spec => []BoundaryExactForLF
<1>1. TypeOK => BoundaryExactForLF
  <2> SUFFICES ASSUME TypeOK, \A k \in 1 .. Len(Unread) : Unread[k] # CR
               PROVE  HasCompleteMessage <=> EmptyLineAhead
    BY DEF BoundaryExactForLF
  <2>1. PICK found : Scans(found) /\ (HasCompleteMessage <=> found[read_pos_])
    BY ScanResult
  <2>2. \A i \in read_pos_ .. Len(buffer_) - 1 : buffer_[i + 1] # CR
    <3> SUFFICES ASSUME NEW i \in read_pos_ .. Len(buffer_) - 1
                 PROVE  buffer_[i + 1] # CR
      OBVIOUS
    <3>1. /\ i - read_pos_ + 1 \in 1 .. Len(Unread)
          /\ read_pos_ + (i - read_pos_ + 1) = i + 1
      BY UnreadBytes DEF TypeOK
    <3>2. Unread[i - read_pos_ + 1] = buffer_[i + 1]
      BY <3>1, UnreadBytes
    <3> QED
      BY <3>1, <3>2
  <2> QED
    BY <2>1, <2>2, BoundaryAhead, ScanFinds, ScanIsRight
<1> QED
  BY <1>1, TypeCorrect, PTL

================================================================================
