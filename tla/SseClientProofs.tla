---------------------------- MODULE SseClientProofs ----------------------------
(***************************************************************************)
(* The client of SseClient gets every event once, for every list of        *)
(* events, every way to cut the stream and any number of drops.            *)
(***************************************************************************)
EXTENDS SseClient, SseParserProofs

--------------------------------------------------------------------------------
(* FlattenSeq, from the front.                                             *)

(* Its values after each sequence.                                         *)
LEMMA FlattenEffect ==
  ASSUME NEW S, NEW s \in Seq(Seq(S))
  PROVE  \E f \in [0 .. Len(s) -> Seq(S)] :
           /\ f[0] = <<>>
           /\ \A n \in 1 .. Len(s) : f[n] = f[n - 1] \o s[n]
           /\ FlattenSeq(s) = f[Len(s)]
<1> DEFINE k == Len(s)
           step == [x \in Seq(S) \X (1 .. k) |-> x[1] \o s[x[2]]]
           IsFlat(g) == g = [i \in 1 .. k |-> IF i = 1 THEN s[i] ELSE g[i - 1] \o s[i]]
           flat == CHOOSE g : IsFlat(g)
<1>1. k \in Nat /\ \A i \in 1 .. k : s[i] \in Seq(S)
  BY ElementOfSeq
<1>2. step \in Steps(k, Seq(S))
  <2>1. ASSUME NEW x \in Seq(S) \X (1 .. k) PROVE x[1] \o s[x[2]] \in Seq(S)
    BY <1>1, <2>1, ConcatProperties
  <2> QED
    BY <2>1 DEF Steps
<1>3. <<>> \in Seq(S)
  BY EmptySeq
<1>4. PICK f \in [0 .. k -> Seq(S)] :
        f[0] = <<>> /\ \A n \in 1 .. k : f[n] = step[<<f[n - 1], n>>]
  <2> DEFINE V == Seq(S)
  <2>1. k \in Nat /\ <<>> \in V /\ step \in Steps(k, V)
    BY <1>1, <1>2, <1>3
  <2> HIDE DEF step, k, V
  <2>2. Iterations(k, V, <<>>, step) # {}
    BY <2>1, Iterate
  <2>3. PICK f \in Iterations(k, V, <<>>, step) : TRUE
    BY <2>2
  <2> QED
    BY <2>3 DEF Iterations, V
<1>5. ASSUME NEW n \in 1 .. k PROVE f[n] = f[n - 1] \o s[n]
  <2>1. <<f[n - 1], n>> \in Seq(S) \X (1 .. k)
    <3>1. n - 1 \in 0 .. k
      BY <1>1
    <3>2. f[n - 1] \in Seq(S)
      BY <1>4, <3>1
    <3> QED
      BY <3>2
  <2> QED
    BY <1>4, <2>1
<1>6. FlattenSeq(s) = f[k]
  <2>1. CASE k = 0
    <3>1. s = <<>>
      BY <2>1, EmptySeq
    <3> QED
      BY <1>4, <2>1, <3>1 DEF FlattenSeq
  <2>2. CASE k # 0
    <3> DEFINE h == [i \in 1 .. k |-> f[i]]
    <3>1. IsFlat(h)
      <4>1. ASSUME NEW i \in 1 .. k
            PROVE  h[i] = IF i = 1 THEN s[i] ELSE h[i - 1] \o s[i]
        <5>1. CASE i = 1
          <6>1. 1 \in 1 .. k /\ 1 - 1 = 0
            BY <5>1
          <6>2. f[1] = f[1 - 1] \o s[1] /\ s[1] \in Seq(S)
            BY <1>1, <1>5, <6>1
          <6>3. <<>> \o s[1] = s[1]
            BY <6>2, ConcatEmptySeq
          <6> QED
            BY <1>4, <5>1, <6>1, <6>2, <6>3
        <5>2. CASE i # 1
          <6>1. i - 1 \in 1 .. k
            BY <1>1, <5>2
          <6>3. f[i] = f[i - 1] \o s[i]
            BY <1>5
          <6>2. h[i] = f[i] /\ h[i - 1] = f[i - 1]
            BY <6>1
          <6> QED
            BY <5>2, <6>1, <6>2, <6>3
        <5> QED
          BY <5>1, <5>2
      <4> QED
        BY <4>1
    <3>2. IsFlat(flat)
      <4> HIDE DEF IsFlat, h
      <4> QED
        BY <3>1
    <3>3. /\ \A i \in 1 .. k : flat[i] = IF i = 1 THEN s[i] ELSE flat[i - 1] \o s[i]
          /\ \A i \in 1 .. k : f[i] = IF i = 1 THEN s[i] ELSE f[i - 1] \o s[i]
      <4> HIDE DEF flat, k
      <4>1. \A i \in 1 .. k : flat[i] = IF i = 1 THEN s[i] ELSE flat[i - 1] \o s[i]
        BY <3>2
      <4>2. \A i \in 1 .. k : f[i] = IF i = 1 THEN s[i] ELSE f[i - 1] \o s[i]
        <5>1. ASSUME NEW i \in 1 .. k, i = 1 PROVE f[i] = s[i]
          <6>1. 1 \in 1 .. k /\ 1 - 1 = 0
            BY <5>1
          <6>2. f[1] = f[1 - 1] \o s[1] /\ s[1] \in Seq(S)
            BY <1>1, <1>5, <6>1
          <6>3. <<>> \o s[1] = s[1]
            BY <6>2, ConcatEmptySeq
          <6> QED
            BY <1>4, <5>1, <6>1, <6>2, <6>3
        <5> QED
          BY <1>5, <5>1
      <4> QED
        BY <4>1, <4>2
    <3> DEFINE T == {n \in 0 .. k : n = 0 \/ flat[n] = f[n]}
    <3>4. 0 \in T
      BY <1>1
    <3>5. ASSUME NEW n \in 0 .. k - 1, n \in T PROVE n + 1 \in T
      <4> HIDE DEF flat, k
      <4>1. n + 1 \in 1 .. k /\ (n + 1) - 1 = n
        BY <1>1
      <4> QED
        BY <1>1, <3>3, <3>5, <4>1
    <3>6. k \in T
      <4> HIDE DEF T, k
      <4>1. k \in Nat /\ k \in 0 .. k
        BY <1>1
      <4>2. 0 .. k \subseteq T
        BY <3>4, <3>5, <4>1, UpTo
      <4> QED
        BY <4>1, <4>2
    <3> QED
      BY <2>2, <3>6 DEF FlattenSeq
  <2> QED
    BY <2>1, <2>2
<1> QED
  BY <1>4, <1>5, <1>6

(* Texts may be joined in any order.                                       *)
LEMMA TextsAssociate ==
  \A x, y, z \in Seq(Token) : (x \o y) \o z = x \o (y \o z)
  BY ConcatAssociative

(* A text joined of two.                                                   *)
LEMMA Joined ==
  ASSUME NEW x \in Seq(Token), NEW y \in Seq(Token), NEW z \in Seq(Token),
         Len(z) = Len(x) + Len(y),
         \A i \in 1 .. Len(x) : z[i] = x[i],
         \A i \in 1 .. Len(y) : z[Len(x) + i] = y[i]
  PROVE  x \o y = z
<1>1. Len(x) \in Nat /\ Len(y) \in Nat
  OBVIOUS
<1> DEFINE u == x \o y
<1>2. /\ u \in Seq(Token) /\ Len(u) = Len(z)
      /\ \A i \in 1 .. Len(x) + Len(y) :
           u[i] = IF i <= Len(x) THEN x[i] ELSE y[i - Len(x)]
  BY ConcatProperties
<1> HIDE DEF u
<1>3. ASSUME NEW i \in 1 .. Len(u) PROVE u[i] = z[i]
  <2>1. i \in 1 .. Len(x) + Len(y)
    BY <1>2
  <2>2. CASE i <= Len(x)
    <3>1. i \in 1 .. Len(x)
      BY <1>1, <2>1, <2>2
    <3> QED
      BY <1>2, <2>1, <2>2, <3>1
  <2>3. CASE ~ (i <= Len(x))
    <3>1. i - Len(x) \in 1 .. Len(y) /\ Len(x) + (i - Len(x)) = i
      BY <1>1, <2>1, <2>3
    <3>2. z[Len(x) + (i - Len(x))] = y[i - Len(x)]
      BY <3>1
    <3> QED
      BY <1>2, <2>1, <2>3, <3>1, <3>2
  <2> QED
    BY <2>2, <2>3
<1>4. u = z
  BY <1>2, <1>3, SeqEqual
<1> QED
  BY <1>4 DEF u

(* The first text comes first.                                             *)
LEMMA FlattenFirst ==
  ASSUME NEW s \in Seq(Seq(Token)), s # <<>>
  PROVE  /\ FlattenSeq(Tail(s)) \in Seq(Token)
         /\ FlattenSeq(s) = s[1] \o FlattenSeq(Tail(s))
<1> DEFINE k == Len(s)
           t == Tail(s)
<1>1. /\ k \in Nat /\ k >= 1
      /\ t \in Seq(Seq(Token)) /\ Len(t) = k - 1
      /\ \A i \in 1 .. k - 1 : t[i] = s[i + 1]
      /\ \A i \in 1 .. k : s[i] \in Seq(Token)
  BY EmptySeq, HeadTailProperties, ElementOfSeq
<1> HIDE DEF k, t
<1>2. PICK f \in [0 .. k -> Seq(Token)] :
        /\ f[0] = <<>>
        /\ \A n \in 1 .. k : f[n] = f[n - 1] \o s[n]
        /\ FlattenSeq(s) = f[k]
  BY FlattenEffect DEF k
<1>3. PICK g \in [0 .. k - 1 -> Seq(Token)] :
        /\ g[0] = <<>>
        /\ \A n \in 1 .. k - 1 : g[n] = g[n - 1] \o t[n]
        /\ FlattenSeq(t) = g[k - 1]
  <2>1. t \in Seq(Seq(Token)) /\ Len(t) = k - 1
    BY <1>1
  <2>2. \E g \in [0 .. Len(t) -> Seq(Token)] :
           /\ g[0] = <<>>
           /\ \A n \in 1 .. Len(t) : g[n] = g[n - 1] \o t[n]
           /\ FlattenSeq(t) = g[Len(t)]
    BY <2>1, FlattenEffect
  <2> QED
    BY <2>1, <2>2, Zenon
<1> DEFINE T == {n \in 0 .. k - 1 : f[n + 1] = s[1] \o g[n]}
<1>4. 0 \in T
  <2>1. 1 \in 1 .. k /\ 1 - 1 = 0 /\ 0 + 1 = 1 /\ 0 \in 0 .. k - 1
    BY <1>1
  <2>3. f[1] = f[1 - 1] \o s[1] /\ s[1] \in Seq(Token)
    BY <1>1, <1>2, <2>1
  <2>2. <<>> \o s[1] = s[1] /\ s[1] \o <<>> = s[1]
    BY <2>3, ConcatEmptySeq
  <2>4. f[1] = s[1] \o g[0]
    BY <1>2, <1>3, <2>1, <2>2, <2>3
  <2> QED
    BY <2>1, <2>4
<1>5. ASSUME NEW n \in 0 .. k - 1 - 1, n \in T PROVE n + 1 \in T
  <2>1. /\ n + 2 \in 1 .. k /\ n + 1 \in 1 .. k - 1 /\ n \in 0 .. k - 1
        /\ n + 1 \in 0 .. k - 1
        /\ (n + 1) + 1 = n + 2 /\ (n + 2) - 1 = n + 1 /\ (n + 1) - 1 = n
    BY <1>1
  <2>2. f[n + 2] = f[(n + 2) - 1] \o s[n + 2]
    BY <1>2, <2>1
  <2>3. g[n + 1] = g[(n + 1) - 1] \o t[n + 1]
    BY <1>3, <2>1
  <2>8. t[n + 1] = s[(n + 1) + 1]
    BY <1>1, <2>1
  <2>4. s[1] \in Seq(Token) /\ g[n] \in Seq(Token) /\ s[n + 2] \in Seq(Token)
    <3>1. 1 \in 1 .. k
      BY <1>1
    <3>2. \A i \in 1 .. k : s[i] \in Seq(Token)
      BY <1>1
    <3>3. g[n] \in Seq(Token)
      BY <1>3, <2>1
    <3> QED
      BY <2>1, <3>1, <3>2, <3>3
  <2>5. (s[1] \o g[n]) \o s[n + 2] = s[1] \o (g[n] \o s[n + 2])
    BY <2>4, TextsAssociate, Zenon
  <2>6. f[n + 1] = s[1] \o g[n]
    BY <1>5
  <2>7. f[(n + 1) + 1] = s[1] \o g[n + 1]
    BY <2>1, <2>2, <2>3, <2>5, <2>6, <2>8
  <2> QED
    BY <2>1, <2>7
<1>6. k - 1 \in T
  <2> HIDE DEF T
  <2>1. k - 1 \in Nat /\ k - 1 \in 0 .. k - 1
    BY <1>1
  <2>2. 0 .. k - 1 \subseteq T
    BY <1>4, <1>5, <2>1, UpTo
  <2> QED
    BY <2>1, <2>2
<1>7. g[k - 1] \in Seq(Token) /\ f[k] = s[1] \o g[k - 1]
  <2>1. k - 1 \in 0 .. k - 1 /\ (k - 1) + 1 = k
    BY <1>1
  <2>2. f[(k - 1) + 1] = s[1] \o g[k - 1]
    BY <1>6
  <2> QED
    BY <1>3, <2>1, <2>2
<1> QED
  BY <1>2, <1>3, <1>7 DEF t

--------------------------------------------------------------------------------
(* The text of the server, line by line.                                   *)

(* Where a connection stands in the text of the server: k events are over  *)
(* and j lines of the next one are read.                                   *)
LineOf(id, j) ==
  CASE j = 0 -> <<"id", Colon, id>>
    [] j = 1 -> <<"data", Colon, id>>
    [] j = 2 -> <<>>

TextFrom(k, j) ==
  CASE j = 0 -> EventsFrom(k)
    [] j = 1 -> (LineOf(Ids[k + 1], 1) \o <<LF>>) \o (<<LF>> \o EventsFrom(k + 1))
    [] j = 2 -> <<LF>> \o EventsFrom(k + 1)

Built(k, j) ==
  CASE j = 0 -> DefaultMessage
    [] j = 1 -> [DefaultMessage EXCEPT !.id = <<Ids[k + 1]>>]
    [] j = 2 -> EventMessage(Ids[k + 1])

IsPlace(k, j) == k \in 0 .. Len(Ids) /\ j \in 0 .. 2 /\ (k = Len(Ids) => j = 0)

(* The place behind the next line.                                         *)
NextEvent(k, j) == IF j = 2 THEN k + 1 ELSE k
NextLineOfEvent(j) == IF j = 2 THEN 0 ELSE j + 1

(* What the server may send.                                               *)
LEMMA ServerTokens ==
  /\ {"id", "data", Colon, LF} \subseteq Token
  /\ Len(Ids) \in Nat
  /\ \A k \in 1 .. Len(Ids) : Ids[k] \in Token /\ Ids[k] \notin {CR, LF, Space}
<1>1. Ids \in Seq(Token) /\ {"id", "data"} \subseteq Token
  BY SseClientAssumption
<1>2. {Colon, LF} \subseteq Token
  BY FieldParserAssumption
<1> QED
  BY <1>1, <1>2, SseClientAssumption, ElementOfSeq

(* The lines of an event.                                                  *)
LEMMA LineType ==
  ASSUME NEW id \in Token, id \notin {CR, LF, Space}, NEW j \in 0 .. 2
  PROVE  /\ LineOf(id, j) \in Seq(Token)
         /\ Len(LineOf(id, j)) <= 3
         /\ HasNoEnd(LineOf(id, j))
<1>1. {"id", "data", Colon} \subseteq Token
  BY ServerTokens
<1>2. CASE j = 0
  BY <1>1, <1>2 DEF LineOf, HasNoEnd, EOL, CR, LF, Colon
<1>3. CASE j = 1
  BY <1>1, <1>3 DEF LineOf, HasNoEnd, EOL, CR, LF, Colon
<1>4. CASE j = 2
  BY <1>4, EmptySeq DEF LineOf, HasNoEnd
<1> QED
  BY <1>2, <1>3, <1>4

LEMMA EventInLines ==
  ASSUME NEW id \in Token
  PROVE  /\ EventText(id) \in Seq(Token)
         /\ EventText(id) = (LineOf(id, 0) \o <<LF>>)
                            \o ((LineOf(id, 1) \o <<LF>>) \o <<LF>>)
<1>1. {"id", "data", Colon, LF} \subseteq Token
  BY ServerTokens
<1>2. ASSUME NEW a \in Token
      PROVE  <<a, Colon, id>> \o <<LF>> = <<a, Colon, id, LF>>
  <2> DEFINE x == <<a, Colon, id>>
             y == <<LF>>
             z == <<a, Colon, id, LF>>
  <2>1. /\ x \in Seq(Token) /\ Len(x) = 3 /\ y \in Seq(Token) /\ Len(y) = 1
        /\ z \in Seq(Token) /\ Len(z) = 4
    BY <1>1
  <2>2. ASSUME NEW i \in 1 .. 3 PROVE z[i] = x[i]
    BY <2>2
  <2>3. ASSUME NEW i \in 1 .. 1 PROVE z[3 + i] = y[i]
    <3>1. i = 1
      OBVIOUS
    <3> QED
      BY <3>1
  <2> HIDE DEF x, y, z
  <2>4. /\ Len(z) = Len(x) + Len(y)
        /\ \A i \in 1 .. Len(x) : z[i] = x[i]
        /\ \A i \in 1 .. Len(y) : z[Len(x) + i] = y[i]
    BY <2>1, <2>2, <2>3
  <2>5. x \o y = z
    BY <2>1, <2>4, Joined
  <2> QED
    BY <2>5 DEF x, y, z
<1>3. EventText(id) = <<"id", Colon, id, LF>> \o <<"data", Colon, id, LF, LF>>
  <2> DEFINE x == <<"id", Colon, id, LF>>
             y == <<"data", Colon, id, LF, LF>>
             z == <<"id", Colon, id, LF, "data", Colon, id, LF, LF>>
  <2>1. /\ x \in Seq(Token) /\ Len(x) = 4 /\ y \in Seq(Token) /\ Len(y) = 5
        /\ z \in Seq(Token) /\ Len(z) = 9
    BY <1>1
  <2>2. ASSUME NEW i \in 1 .. 4 PROVE z[i] = x[i]
    BY <2>2
  <2>3. ASSUME NEW i \in 1 .. 5 PROVE z[4 + i] = y[i]
    BY <2>3
  <2> HIDE DEF x, y, z
  <2>4. /\ Len(z) = Len(x) + Len(y)
        /\ \A i \in 1 .. Len(x) : z[i] = x[i]
        /\ \A i \in 1 .. Len(y) : z[Len(x) + i] = y[i]
    BY <2>1, <2>2, <2>3
  <2>5. x \o y = z
    BY <2>1, <2>4, Joined
  <2> QED
    BY <2>5 DEF x, y, z, EventText
<1>4. <<"data", Colon, id, LF>> \o <<LF>> = <<"data", Colon, id, LF, LF>>
  <2> DEFINE x == <<"data", Colon, id, LF>>
             y == <<LF>>
             z == <<"data", Colon, id, LF, LF>>
  <2>1. /\ x \in Seq(Token) /\ Len(x) = 4 /\ y \in Seq(Token) /\ Len(y) = 1
        /\ z \in Seq(Token) /\ Len(z) = 5
    BY <1>1
  <2>2. ASSUME NEW i \in 1 .. 4 PROVE z[i] = x[i]
    BY <2>2
  <2>3. ASSUME NEW i \in 1 .. 1 PROVE z[4 + i] = y[i]
    <3>1. i = 1
      OBVIOUS
    <3> QED
      BY <3>1
  <2> HIDE DEF x, y, z
  <2>4. /\ Len(z) = Len(x) + Len(y)
        /\ \A i \in 1 .. Len(x) : z[i] = x[i]
        /\ \A i \in 1 .. Len(y) : z[Len(x) + i] = y[i]
    BY <2>1, <2>2, <2>3
  <2>5. x \o y = z
    BY <2>1, <2>4, Joined
  <2> QED
    BY <2>5 DEF x, y, z
<1>5. EventText(id) \in Seq(Token)
  BY <1>1 DEF EventText
<1>6. /\ LineOf(id, 0) = <<"id", Colon, id>>
      /\ LineOf(id, 1) = <<"data", Colon, id>>
  BY DEF LineOf
<1>7. /\ LineOf(id, 0) \o <<LF>> = <<"id", Colon, id, LF>>
      /\ LineOf(id, 1) \o <<LF>> = <<"data", Colon, id, LF>>
  BY <1>1, <1>2, <1>6
<1> QED
  BY <1>3, <1>4, <1>5, <1>7, Zenon

(* The events after k of them: the next one, and the rest.                 *)
LEMMA EventsSplit ==
  ASSUME NEW k \in 0 .. Len(Ids)
  PROVE  /\ EventsFrom(k) \in Seq(Token)
         /\ k = Len(Ids) => EventsFrom(k) = <<>>
         /\ k < Len(Ids) => EventsFrom(k) = EventText(Ids[k + 1]) \o EventsFrom(k + 1)
<1> DEFINE n == Len(Ids) - k
           texts == [i \in 1 .. n |-> EventText(Ids[k + i])]
           others == [i \in 1 .. n - 1 |-> EventText(Ids[k + 1 + i])]
<1>1. n \in Nat /\ Len(Ids) \in Nat
  BY ServerTokens
<1>2. texts \in Seq(Seq(Token)) /\ Len(texts) = n
  <2>1. ASSUME NEW i \in 1 .. n PROVE EventText(Ids[k + i]) \in Seq(Token)
    <3>1. k + i \in 1 .. Len(Ids)
      BY <1>1
    <3>2. Ids[k + i] \in Token
      BY <3>1, ServerTokens
    <3> QED
      BY <3>2, EventInLines
  <2> QED
    BY <1>1, <2>1
<1>3. CASE k = Len(Ids)
  <2>1. texts = <<>>
    BY <1>2, <1>3, EmptySeq
  <2>2. EventsFrom(k) = <<>>
    BY <2>1 DEF EventsFrom, FlattenSeq
  <2> QED
    BY <1>1, <1>3, <2>2, EmptySeq
<1>4. CASE k < Len(Ids)
  <2>1. /\ Tail(texts) \in Seq(Seq(Token)) /\ Len(Tail(texts)) = n - 1
        /\ \A i \in 1 .. n - 1 : Tail(texts)[i] = texts[i + 1]
    <3> HIDE DEF texts
    <3>1. texts # <<>>
      BY <1>1, <1>2, <1>4, EmptySeq
    <3> QED
      BY <1>2, <3>1, HeadTailProperties
  <2>2. others \in Seq(Seq(Token)) /\ Len(others) = n - 1
    <3>1. ASSUME NEW i \in 1 .. n - 1 PROVE EventText(Ids[k + 1 + i]) \in Seq(Token)
      <4>1. k + 1 + i \in 1 .. Len(Ids)
        BY <1>1
      <4>2. Ids[k + 1 + i] \in Token
        BY <4>1, ServerTokens
      <4> QED
        BY <4>2, EventInLines
    <3>2. n - 1 \in Nat
      BY <1>1, <1>4
    <3> QED
      BY <3>1, <3>2
  <2>3. ASSUME NEW i \in 1 .. n - 1 PROVE Tail(texts)[i] = others[i]
    <3>1. i + 1 \in 1 .. n /\ k + (i + 1) = k + 1 + i
      BY <1>1
    <3>2. texts[i + 1] = EventText(Ids[k + (i + 1)])
      BY <3>1
    <3>3. Tail(texts)[i] = texts[i + 1]
      <4> HIDE DEF texts
      <4> QED
        BY <2>1
    <3> QED
      BY <3>1, <3>2, <3>3
  <2>4. Tail(texts) = others
    <3> HIDE DEF texts, others
    <3> QED
      BY <2>1, <2>2, <2>3, SeqEqual
  <2>5. /\ EventsFrom(k) = FlattenSeq(texts)
        /\ EventsFrom(k + 1) = FlattenSeq(others)
    <3>1. Len(Ids) - (k + 1) = n - 1
      BY <1>1
    <3> QED
      BY <3>1 DEF EventsFrom
  <2>6. texts[1] = EventText(Ids[k + 1])
    BY <1>1, <1>4
  <2>7. /\ FlattenSeq(Tail(texts)) \in Seq(Token)
        /\ FlattenSeq(texts) = texts[1] \o FlattenSeq(Tail(texts))
    <3> HIDE DEF texts
    <3>1. texts # <<>>
      BY <1>1, <1>2, <1>4, EmptySeq
    <3> QED
      BY <1>2, <3>1, FlattenFirst
  <2> HIDE DEF texts, others
  <2>8. EventText(Ids[k + 1]) \in Seq(Token)
    <3>1. k + 1 \in 1 .. Len(Ids)
      BY <1>1, <1>4
    <3>2. Ids[k + 1] \in Token
      BY <3>1, ServerTokens
    <3> QED
      BY <3>2, EventInLines
  <2>9. EventsFrom(k) = EventText(Ids[k + 1]) \o EventsFrom(k + 1)
    BY <2>4, <2>5, <2>6, <2>7, Zenon
  <2>10. EventsFrom(k + 1) \in Seq(Token)
    BY <2>4, <2>5, <2>7
  <2> QED
    BY <1>1, <1>4, <2>8, <2>9, <2>10, ConcatProperties
<1> QED
  BY <1>1, <1>3, <1>4

(* The text ahead: the next line, its LF, and the text from there.         *)
LEMMA TextSplit ==
  ASSUME NEW k, NEW j, IsPlace(k, j)
  PROVE  /\ TextFrom(k, j) \in Seq(Token)
         /\ k = Len(Ids) => TextFrom(k, j) = <<>>
         /\ k # Len(Ids) =>
              /\ IsPlace(NextEvent(k, j), NextLineOfEvent(j))
              /\ TextFrom(NextEvent(k, j), NextLineOfEvent(j)) \in Seq(Token)
              /\ TextFrom(k, j) = (LineOf(Ids[k + 1], j) \o <<LF>>)
                                  \o TextFrom(NextEvent(k, j), NextLineOfEvent(j))
<1>1. /\ Len(Ids) \in Nat /\ k \in 0 .. Len(Ids) /\ j \in 0 .. 2
      /\ EventsFrom(k) \in Seq(Token)
  BY ServerTokens, EventsSplit DEF IsPlace
<1>2. CASE k = Len(Ids)
  <2>1. j = 0 /\ TextFrom(k, j) = EventsFrom(k)
    BY <1>2 DEF IsPlace, TextFrom
  <2> QED
    BY <1>1, <1>2, <2>1, EventsSplit
<1>3. CASE k # Len(Ids)
  <2> DEFINE id == Ids[k + 1]
             e == <<LF>>
             a == LineOf(id, 0) \o e
             b == LineOf(id, 1) \o e
             rest == EventsFrom(k + 1)
  <2>1. id \in Token /\ id \notin {CR, LF, Space} /\ k + 1 \in 0 .. Len(Ids)
    <3>1. k + 1 \in 1 .. Len(Ids)
      BY <1>1, <1>3
    <3> QED
      BY <3>1, ServerTokens
  <2>2. e \in Seq(Token) /\ rest \in Seq(Token)
    BY <2>1, ServerTokens, EventsSplit
  <2>3. /\ LineOf(id, 0) \in Seq(Token) /\ LineOf(id, 1) \in Seq(Token)
        /\ LineOf(id, 2) = <<>>
    <3>1. \A i \in 0 .. 2 : LineOf(id, i) \in Seq(Token)
      <4> HIDE DEF id
      <4> QED
        BY <2>1, LineType
    <3>2. 0 \in 0 .. 2 /\ 1 \in 0 .. 2
      OBVIOUS
    <3>3. LineOf(id, 2) = <<>>
      BY DEF LineOf
    <3> QED
      BY <3>1, <3>2, <3>3
  <2> HIDE DEF e, rest
  <2>4. a \in Seq(Token) /\ b \in Seq(Token)
    BY <2>2, <2>3, ConcatProperties
  <2>5. EventsFrom(k) = (a \o (b \o e)) \o rest
    <3>1. EventsFrom(k) = EventText(id) \o rest
      BY <1>1, <1>3, EventsSplit DEF rest
    <3>2. EventText(id) = a \o (b \o e)
      BY <2>1, EventInLines DEF e
    <3> QED
      BY <3>1, <3>2
  <2> HIDE DEF id, a, b
  <2>6. /\ b \o e \in Seq(Token) /\ e \o rest \in Seq(Token)
        /\ b \o (e \o rest) \in Seq(Token)
    <3>1. b \o e \in Seq(Token)
      BY <2>2, <2>4, ConcatProperties
    <3>2. e \o rest \in Seq(Token)
      BY <2>2, ConcatProperties
    <3> QED
      BY <2>4, <3>1, <3>2, ConcatProperties
  <2>7. (a \o (b \o e)) \o rest = a \o (b \o (e \o rest))
    <3> DEFINE be == b \o e
    <3>3. a \in Seq(Token) /\ be \in Seq(Token) /\ rest \in Seq(Token)
      BY <2>2, <2>4, <2>6
    <3> HIDE DEF be
    <3>4. (a \o be) \o rest = a \o (be \o rest)
      BY <3>3, TextsAssociate, Zenon
    <3>1. (a \o (b \o e)) \o rest = a \o ((b \o e) \o rest)
      BY <3>4 DEF be
    <3>2. (b \o e) \o rest = b \o (e \o rest)
      BY <2>2, <2>4, TextsAssociate, Zenon
    <3> QED
      BY <3>1, <3>2
  <2>8. /\ TextFrom(k, 0) = a \o (b \o (e \o rest))
        /\ TextFrom(k, 1) = b \o (e \o rest)
        /\ TextFrom(k, 2) = e \o rest
        /\ TextFrom(k + 1, 0) = rest
    <3>1. TextFrom(k, 0) = EventsFrom(k) /\ TextFrom(k + 1, 0) = rest
      BY DEF TextFrom, rest
    <3>2. TextFrom(k, 1) = b \o (e \o rest)
      BY DEF TextFrom, rest, b, e, id
    <3>3. TextFrom(k, 2) = e \o rest
      BY DEF TextFrom, rest, e
    <3> QED
      BY <2>5, <2>7, <3>1, <3>2, <3>3
  <2>9. CASE j = 0
    <3>1. NextEvent(k, j) = k /\ NextLineOfEvent(j) = 1 /\ IsPlace(k, 1)
      BY <1>1, <1>3, <2>9 DEF NextEvent, NextLineOfEvent, IsPlace
    <3>2. a \o (b \o (e \o rest)) \in Seq(Token)
      BY <2>4, <2>6, ConcatProperties
    <3> QED
      BY <1>3, <2>6, <2>8, <2>9, <3>1, <3>2 DEF a, e, id
  <2>10. CASE j = 1
    <3>1. NextEvent(k, j) = k /\ NextLineOfEvent(j) = 2 /\ IsPlace(k, 2)
      BY <1>1, <1>3, <2>10 DEF NextEvent, NextLineOfEvent, IsPlace
    <3> QED
      BY <1>3, <2>6, <2>8, <2>10, <3>1 DEF b, e, id
  <2>11. CASE j = 2
    <3>1. NextEvent(k, j) = k + 1 /\ NextLineOfEvent(j) = 0 /\ IsPlace(k + 1, 0)
      BY <1>1, <1>3, <2>11 DEF NextEvent, NextLineOfEvent, IsPlace
    <3>2. LineOf(id, 2) \o e = e
      BY <2>2, <2>3, ConcatEmptySeq DEF id
    <3> QED
      BY <1>3, <2>2, <2>6, <2>8, <2>11, <3>1, <3>2 DEF id, e
  <2>12. j = 0 \/ j = 1 \/ j = 2
    BY <1>1
  <2> QED
    BY <2>9, <2>10, <2>11, <2>12, Zenon
<1> QED
  BY <1>2, <1>3

(* The part received and what comes are the next line, its LF and the rest. *)
StartsWith(old, coming, line, rest) ==
  /\ old \in Seq(Token) /\ coming \in Seq(Token)
  /\ line \in Seq(Token) /\ rest \in Seq(Token) /\ HasNoEnd(line)
  /\ old \o coming = (line \o <<LF>>) \o rest

(* The same, byte by byte.                                                 *)
LEMMA SameBytes ==
  ASSUME NEW old, NEW coming, NEW line, NEW rest,
         StartsWith(old, coming, line, rest)
  PROVE  /\ Len(line) \in Nat /\ Len(old) \in Nat
         /\ \A i \in 1 .. Len(old) : (old \o coming)[i] = old[i]
         /\ \A i \in 1 .. Len(line) : (old \o coming)[i] = line[i]
         /\ (old \o coming)[Len(line) + 1] = LF
         /\ line \o <<LF>> \in Seq(Token) /\ Len(line \o <<LF>>) = Len(line) + 1
<1> USE DEF StartsWith
<1> DEFINE text == old \o coming
           head == line \o <<LF>>
           m == Len(line)
<1>1. /\ m \in Nat /\ Len(old) \in Nat /\ Len(coming) \in Nat /\ Len(rest) \in Nat
      /\ <<LF>> \in Seq(Token) /\ Len(<<LF>>) = 1 /\ <<LF>>[1] = LF
  BY ServerTokens
<1>2. /\ head \in Seq(Token) /\ Len(head) = m + 1 /\ head[m + 1] = LF
      /\ \A i \in 1 .. m : head[i] = line[i]
  <2> DEFINE e == <<LF>>
  <2>1. e \in Seq(Token) /\ Len(e) = 1 /\ e[1] = LF
    BY <1>1
  <2> HIDE DEF e
  <2>2. /\ line \o e \in Seq(Token) /\ Len(line \o e) = m + Len(e)
        /\ \A i \in 1 .. m + Len(e) :
             (line \o e)[i] = IF i <= m THEN line[i] ELSE e[i - m]
    BY <2>1, ConcatProperties
  <2>3. m + 1 \in 1 .. m + Len(e) /\ ~ (m + 1 <= m) /\ m + 1 - m = 1
    BY <1>1, <2>1
  <2>4. \A i \in 1 .. m : i \in 1 .. m + Len(e) /\ i <= m
    BY <1>1, <2>1
  <2> QED
    BY <2>1, <2>2, <2>3, <2>4 DEF e
<1>3. /\ \A i \in 1 .. Len(old) : text[i] = old[i]
      /\ Len(text) = Len(old) + Len(coming)
  <2>1. /\ Len(text) = Len(old) + Len(coming)
        /\ \A i \in 1 .. Len(old) + Len(coming) :
             text[i] = IF i <= Len(old) THEN old[i] ELSE coming[i - Len(old)]
    BY ConcatProperties
  <2> HIDE DEF text
  <2> QED
    BY <1>1, <2>1
<1>4. /\ \A i \in 1 .. m : text[i] = line[i]
      /\ text[m + 1] = LF
      /\ Len(text) = m + 1 + Len(rest)
  <2> HIDE DEF head
  <2>1. text = head \o rest
    BY DEF head
  <2>2. /\ Len(head \o rest) = (m + 1) + Len(rest)
        /\ \A i \in 1 .. (m + 1) + Len(rest) :
             (head \o rest)[i] = IF i <= m + 1 THEN head[i] ELSE rest[i - (m + 1)]
    <3>1. head \in Seq(Token) /\ Len(head) = m + 1
      BY <1>2
    <3>2. /\ Len(head \o rest) = Len(head) + Len(rest)
          /\ \A i \in 1 .. Len(head) + Len(rest) :
               (head \o rest)[i] = IF i <= Len(head) THEN head[i] ELSE rest[i - Len(head)]
      BY <3>1, ConcatProperties
    <3> QED
      BY <3>1, <3>2, Zenon
  <2> HIDE DEF text
  <2>3. \A i \in 1 .. m + 1 : i \in 1 .. (m + 1) + Len(rest) /\ i <= m + 1
    BY <1>1
  <2>4. \A i \in 1 .. m + 1 : text[i] = head[i]
    BY <2>1, <2>2, <2>3
  <2>5. m + 1 \in 1 .. m + 1 /\ \A i \in 1 .. m : i \in 1 .. m + 1
    BY <1>1
  <2> QED
    BY <1>2, <2>1, <2>2, <2>4, <2>5
<1> HIDE DEF text, head
<1>5. /\ m \in Nat /\ Len(old) \in Nat
      /\ \A i \in 1 .. Len(old) : text[i] = old[i]
      /\ \A i \in 1 .. m : text[i] = line[i]
      /\ text[m + 1] = LF
      /\ head \in Seq(Token) /\ Len(head) = m + 1
  BY <1>1, <1>2, <1>3, <1>4
<1> QED
  BY <1>5, Zenon DEF text, head

(* Without a line end the part received is no longer than the next line.   *)
LEMMA NoLineYet ==
  ASSUME NEW old, NEW coming, NEW line, NEW rest,
         StartsWith(old, coming, line, rest), HasNoEnd(old)
  PROVE  Len(old) <= Len(line)
<1> DEFINE text == old \o coming
           head == line \o <<LF>>
           m == Len(line)
<1>1. /\ m \in Nat /\ Len(old) \in Nat
      /\ \A i \in 1 .. Len(old) : text[i] = old[i]
      /\ \A i \in 1 .. m : text[i] = line[i]
      /\ text[m + 1] = LF
      /\ head \in Seq(Token) /\ Len(head) = m + 1
  BY SameBytes, Zenon
<1> HIDE DEF text, head
<1> SUFFICES ASSUME ~ (Len(old) <= m) PROVE FALSE
  OBVIOUS
<1>2. m + 1 \in 1 .. Len(old)
  BY <1>1
<1>3. old[m + 1] = LF
  BY <1>1, <1>2
<1> QED
  BY <1>2, <1>3 DEF HasNoEnd, EOL

(* The part received ends a first line after n - 1 bytes.                  *)
EndsFirst(old, coming, line, rest, n) ==
  /\ StartsWith(old, coming, line, rest)
  /\ n \in 1 .. Len(old) /\ old[n] \in EOL
  /\ \A i \in 1 .. n - 1 : old[i] \notin EOL

(* That line is the next line, and what comes after it is the rest.        *)
IsNextLine(old, coming, line, rest, n) ==
  /\ old[n] # CR
  /\ SubSeq(old, 1, n - 1) = line
  /\ SubSeq(old, n + 1, Len(old)) \o coming = rest

LEMMA FirstLine ==
  ASSUME NEW old, NEW coming, NEW line, NEW rest, NEW n,
         EndsFirst(old, coming, line, rest, n)
  PROVE  IsNextLine(old, coming, line, rest, n)
<1> DEFINE text == old \o coming
           head == line \o <<LF>>
           m == Len(line)
<1>1. /\ m \in Nat /\ Len(old) \in Nat
      /\ \A i \in 1 .. Len(old) : text[i] = old[i]
      /\ \A i \in 1 .. m : text[i] = line[i]
      /\ text[m + 1] = LF
      /\ head \in Seq(Token) /\ Len(head) = m + 1
  <2>1. StartsWith(old, coming, line, rest)
    BY DEF EndsFirst
  <2> QED
    BY <2>1, SameBytes, Zenon
<1> USE DEF EndsFirst, StartsWith
<1>2. old \o coming = head \o rest
  OBVIOUS
<1> HIDE DEF text, head
<1>3. ~ (n <= m)
  <2> SUFFICES ASSUME n <= m PROVE FALSE
    OBVIOUS
  <2>1. n \in 1 .. m
    BY <1>1
  <2>2. old[n] = line[n]
    BY <1>1, <2>1
  <2> QED
    BY <2>1, <2>2 DEF HasNoEnd
<1>4. ~ (n > m + 1)
  <2> SUFFICES ASSUME n > m + 1 PROVE FALSE
    OBVIOUS
  <2>1. m + 1 \in 1 .. n - 1 /\ m + 1 \in 1 .. Len(old)
    BY <1>1
  <2>2. old[m + 1] = LF
    BY <1>1, <2>1
  <2> QED
    BY <2>1, <2>2 DEF EOL
<1>5. n = m + 1
  BY <1>1, <1>3, <1>4
<1>6. old[n] # CR
  BY <1>1, <1>5 DEF CR, LF
<1>7. SubSeq(old, 1, n - 1) = line
  <2> DEFINE x == SubSeq(old, 1, n - 1)
  <2>1. x \in Seq(Token) /\ Len(x) = m /\ \A i \in 1 .. m : x[i] = old[i]
    <3>1. 1 \in 1 .. Len(old) + 1 /\ n - 1 \in 0 .. Len(old) /\ 1 <= (n - 1) + 1
      BY <1>1
    <3>2. /\ x \in Seq(Token) /\ Len(x) = (n - 1) - 1 + 1
          /\ \A i \in 1 .. (n - 1) - 1 + 1 : x[i] = old[1 + i - 1]
      BY <3>1, Piece
    <3> HIDE DEF x
    <3> QED
      BY <1>1, <1>5, <3>2
  <2> HIDE DEF x
  <2>2. \A i \in 1 .. m : i \in 1 .. Len(old)
    BY <1>1, <1>5
  <2>3. \A i \in 1 .. m : x[i] = line[i]
    BY <1>1, <2>1, <2>2
  <2>4. x = line
    BY <2>1, <2>3, SeqEqual
  <2> QED
    BY <2>4 DEF x
<1>8. SubSeq(old, n + 1, Len(old)) \o coming = rest
  <2>1. SubSeq(old \o coming, n + 1, Len(old \o coming))
          = SubSeq(old, n + 1, Len(old)) \o coming
    <3>1. n \in 0 .. Len(old)
      BY <1>1
    <3> QED
      BY <3>1, PartsAssumptions, BufP!SuffixOfConcat
  <2>2. SubSeq(head \o rest, n + 1, Len(head \o rest))
          = SubSeq(head, n + 1, Len(head)) \o rest
    <3>1. n \in 0 .. Len(head)
      BY <1>1, <1>5
    <3> QED
      BY <1>1, <3>1, PartsAssumptions, BufP!SuffixOfConcat
  <2>3. SubSeq(head, n + 1, Len(head)) = <<>>
    <3>1. n + 1 \in Int /\ Len(head) \in Int /\ Len(head) < n + 1
      BY <1>1, <1>5
    <3> QED
      BY <3>1, SubSeqEmpty
  <2>4. <<>> \o rest = rest
    BY ConcatEmptySeq
  <2> QED
    BY <1>2, <2>1, <2>2, <2>3, <2>4
<1> QED
  BY <1>6, <1>7, <1>8 DEF IsNextLine

--------------------------------------------------------------------------------
(* What the builder makes of the lines of an event.                        *)

BuilderAt(k, j) == current_msg_ = Built(k, j) /\ (accumulating_data_ <=> j = 2)

(* The functions of the field parser, seen through the builder.            *)
LEMMA SameFunctions ==
  \A line : /\ Bld!IsDataLine(line) <=> Len(line) >= 2 /\ line[1] = "data" /\ line[2] = Colon
            /\ Bld!DataValue(line) = StripSpace(SubSeq(line, 3, Len(line)))
            /\ Bld!ParseFieldLine(line, Bld!DefaultMessage)
                 = ParseFieldLine(line, DefaultMessage)
<1>1. \A v : /\ Bld!FieldName(v) = FieldName(v) /\ Bld!FieldValue(v) = FieldValue(v)
             /\ Bld!IsComment(v) = IsComment(v) /\ Bld!StripSpace(v) = StripSpace(v)
  BY DEF Bld!FieldValue, FieldValue, Bld!FieldName, FieldName, Bld!HasColon, HasColon,
     Bld!StripSpace, StripSpace, Bld!FirstColon, FirstColon, Bld!IsComment, IsComment,
     Bld!Colon, Colon, Bld!Space, Space
<1>2. \A v : Bld!ParseRetryValue(v) = ParseRetryValue(v)
  BY SameRetry, SameValues
<1>3. Bld!DefaultMessage = DefaultMessage
  BY DEF Bld!DefaultMessage, DefaultMessage
<1>4. \A line, msg : Bld!ParseFieldLine(line, msg) = ParseFieldLine(line, msg)
  BY <1>1, <1>2 DEF Bld!ParseFieldLine, ParseFieldLine
<1> QED
  BY <1>1, <1>3, <1>4 DEF Bld!IsDataLine, Bld!DataValue, Bld!Colon, Colon

(* The parts of a line of an event.                                        *)
LEMMA PartsOfLine ==
  ASSUME NEW name \in Token, name # Colon, NEW id \in Token, id # Space
  PROVE  LET line == <<name, Colon, id>>
         IN  /\ IsField(line, name)
             /\ FieldValue(line) = <<id>>
             /\ StripSpace(SubSeq(line, 3, Len(line))) = <<id>>
<1> DEFINE line == <<name, Colon, id>>
<1>1. /\ line \in Seq(Token) /\ Len(line) = 3
      /\ line[1] = name /\ line[2] = Colon /\ line[3] = id
  BY FieldParserAssumption
<1> HIDE DEF line
<1>2. HasColon(line) /\ FirstColon(line) = 2
  <2>1. HasColon(line)
    BY <1>1 DEF HasColon
  <2>2. /\ FirstColon(line) \in 1 .. 3 /\ line[FirstColon(line)] = Colon
        /\ \A i \in 1 .. FirstColon(line) - 1 : line[i] # Colon
    BY <1>1, <2>1, ColonEffect
  <2>3. FirstColon(line) # 1
    BY <1>1, <2>2
  <2>4. FirstColon(line) # 3
    <3> SUFFICES ASSUME FirstColon(line) = 3 PROVE FALSE
      OBVIOUS
    <3>1. 2 \in 1 .. FirstColon(line) - 1
      OBVIOUS
    <3> QED
      BY <1>1, <2>2, <3>1
  <2> QED
    BY <2>1, <2>2, <2>3, <2>4
<1>3. SubSeq(line, 1, 1) = <<name>>
  <2> DEFINE x == SubSeq(line, 1, 1)
             y == <<name>>
  <2>1. x \in Seq(Token) /\ Len(x) = 1 /\ x[1] = name
    BY <1>1, Piece
  <2>2. y \in Seq(Token) /\ Len(y) = 1 /\ y[1] = name
    OBVIOUS
  <2> HIDE DEF x, y
  <2>3. ASSUME NEW i \in 1 .. 1 PROVE x[i] = y[i]
    BY <2>1, <2>2
  <2>4. x = y
    BY <2>1, <2>2, <2>3, SeqEqual
  <2> QED
    BY <2>4 DEF x, y
<1>4. SubSeq(line, 3, 3) = <<id>>
  <2> DEFINE x == SubSeq(line, 3, 3)
             y == <<id>>
  <2>1. x \in Seq(Token) /\ Len(x) = 1 /\ x[1] = id
    BY <1>1, Piece
  <2>2. y \in Seq(Token) /\ Len(y) = 1 /\ y[1] = id
    OBVIOUS
  <2> HIDE DEF x, y
  <2>3. ASSUME NEW i \in 1 .. 1 PROVE x[i] = y[i]
    BY <2>1, <2>2
  <2>4. x = y
    BY <2>1, <2>2, <2>3, SeqEqual
  <2> QED
    BY <2>4 DEF x, y
<1>5. StripSpace(<<id>>) = <<id>>
  BY DEF StripSpace
<1>6. FieldName(line) = <<name>> /\ FieldValue(line) = <<id>>
  <2>1. FirstColon(line) - 1 = 1 /\ FirstColon(line) + 1 = 3
    BY <1>2
  <2> QED
    BY <1>1, <1>2, <1>3, <1>4, <1>5, <2>1, Zenon DEF FieldName, FieldValue
<1>7. ~ IsComment(line)
  BY <1>1 DEF IsComment
<1> QED
  BY <1>1, <1>4, <1>5, <1>6, <1>7 DEF IsField, line

(* A message with only an id.                                              *)
LEMMA OnlyAnId ==
  ASSUME NEW event, NEW id, NEW retry
  PROVE  [DefaultMessage EXCEPT !.event = event, !.id = <<id>>, !.retry = retry]
           = [event |-> event, data |-> <<>>, id |-> <<id>>, retry |-> retry]
<1>1. [DefaultMessage EXCEPT !.event = event]
        = [event |-> event, data |-> <<>>, id |-> None, retry |-> None]
  BY DEF DefaultMessage
<1>2. [[event |-> event, data |-> <<>>, id |-> None, retry |-> None] EXCEPT !.id = <<id>>]
        = [event |-> event, data |-> <<>>, id |-> <<id>>, retry |-> None]
  BY SMT
<1>3. [[event |-> event, data |-> <<>>, id |-> <<id>>, retry |-> None] EXCEPT !.retry = retry]
        = [event |-> event, data |-> <<>>, id |-> <<id>>, retry |-> retry]
  BY SMT
<1>4. [DefaultMessage EXCEPT !.event = event, !.id = <<id>>]
        = [event |-> event, data |-> <<>>, id |-> <<id>>, retry |-> None]
  BY <1>1, <1>2, Zenon
<1> QED
  BY <1>3, <1>4, Zenon

(* A line of an event, fed: the builder is at the next place; the empty    *)
(* line calls the callback with the event.                                 *)
LEMMA LineFed ==
  ASSUME NEW k, NEW j, IsPlace(k, j), k # Len(Ids), BuilderAt(k, j),
         bld_callback_ # None, Bld!FeedLine(LineOf(Ids[k + 1], j))
  PROVE  /\ current_msg_' = Built(NextEvent(k, j), NextLineOfEvent(j))
         /\ accumulating_data_' <=> NextLineOfEvent(j) = 2
         /\ out'.err = "success"
         /\ out'.called = IF j = 2 THEN [to |-> bld_callback_, msg |-> EventMessage(Ids[k + 1])]
                          ELSE None
<1> DEFINE id == Ids[k + 1]
           line == LineOf(id, j)
<1>1. id \in Token /\ id # Space /\ j \in 0 .. 2
  <2>1. k + 1 \in 1 .. Len(Ids)
    BY ServerTokens DEF IsPlace
  <2> QED
    BY <2>1, ServerTokens DEF IsPlace
<1>2. current_msg_ = Built(k, j) /\ (accumulating_data_ <=> j = 2)
  BY DEF BuilderAt
<1>3. "id" \in Token /\ "data" \in Token /\ "id" # Colon /\ "data" # Colon
  BY ServerTokens DEF Colon
<1>4. Bld!FeedLine(line)
  OBVIOUS
<1>5. CASE j = 0
  <2>1. line = <<"id", Colon, id>>
    BY <1>5 DEF LineOf
  <2> DEFINE parsed == ParseFieldLine(line, DefaultMessage)
  <2> HIDE DEF id, line
  <2>2. IsField(line, "id") /\ FieldValue(line) = <<id>> /\ line \in Seq(Token)
    <3>1. line \in Seq(Token)
      BY <1>1, <1>3, <2>1, FieldParserAssumption
    <3> QED
      BY <1>1, <1>3, <2>1, <3>1, PartsOfLine
  <2>3. /\ parsed.err = "success" /\ parsed.msg.event = <<"message">>
        /\ parsed.msg.id = <<id>> /\ parsed.msg.retry = None
    <3>1. ~ IsField(line, "event") /\ ~ IsField(line, "retry")
      BY <2>2, OneField
    <3> QED
      BY <2>2, <3>1, ParsedFields, Zenon
  <2>4. ~ Bld!IsDataLine(line) /\ line # <<>>
    <3>1. line[1] = "id" /\ Len(line) = 3
      BY <2>1
    <3> QED
      BY <2>2, <3>1, SameFunctions, EmptySeq
  <2>5. /\ UNCHANGED accumulating_data_
        /\ out' = [Bld!Nothing EXCEPT !.err = parsed.err]
        /\ Bld!Merge(parsed.msg)
    <3>1. Bld!ProcessField(line)
      BY <1>4, <2>4 DEF Bld!FeedLine
    <3>2. Bld!ParseFieldLine(line, Bld!DefaultMessage) = parsed
      BY SameFunctions
    <3> HIDE DEF parsed
    <3> QED
      BY <2>3, <2>4, <3>1, <3>2 DEF Bld!ProcessField
  <2> HIDE DEF parsed
  <2>6. current_msg_ = DefaultMessage
    BY <1>2, <1>5 DEF Built
  <2>7. current_msg_' = [DefaultMessage EXCEPT !.id = <<id>>]
    <3>1. <<id>> # None
      <4>1. <<id>> \in Seq(Token)
        BY <1>1
      <4> QED
        BY <4>1, FieldParserAssumption
    <3>2. /\ DefaultMessage.event = <<"message">> /\ DefaultMessage.retry = None
          /\ Bld!DefaultMessage.event = <<"message">>
      BY DEF DefaultMessage, Bld!DefaultMessage
    <3>3. current_msg_' = [DefaultMessage EXCEPT !.event = <<"message">>,
                                                 !.id = <<id>>, !.retry = None]
      BY <2>3, <2>5, <2>6, <3>1, <3>2, Zenon DEF Bld!Merge
    <3>4. [DefaultMessage EXCEPT !.event = <<"message">>, !.id = <<id>>, !.retry = None]
            = [event |-> <<"message">>, data |-> <<>>, id |-> <<id>>, retry |-> None]
      BY OnlyAnId
    <3>5. [DefaultMessage EXCEPT !.id = <<id>>]
            = [event |-> <<"message">>, data |-> <<>>, id |-> <<id>>, retry |-> None]
      BY DEF DefaultMessage
    <3> QED
      BY <3>3, <3>4, <3>5, Zenon
  <2>8. NextEvent(k, j) = k /\ NextLineOfEvent(j) = 1
    BY <1>5 DEF NextEvent, NextLineOfEvent
  <2> QED
    BY <1>2, <1>5, <2>3, <2>5, <2>7, <2>8 DEF Built, Bld!Nothing, id
<1>6. CASE j = 1
  <2>1. line = <<"data", Colon, id>>
    BY <1>6 DEF LineOf
  <2> HIDE DEF id, line
  <2>2. Bld!DataValue(line) = <<id>>
    BY <1>1, <1>3, <2>1, PartsOfLine, SameFunctions
  <2>3. Bld!IsDataLine(line) /\ line # <<>>
    <3>1. line[1] = "data" /\ line[2] = Colon /\ Len(line) = 3
      BY <2>1
    <3>2. line # <<>>
      BY <3>1, EmptySeq
    <3> QED
      BY <3>1, <3>2, SameFunctions
  <2>4. Bld!AddData(<<id>>) /\ accumulating_data_' = TRUE /\ out' = Bld!Nothing
    BY <1>4, <2>2, <2>3 DEF Bld!FeedLine, Bld!ProcessField
  <2>5. current_msg_ = [DefaultMessage EXCEPT !.id = <<id>>]
    BY <1>2, <1>6 DEF Built, id
  <2>6. current_msg_' = EventMessage(id)
    <3>1. ~ accumulating_data_
      BY <1>2, <1>6
    <3>2. current_msg_' = [current_msg_ EXCEPT !.data = <<id>>]
      BY <2>4, <3>1, Zenon DEF Bld!AddData
    <3> QED
      BY <2>5, <3>2 DEF EventMessage, DefaultMessage
  <2>7. NextEvent(k, j) = k /\ NextLineOfEvent(j) = 2
    BY <1>6 DEF NextEvent, NextLineOfEvent
  <2> QED
    BY <1>6, <2>4, <2>6, <2>7 DEF Built, Bld!Nothing, id
<1>7. CASE j = 2
  <2>1. line = <<>>
    BY <1>7 DEF LineOf
  <2>2. Bld!CompleteMessage
    <3> HIDE DEF line
    <3>1. ~ (line # <<>>)
      BY <2>1
    <3> QED
      BY <1>4, <3>1 DEF Bld!FeedLine
  <2>3. current_msg_ = EventMessage(id)
    BY <1>2, <1>7 DEF Built
  <2> HIDE DEF id, line
  <2>4. /\ current_msg_' = DefaultMessage /\ accumulating_data_' = FALSE
        /\ out' = [Bld!Nothing EXCEPT
                    !.called = [to |-> bld_callback_, msg |-> EventMessage(id)]]
    BY <2>2, <2>3 DEF Bld!CompleteMessage, Bld!Notify, Bld!DefaultMessage, DefaultMessage
  <2>5. NextEvent(k, j) = k + 1 /\ NextLineOfEvent(j) = 0
    BY <1>7 DEF NextEvent, NextLineOfEvent
  <2> QED
    BY <1>7, <2>4, <2>5 DEF Built, Bld!Nothing, id
<1>8. j = 0 \/ j = 1 \/ j = 2
  BY <1>1
<1> QED
  BY <1>5, <1>6, <1>7, <1>8, Zenon

--------------------------------------------------------------------------------
(* The inductive invariant: the client stands at one place, between two    *)
(* lines of the text of the server, in all it keeps: what it delivered and *)
(* remembers, what the builder holds, and the text it has still to read.   *)

HasDelivered(k) ==
  /\ Len(delivered) = k
  /\ \A i \in 1 .. k : delivered[i].msg = EventMessage(Ids[i])
  /\ last_id = IF k = 0 THEN <<>> ELSE <<Ids[k]>>

Listens == connected /\ ~ first

TextAt(k, j) ==
  /\ Listens => Buf!Unread \o pending = TextFrom(k, j)
  /\ ~ Listens => Buf!Unread = <<>> /\ j = 0 /\ pc = "idle"
  /\ connected /\ first => pending \in {EventsFrom(k), BOM \o EventsFrom(k)}

IsAt(k, j) == IsPlace(k, j) /\ HasDelivered(k) /\ BuilderAt(k, j) /\ TextAt(k, j)

(* What stays as it was set up; between two calls no line is left to read. *)
Setting ==
  /\ pending \in Seq(Token)
  /\ max_size_ = MaxSize
  /\ bld_callback_ \in StdCallbacks
  /\ pc \in {"idle", "parse"}
  /\ pc = "idle" => HasNoEnd(Buf!Unread)

CInv ==
  /\ IInv
  /\ Setting
  /\ \E k \in 0 .. Len(Ids), j \in 0 .. 2 : IsAt(k, j)

(* A client that has connected to nothing stands at the start.             *)
LEMMA StartsAtFirst == CInit => CInv
<1> SUFFICES ASSUME CInit PROVE CInv
  OBVIOUS
<1>1. IInv
  BY InitInv DEF CInit
<1>2. Buf!Unread = <<>>
  <2>1. buffer_ = <<>> /\ read_pos_ = 0
    BY DEF CInit, Init, Buf!Init
  <2> QED
    BY <2>1 DEF Buf!Unread
<1>3. Setting
  <2>1. max_size_ = MaxSize /\ pc = "idle" /\ pending = <<>>
    BY DEF CInit, Init, Buf!Init
  <2>2. bld_callback_ \in StdCallbacks
    BY DEF CInit, Init
  <2>3. HasNoEnd(<<>>) /\ <<>> \in Seq(Token)
    BY EmptySeq DEF HasNoEnd
  <2> QED
    BY <1>2, <2>1, <2>2, <2>3 DEF Setting
<1>4. IsAt(0, 0)
  <2>1. Len(Ids) \in Nat
    BY ServerTokens
  <2>2. delivered = <<>> /\ last_id = <<>> /\ ~ connected /\ pc = "idle"
    BY DEF CInit, Init
  <2>3. HasDelivered(0)
    BY <2>2, EmptySeq DEF HasDelivered
  <2>4. BuilderAt(0, 0)
    BY DEF CInit, Init, BuilderAt, Built
  <2>5. TextAt(0, 0)
    BY <1>2, <2>2 DEF TextAt, Listens
  <2> QED
    BY <2>1, <2>3, <2>4, <2>5 DEF IsAt, IsPlace
<1>5. 0 \in 0 .. Len(Ids) /\ 0 \in 0 .. 2
  BY <1>4 DEF IsAt, IsPlace
<1> QED
  BY <1>1, <1>3, <1>4, <1>5 DEF CInv

(* The server resumes behind the last event that was delivered: no two     *)
(* events have the same id.                                                *)
LEMMA Resumes ==
  ASSUME NEW k \in 0 .. Len(Ids), HasDelivered(k)
  PROVE  EventsAfter(last_id) = EventsFrom(k)
<1> DEFINE T == {i \in 1 .. Len(Ids) : <<Ids[i]>> = last_id}
<1>1. /\ Len(Ids) \in Nat /\ T \subseteq 1 .. Len(Ids)
      /\ \A a, b \in 1 .. Len(Ids) : Ids[a] = Ids[b] => a = b
  BY ServerTokens, SseClientAssumption DEF IsInjective
<1>2. Max({0} \cup T) \in {0} \cup T /\ \A j \in T : j <= Max({0} \cup T)
  BY <1>1, GreatestOrZero
<1>3. CASE k = 0
  <2>1. last_id = <<>>
    BY <1>3 DEF HasDelivered
  <2>2. T = {}
    BY <2>1
  <2> QED
    BY <1>2, <1>3, <2>2 DEF EventsAfter
<1>4. CASE k # 0
  <2>1. last_id = <<Ids[k]>> /\ k \in 1 .. Len(Ids)
    BY <1>1, <1>4 DEF HasDelivered
  <2>2. ASSUME NEW i \in T PROVE i = k
    BY <1>1, <2>1
  <2>3. k \in T
    BY <2>1
  <2> HIDE DEF T
  <2>4. Max({0} \cup T) # 0
    <3>1. k <= Max({0} \cup T)
      BY <1>2, <2>3
    <3> QED
      BY <1>1, <2>1, <3>1
  <2>5. Max({0} \cup T) = k
    BY <1>2, <2>2, <2>4
  <2> QED
    BY <2>5 DEF EventsAfter, T
<1> QED
  BY <1>3, <1>4

(* A new connection: the text ahead starts at the place of the client.     *)
LEMMA ConnectKeeps ==
  ASSUME ~ AsksParser, CInv, Connect
  PROVE  CInv'
<1>1. PICK k \in 0 .. Len(Ids), j \in 0 .. 2 : IsAt(k, j)
  BY DEF CInv
<1>2. /\ pc = "idle" /\ ~ connected /\ connected' = TRUE /\ first' = TRUE
      /\ UNCHANGED vars /\ UNCHANGED last_id
      /\ pending' \in {<<>> \o EventsAfter(ResumeFrom), BOM \o EventsAfter(ResumeFrom)}
  BY DEF Connect
<1>3. /\ IsPlace(k, j) /\ HasDelivered(k) /\ BuilderAt(k, j) /\ TextAt(k, j)
      /\ IInv /\ Setting
  BY <1>1 DEF IsAt, CInv
<1>4. /\ EventsAfter(ResumeFrom) = EventsFrom(k) /\ EventsFrom(k) \in Seq(Token)
  BY <1>3, Resumes, EventsSplit DEF ResumeFrom
<1>5. BOM \in Seq(Token)
  <2>1. \A i \in 1 .. 3 : BOM[i] \in Token
    BY SseClientAssumption
  <2>2. "xEF" \in Token /\ "xBB" \in Token /\ "xBF" \in Token
    BY <2>1 DEF BOM
  <2> QED
    BY <2>2 DEF BOM
<1>6. pending' \in {EventsFrom(k), BOM \o EventsFrom(k)} /\ pending' \in Seq(Token)
  <2>1. <<>> \o EventsFrom(k) = EventsFrom(k)
    BY <1>4, ConcatEmptySeq
  <2>2. BOM \o EventsFrom(k) \in Seq(Token)
    BY <1>4, <1>5, ConcatProperties
  <2> QED
    BY <1>2, <1>4, <2>1, <2>2
<1>7. IInv'
  BY <1>2, <1>3, NextInv
<1>8. Buf!Unread' = Buf!Unread
  BY <1>2 DEF vars, buf_vars, Buf!Unread
<1>9. Setting'
  BY <1>2, <1>3, <1>6, <1>8 DEF Setting, vars, buf_vars, bld_vars
<1>10. IsAt(k, j)'
  <2>1. HasDelivered(k)' /\ BuilderAt(k, j)'
    BY <1>2, <1>3 DEF HasDelivered, BuilderAt, Built, vars, bld_vars
  <2>2. Buf!Unread = <<>> /\ j = 0 /\ pc = "idle"
    BY <1>2, <1>3 DEF TextAt, Listens
  <2>3. TextAt(k, j)'
    BY <1>2, <1>6, <1>8, <2>2 DEF TextAt, Listens, vars
  <2> QED
    BY <1>3, <2>1, <2>3 DEF IsAt, IsPlace
<1> QED
  BY <1>7, <1>9, <1>10 DEF CInv

(* A dropped connection: the client is back at the start of the event it   *)
(* was in.                                                                 *)
LEMMA DropKeeps ==
  ASSUME CInv, Drop
  PROVE  CInv'
<1>1. PICK k \in 0 .. Len(Ids), j \in 0 .. 2 : IsAt(k, j)
  BY DEF CInv
<1>2. /\ IsPlace(k, j) /\ HasDelivered(k) /\ IInv /\ Setting
  BY <1>1 DEF IsAt, CInv
<1>3. /\ connected' = FALSE /\ pending' = <<>> /\ pc' = "idle"
      /\ UNCHANGED <<last_id, delivered>> /\ Buf!Clear /\ Bld!Reset /\ Reset
  BY DEF Drop, Reset, ClearState, Return
<1>4. IInv'
  BY <1>2, <1>3, NextInv DEF Next, Call
<1>5. Buf!Unread' = <<>>
  BY <1>2, <1>3, BufferTexts DEF IInv, TypeOK
<1>6. /\ current_msg_' = DefaultMessage /\ accumulating_data_' = FALSE
      /\ UNCHANGED bld_callback_ /\ UNCHANGED max_size_
  BY <1>3 DEF Bld!Reset, Buf!Clear, Bld!DefaultMessage, DefaultMessage
<1>7. Setting'
  <2>1. HasNoEnd(<<>>) /\ <<>> \in Seq(Token)
    BY EmptySeq DEF HasNoEnd
  <2> QED
    BY <1>2, <1>3, <1>5, <1>6, <2>1 DEF Setting
<1>8. IsAt(k, 0)'
  <2>1. IsPlace(k, 0)
    BY <1>2 DEF IsPlace
  <2>2. HasDelivered(k)'
    BY <1>2, <1>3 DEF HasDelivered
  <2>3. BuilderAt(k, 0)'
    BY <1>6 DEF BuilderAt, Built
  <2>4. TextAt(k, 0)'
    BY <1>3, <1>5 DEF TextAt, Listens
  <2> QED
    BY <2>1, <2>2, <2>3, <2>4 DEF IsAt, IsPlace
<1> QED
  BY <1>4, <1>7, <1>8 DEF CInv

(* A new connection to which a chunk of n tokens comes first.              *)
ComesFirst(k, sent, n) ==
  /\ sent \in Seq(Token) /\ sent \in {EventsFrom(k), BOM \o EventsFrom(k)}
  /\ n \in 1 .. Len(sent)
  /\ HasBom(sent) => n >= Len(BOM)

(* What the parser is given of it, and what is still to come, is the text. *)
IsAllText(k, sent, n, chunk) ==
  /\ chunk \in Seq(Token) /\ Len(chunk) <= n
  /\ chunk \o SubSeq(sent, n + 1, Len(sent)) = EventsFrom(k)

(* The mark is skipped, wherever the first chunk ends, as long as it holds *)
(* all of it.                                                              *)
LEMMA MarkIsSkipped ==
  ASSUME NEW k \in 0 .. Len(Ids), NEW sent, NEW n, ComesFirst(k, sent, n)
  PROVE  IsAllText(k, sent, n, SkipBom(SubSeq(sent, 1, n)))
<1> USE DEF ComesFirst
<1> DEFINE raw == SubSeq(sent, 1, n)
           rest == SubSeq(sent, n + 1, Len(sent))
           text == EventsFrom(k)
<1>1. /\ raw \in Seq(Token) /\ Len(raw) = n
      /\ \A i \in 1 .. n : raw[i] = sent[i]
      /\ Len(sent) \in Nat /\ n \in Nat /\ n >= 1
  <2>1. 1 \in 1 .. Len(sent) + 1 /\ n \in 0 .. Len(sent) /\ 1 <= n + 1
    OBVIOUS
  <2>2. /\ raw \in Seq(Token) /\ Len(raw) = n - 1 + 1
        /\ \A i \in 1 .. n - 1 + 1 : raw[i] = sent[1 + i - 1]
    BY <2>1, Piece
  <2> HIDE DEF raw
  <2> QED
    BY <2>2
<1>2. rest \in Seq(Token)
  <2>1. n + 1 \in 1 .. Len(sent) + 1 /\ Len(sent) \in 0 .. Len(sent)
        /\ n + 1 <= Len(sent) + 1
    BY <1>1
  <2> QED
    BY <2>1, Piece
<1>3. raw \o rest = sent
  <2>1. 1 \in 1 .. Len(sent) + 1 /\ n \in 1 - 1 .. Len(sent)
    BY <1>1
  <2>2. SubSeq(sent, 1, n) \o SubSeq(sent, n + 1, Len(sent)) = SubSeq(sent, 1, Len(sent))
    BY <1>1, ConcatAdjacentSubSeq
  <2> QED
    BY <2>2, SubSeqFull
<1>4. BOM \in Seq(Token) /\ Len(BOM) = 3 /\ BOM[1] = "xEF"
  <2>1. \A i \in 1 .. 3 : BOM[i] \in Token
    BY SseClientAssumption
  <2>2. "xEF" \in Token /\ "xBB" \in Token /\ "xBF" \in Token
    BY <2>1 DEF BOM
  <2> QED
    BY <2>2 DEF BOM
<1>5. text \in Seq(Token)
  BY EventsSplit
<1> HIDE DEF raw, rest, text
<1>6. CASE sent = text
  <2>1. sent[1] = "id"
    <3>1. sent # <<>>
      BY <1>1, EmptySeq
    <3>2. k # Len(Ids)
      BY <1>6, <3>1, EventsSplit DEF text
    <3>3. k + 1 \in 0 .. Len(Ids) /\ k + 1 \in 1 .. Len(Ids) /\ k < Len(Ids)
      BY <3>2, ServerTokens
    <3> DEFINE event == EventText(Ids[k + 1])
               after == EventsFrom(k + 1)
    <3>4. /\ text = event \o after
          /\ event \in Seq(Token) /\ after \in Seq(Token)
      <4>1. Ids[k + 1] \in Token
        BY <3>3, ServerTokens
      <4>2. EventText(Ids[k + 1]) \in Seq(Token)
        BY <4>1, EventInLines
      <4>3. EventsFrom(k + 1) \in Seq(Token)
        BY <3>3, EventsSplit
      <4> QED
        BY <3>3, <4>2, <4>3, EventsSplit DEF text
    <3>5. Len(event) = 9 /\ event[1] = "id"
      BY DEF EventText
    <3> HIDE DEF event, after
    <3>6. \A i \in 1 .. Len(event) + Len(after) :
            (event \o after)[i] = IF i <= Len(event) THEN event[i]
                                  ELSE after[i - Len(event)]
      BY <3>4, ConcatProperties
    <3>7. 1 \in 1 .. Len(event) + Len(after) /\ 1 <= Len(event)
      BY <3>4, <3>5
    <3> QED
      BY <1>6, <3>4, <3>5, <3>6, <3>7
  <2>2. ~ HasBom(raw)
    <3> SUFFICES ASSUME HasBom(raw) PROVE FALSE
      OBVIOUS
    <3>1. Len(raw) >= 3 /\ SubSeq(raw, 1, 3) = BOM
      BY DEF HasBom
    <3>2. SubSeq(raw, 1, 3)[1] = raw[1]
      <4>1. 1 \in 1 .. Len(raw) + 1 /\ 3 \in 0 .. Len(raw) /\ 1 <= 3 + 1
        BY <1>1, <3>1
      <4>2. \A i \in 1 .. 3 - 1 + 1 : SubSeq(raw, 1, 3)[i] = raw[1 + i - 1]
        BY <1>1, <4>1, Piece
      <4>3. 1 \in 1 .. 3 - 1 + 1 /\ 1 + 1 - 1 = 1
        OBVIOUS
      <4> QED
        BY <4>2, <4>3
    <3>3. raw[1] = sent[1]
      BY <1>1
    <3> QED
      BY <1>4, <2>1, <3>1, <3>2, <3>3
  <2>3. SkipBom(raw) = raw
    BY <2>2 DEF SkipBom
  <2>4. SkipBom(raw) \in Seq(Token) /\ Len(SkipBom(raw)) <= n /\ SkipBom(raw) \o rest = text
    BY <1>1, <1>3, <1>6, <2>3
  <2> QED
    BY <2>4, Zenon DEF raw, rest, text, IsAllText
<1>7. CASE sent = BOM \o text
  <2>1. /\ Len(sent) = 3 + Len(text) /\ Len(text) \in Nat
        /\ \A i \in 1 .. 3 : sent[i] = BOM[i]
    <3>1. /\ Len(sent) = Len(BOM) + Len(text)
          /\ \A i \in 1 .. Len(BOM) + Len(text) :
               sent[i] = IF i <= Len(BOM) THEN BOM[i] ELSE text[i - Len(BOM)]
      BY <1>4, <1>5, <1>7, ConcatProperties
    <3> HIDE DEF BOM
    <3> QED
      BY <1>4, <1>5, <3>1
  <2>2. ASSUME NEW x \in Seq(Token), Len(x) >= 3, \A i \in 1 .. 3 : x[i] = BOM[i]
        PROVE  HasBom(x)
    <3> DEFINE y == SubSeq(x, 1, 3)
    <3>1. y \in Seq(Token) /\ Len(y) = 3 /\ \A i \in 1 .. 3 : y[i] = x[i]
      <4>1. 1 \in 1 .. Len(x) + 1 /\ 3 \in 0 .. Len(x) /\ 1 <= 3 + 1
        BY <2>2
      <4>2. /\ y \in Seq(Token) /\ Len(y) = 3 - 1 + 1
            /\ \A i \in 1 .. 3 - 1 + 1 : y[i] = x[1 + i - 1]
        BY <4>1, Piece
      <4> HIDE DEF y
      <4> QED
        BY <4>2
    <3> HIDE DEF y, BOM
    <3>2. \A i \in 1 .. Len(y) : y[i] = BOM[i]
      BY <2>2, <3>1
    <3>3. y = BOM
      BY <1>4, <3>1, <3>2, SeqEqual
    <3> QED
      BY <2>2, <3>3 DEF HasBom, y
  <2>3. HasBom(sent) /\ n >= 3
    BY <1>4, <2>1, <2>2
  <2>4. HasBom(raw)
    <3>1. \A i \in 1 .. 3 : i \in 1 .. n
      BY <1>1, <2>3
    <3>2. \A i \in 1 .. 3 : raw[i] = BOM[i]
      BY <1>1, <2>1, <3>1
    <3> QED
      BY <1>1, <2>2, <2>3, <3>2
  <2> DEFINE chunk == SubSeq(raw, 4, Len(raw))
  <2>5. SkipBom(raw) = chunk
    BY <2>4 DEF SkipBom
  <2>6. chunk \in Seq(Token) /\ Len(chunk) = n - 3
    <3>1. 4 \in 1 .. Len(raw) + 1 /\ Len(raw) \in 0 .. Len(raw) /\ 4 <= Len(raw) + 1
      BY <1>1, <2>3
    <3>2. chunk \in Seq(Token) /\ Len(chunk) = Len(raw) - 4 + 1
      BY <1>1, <3>1, Piece
    <3> QED
      BY <1>1, <3>2
  <2>7. chunk \o rest = text
    <3>1. SubSeq(raw \o rest, 3 + 1, Len(raw \o rest)) = SubSeq(raw, 3 + 1, Len(raw)) \o rest
      <4>1. 3 \in 0 .. Len(raw)
        BY <1>1, <2>3
      <4> QED
        BY <1>1, <1>2, <4>1, PartsAssumptions, BufP!SuffixOfConcat
    <3>2. SubSeq(BOM \o text, 3 + 1, Len(BOM \o text)) = SubSeq(BOM, 3 + 1, Len(BOM)) \o text
      <4>1. 3 \in 0 .. Len(BOM)
        BY <1>4
      <4> QED
        BY <1>4, <1>5, <4>1, PartsAssumptions, BufP!SuffixOfConcat
    <3>3. SubSeq(BOM, 3 + 1, Len(BOM)) = <<>>
      <4>1. 3 + 1 \in Int /\ Len(BOM) \in Int /\ Len(BOM) < 3 + 1
        BY <1>4
      <4> QED
        BY <4>1, SubSeqEmpty
    <3>4. <<>> \o text = text
      BY <1>5, ConcatEmptySeq
    <3>5. 3 + 1 = 4
      OBVIOUS
    <3> QED
      BY <1>3, <1>7, <3>1, <3>2, <3>3, <3>4, <3>5
  <2> HIDE DEF chunk
  <2>8. SkipBom(raw) \in Seq(Token) /\ Len(SkipBom(raw)) <= n /\ SkipBom(raw) \o rest = text
    BY <1>1, <2>5, <2>6, <2>7
  <2> QED
    BY <2>8, Zenon DEF raw, rest, text, IsAllText
<1> QED
  BY <1>6, <1>7 DEF text

(* A connection has no more of a line in the buffer than there is, so the  *)
(* chunk it receives next always fits.                                     *)
LEMMA LittleIsUnread ==
  ASSUME NEW k, NEW j, IsPlace(k, j), NEW old \in Seq(Token), NEW coming \in Seq(Token),
         HasNoEnd(old), old \o coming = TextFrom(k, j)
  PROVE  Len(old) <= 3
<1>1. CASE k = Len(Ids)
  <2>1. old \o coming = <<>>
    BY <1>1, TextSplit
  <2>2. Len(old \o coming) = Len(old) + Len(coming)
    BY ConcatProperties
  <2> QED
    BY <2>1, <2>2
<1>2. CASE k # Len(Ids)
  <2> DEFINE line == LineOf(Ids[k + 1], j)
             rest == TextFrom(NextEvent(k, j), NextLineOfEvent(j))
  <2>1. k + 1 \in 1 .. Len(Ids) /\ j \in 0 .. 2
    BY <1>2, ServerTokens DEF IsPlace
  <2>2. line \in Seq(Token) /\ Len(line) <= 3 /\ HasNoEnd(line)
    BY <2>1, ServerTokens, LineType
  <2>3. rest \in Seq(Token) /\ old \o coming = (line \o <<LF>>) \o rest
    BY <1>2, TextSplit
  <2> HIDE DEF line, rest
  <2>4. Len(old) <= Len(line)
    <3>1. StartsWith(old, coming, line, rest)
      BY <2>2, <2>3 DEF StartsWith
    <3> QED
      BY <3>1, NoLineYet
  <2> QED
    BY <2>2, <2>4
<1> QED
  BY <1>1, <1>2

(* A chunk taken: what the parser has still to read, and what the client   *)
(* has, make up the same text.                                             *)
LEMMA TakesAll ==
  ASSUME Buf!TypeOK, max_size_ = MaxSize, MaxChunk + 3 <= MaxSize,
         NEW chunk \in Seq(Token), Len(chunk) <= MaxChunk, Parse(chunk),
         Len(Buf!Unread) <= 3, HasNoEnd(Buf!Unread)
  PROVE  /\ Buf!Unread' = Buf!Unread \o chunk
         /\ UNCHANGED max_size_
         /\ pc' \in {"idle", "parse"}
         /\ pc' = "idle" => HasNoEnd(Buf!Unread')
<1>1. Buf!Unread \in Seq(Token)
  BY BufferTexts
<1>2. CASE chunk = <<>> /\ UNCHANGED buf_vars /\ pc' = "idle"
  <2>1. Buf!Unread' = Buf!Unread /\ UNCHANGED max_size_
    BY <1>2 DEF buf_vars, Buf!Unread
  <2>2. Buf!Unread \o <<>> = Buf!Unread
    BY <1>1, ConcatEmptySeq
  <2> QED
    BY <1>2, <2>1, <2>2
<1>3. CASE /\ chunk # <<>> /\ Buf!AppendChunk(chunk)
           /\ ret'.err = "success" => pc' = "parse"
  <2>1. Len(Buf!Unread) + Len(chunk) <= max_size_
    BY <1>1, SseClientAssumption, SseParserAssumption
  <2>2. ret'.err = "success" /\ UNCHANGED max_size_
    BY <1>3, <2>1 DEF Buf!AppendChunk, Buf!Fits
  <2>3. Buf!Unread' = Buf!Unread \o chunk
    BY <1>3, <2>2, BufferTexts
  <2> QED
    BY <1>3, <2>2, <2>3
<1> QED
  BY <1>2, <1>3 DEF Parse, Return

(* A chunk received, the mark of a new connection skipped.                 *)
LEMMA ReceiveKeeps ==
  ASSUME WholeBom, MaxChunk + 3 <= MaxSize, CInv, NEW n \in 1 .. MaxChunk, Receive(n)
  PROVE  CInv'
<1> DEFINE old == Buf!Unread
           chunk == Skipped(SubSeq(pending, 1, n))
           rest == SubSeq(pending, n + 1, Len(pending))
<1>1. PICK k \in 0 .. Len(Ids), j \in 0 .. 2 : IsAt(k, j)
  BY DEF CInv
<1>2. /\ IsPlace(k, j) /\ HasDelivered(k) /\ BuilderAt(k, j) /\ TextAt(k, j)
      /\ IInv /\ Setting /\ Buf!TypeOK
  BY <1>1 DEF IsAt, CInv, IInv, TypeOK
<1>3. /\ pc = "idle" /\ connected /\ n \in 1 .. Len(pending)
      /\ first /\ HasBom(pending) => n >= Len(BOM)
      /\ Parse(chunk) /\ first' = FALSE /\ pending' = rest
      /\ UNCHANGED <<last_id, connected>>
  <2>1. pending \in Seq(Token)
    BY <1>2 DEF Setting
  <2>2. n \in 1 .. Len(pending)
    BY <2>1, SseClientAssumption DEF Receive
  <2> QED
    BY <2>2 DEF Receive
<1>4. /\ old \in Seq(Token) /\ pending \in Seq(Token) /\ HasNoEnd(old)
      /\ TextFrom(k, j) \in Seq(Token)
  BY <1>2, <1>3, BufferTexts, TextSplit DEF Setting
<1>5. /\ chunk \in Seq(Token) /\ Len(chunk) <= n /\ rest \in Seq(Token)
      /\ old \o (chunk \o rest) = TextFrom(k, j)
  <2>1. rest \in Seq(Token)
    <3>1. /\ n + 1 \in 1 .. Len(pending) + 1 /\ Len(pending) \in 0 .. Len(pending)
          /\ n + 1 <= Len(pending) + 1
      BY <1>3, <1>4
    <3> QED
      BY <1>4, <3>1, Piece
  <2>2. CASE first
    <3>1. /\ old = <<>> /\ j = 0 /\ pending \in {EventsFrom(k), BOM \o EventsFrom(k)}
      BY <1>2, <1>3, <2>2 DEF TextAt, Listens
    <3>2. chunk = SkipBom(SubSeq(pending, 1, n))
      BY <2>2 DEF Skipped
    <3>3. chunk \in Seq(Token) /\ Len(chunk) <= n /\ chunk \o rest = EventsFrom(k)
      <4>1. ComesFirst(k, pending, n)
        BY <1>3, <1>4, <2>2, <3>1 DEF ComesFirst
      <4>2. IsAllText(k, pending, n, chunk)
        BY <3>2, <4>1, MarkIsSkipped
      <4> QED
        BY <4>2 DEF IsAllText
    <3> HIDE DEF chunk, rest, old
    <3>4. <<>> \o (chunk \o rest) = chunk \o rest
      BY <2>1, <3>3, ConcatProperties, ConcatEmptySeq
    <3>5. TextFrom(k, j) = EventsFrom(k)
      BY <3>1 DEF TextFrom
    <3> QED
      BY <2>1, <3>1, <3>3, <3>4, <3>5
  <2>3. CASE ~ first
    <3>1. old \o pending = TextFrom(k, j)
      BY <1>2, <1>3, <2>3 DEF TextAt, Listens
    <3>2. chunk = SubSeq(pending, 1, n)
      BY <2>3 DEF Skipped
    <3>3. chunk \in Seq(Token) /\ Len(chunk) = n
      <4>1. 1 \in 1 .. Len(pending) + 1 /\ n \in 0 .. Len(pending) /\ 1 <= n + 1
        BY <1>3, <1>4
      <4>2. /\ SubSeq(pending, 1, n) \in Seq(Token)
            /\ Len(SubSeq(pending, 1, n)) = n - 1 + 1
        BY <1>4, <4>1, Piece
      <4> QED
        BY <3>2, <4>2
    <3>4. chunk \o rest = pending
      <4>1. 1 \in 1 .. Len(pending) + 1 /\ n \in 1 - 1 .. Len(pending)
        BY <1>3, <1>4
      <4>2. SubSeq(pending, 1, n) \o SubSeq(pending, n + 1, Len(pending))
              = SubSeq(pending, 1, Len(pending))
        BY <1>3, <1>4, ConcatAdjacentSubSeq
      <4>3. SubSeq(pending, 1, Len(pending)) = pending
        BY <1>4, SubSeqFull
      <4> QED
        BY <3>2, <4>2, <4>3
    <3> HIDE DEF chunk, rest, old
    <3>5. Len(chunk) <= n
      BY <1>3, <3>3
    <3> QED
      BY <2>1, <3>1, <3>3, <3>4, <3>5, Zenon
  <2> QED
    BY <2>2, <2>3
<1> HIDE DEF chunk, rest
<1>6. Len(old) <= 3
  <2>1. chunk \o rest \in Seq(Token)
    BY <1>5, ConcatProperties
  <2> HIDE DEF old
  <2> QED
    BY <1>2, <1>4, <1>5, <2>1, LittleIsUnread
<1>7. /\ Buf!Unread' = old \o chunk /\ UNCHANGED max_size_
      /\ pc' \in {"idle", "parse"}
      /\ pc' = "idle" => HasNoEnd(Buf!Unread')
  <2>1. Len(chunk) <= MaxChunk /\ max_size_ = MaxSize
    BY <1>2, <1>5, SseClientAssumption DEF Setting
  <2> QED
    BY <1>2, <1>3, <1>4, <1>5, <1>6, <2>1, TakesAll
<1>8. Buf!Unread' \o pending' = TextFrom(k, j)
  <2> HIDE DEF old
  <2>1. (old \o chunk) \o rest = old \o (chunk \o rest)
    BY <1>4, <1>5, TextsAssociate, Zenon
  <2> QED
    BY <1>3, <1>5, <1>7, <2>1, Zenon
<1>9. UNCHANGED <<current_msg_, accumulating_data_, bld_callback_, delivered>>
  BY <1>3 DEF Parse, bld_vars
<1>10. IInv'
  BY <1>2, <1>3, <1>5, ParseInv
<1>11. Setting'
  BY <1>2, <1>3, <1>5, <1>7, <1>9 DEF Setting
<1>12. IsAt(k, j)'
  <2>1. HasDelivered(k)'
    BY <1>2, <1>3, <1>9 DEF HasDelivered
  <2>2. BuilderAt(k, j)'
    BY <1>2, <1>9 DEF BuilderAt, Built
  <2>3. TextAt(k, j)'
    BY <1>3, <1>8 DEF TextAt, Listens
  <2> QED
    BY <1>2, <2>1, <2>2, <2>3 DEF IsAt, IsPlace
<1> QED
  BY <1>10, <1>11, <1>12 DEF CInv

(* A line read is the next line of the text.                               *)
LEMMA NextLineIsRead ==
  ASSUME NEW k, NEW j, IsPlace(k, j), Buf!TypeOK, pending \in Seq(Token),
         Buf!Unread \o pending = TextFrom(k, j), Buf!ReadLine
  PROVE  \/ /\ ret'.line = None
            /\ HasNoEnd(Buf!Unread')
            /\ Buf!Unread' = Buf!Unread
         \/ /\ k # Len(Ids)
            /\ ret'.line = LineOf(Ids[k + 1], j)
            /\ Buf!Unread' \o pending = TextFrom(NextEvent(k, j), NextLineOfEvent(j))
<1> DEFINE old == Buf!Unread
           new == Buf!Unread'
           line == LineOf(Ids[k + 1], j)
           rest == TextFrom(NextEvent(k, j), NextLineOfEvent(j))
<1>1. BufP!TypeOK /\ BufP!ReadLine /\ BufP!BufferAssumption /\ old \in Seq(Token)
  BY SameBuffer, PartsAssumptions, BufferTexts
<1>2. old = BufP!Unread /\ new = BufP!Unread'
  BY DEF Buf!Unread, BufP!Unread
<1>3. BufP!EOL = EOL
  BY DEF BufP!EOL, EOL
<1>4. \/ /\ ret'.line = None
         /\ new = old
         /\ \A i \in 1 .. Len(old) : old[i] \notin EOL
      \/ \E n \in 1 .. Len(old) :
           /\ old[n] \in EOL
           /\ \A i \in 1 .. n - 1 : old[i] \notin EOL
           /\ ret'.line = SubSeq(old, 1, n - 1)
           /\ LET t == IF old[n] = CR /\ n < Len(old) /\ old[n + 1] = LF THEN 2 ELSE 1
              IN  new = SubSeq(old, n + t, Len(old))
  <2> HIDE DEF old, new
  <2> QED
    BY <1>1, <1>2, <1>3, BufP!ReadLineText
<1>5. old \o pending = TextFrom(k, j)
  OBVIOUS
<1> HIDE DEF old, new, line, rest
<1>6. CASE ret'.line = None /\ new = old /\ \A i \in 1 .. Len(old) : old[i] \notin EOL
  BY <1>6 DEF HasNoEnd, old, new
<1>7. ASSUME NEW n \in 1 .. Len(old),
             old[n] \in EOL,
             \A i \in 1 .. n - 1 : old[i] \notin EOL,
             ret'.line = SubSeq(old, 1, n - 1),
             NEW t, t = IF old[n] = CR /\ n < Len(old) /\ old[n + 1] = LF THEN 2 ELSE 1,
             new = SubSeq(old, n + t, Len(old))
      PROVE  k # Len(Ids) /\ ret'.line = line /\ new \o pending = rest
  <2>1. k # Len(Ids)
    <3> SUFFICES ASSUME k = Len(Ids) PROVE FALSE
      OBVIOUS
    <3>1. old \o pending = <<>>
      BY <1>5, TextSplit
    <3>2. Len(old \o pending) = Len(old) + Len(pending)
      BY <1>1, ConcatProperties
    <3> QED
      BY <1>1, <3>1, <3>2
  <2>2. k + 1 \in 1 .. Len(Ids) /\ j \in 0 .. 2
    BY <2>1, ServerTokens DEF IsPlace
  <2>3. line \in Seq(Token) /\ HasNoEnd(line)
    BY <2>2, ServerTokens, LineType DEF line
  <2>4. rest \in Seq(Token) /\ old \o pending = (line \o <<LF>>) \o rest
    BY <1>5, <2>1, TextSplit DEF line, rest
  <2>5. /\ old[n] # CR
        /\ SubSeq(old, 1, n - 1) = line
        /\ SubSeq(old, n + 1, Len(old)) \o pending = rest
    <3>1. old \in Seq(Token) /\ pending \in Seq(Token) /\ rest \in Seq(Token) /\ line \in Seq(Token)
      BY <1>1, <2>3, <2>4
    <3>2. old \o pending = (line \o <<LF>>) \o rest
      BY <2>4
    <3>3. /\ n \in 1 .. Len(old) /\ old[n] \in EOL
          /\ \A i \in 1 .. n - 1 : old[i] \notin EOL
      BY <1>7
    <3>4. HasNoEnd(line)
      BY <2>3
    <3>5. EndsFirst(old, pending, line, rest, n)
      BY <3>1, <3>2, <3>3, <3>4 DEF EndsFirst, StartsWith
    <3>6. IsNextLine(old, pending, line, rest, n)
      BY <3>5, FirstLine
    <3> QED
      BY <3>6 DEF IsNextLine
  <2> QED
    BY <1>7, <2>1, <2>5
<1> QED
  BY <1>4, <1>6, <1>7 DEF old, new, line, rest

(* The callback gets the event once its empty line is fed, and remembers   *)
(* its id.                                                                 *)
LEMMA EventDelivered ==
  ASSUME NEW k, NEW j, IsPlace(k, j), k # Len(Ids), HasDelivered(k), IInv,
         bld_callback_ \in StdCallbacks,
         out'.called = IF j = 2 THEN [to |-> bld_callback_, msg |-> EventMessage(Ids[k + 1])]
                       ELSE None,
         Deliver, RememberId
  PROVE  HasDelivered(NextEvent(k, j))'
<1>1. /\ Len(delivered) = k /\ delivered \in Seq([to : Targets, msg : Message])
      /\ \A i \in 1 .. k : delivered[i].msg = EventMessage(Ids[i])
      /\ last_id = IF k = 0 THEN <<>> ELSE <<Ids[k]>>
      /\ k \in 0 .. Len(Ids) /\ j \in 0 .. 2
  BY DEF HasDelivered, IInv, TypeOK, IsPlace
<1>2. CASE j # 2
  <2>1. delivered' = delivered /\ last_id' = last_id
    BY <1>2 DEF Deliver, RememberId
  <2> QED
    BY <1>1, <1>2, <2>1 DEF HasDelivered, NextEvent
<1>3. CASE j = 2
  <2> DEFINE id == Ids[k + 1]
             msg == EventMessage(id)
  <2>1. id \in Token
    BY <1>1, ServerTokens
  <2>2. /\ msg \in Message /\ msg.id = <<id>> /\ msg.id # None
    <3> HIDE DEF id
    <3>1. <<id>> \in Seq(Token) /\ <<"message">> \in Seq(Token)
      BY <2>1, FieldParserAssumption
    <3>2. <<id>> # None
      BY <3>1, FieldParserAssumption
    <3> QED
      BY <3>1, <3>2 DEF EventMessage, Message
  <2> HIDE DEF msg
  <2> DEFINE call == [to |-> bld_callback_, msg |-> msg]
  <2>3. out'.called = call /\ call # None
    <3>1. call \in [to : StdCallbacks \cup {Wrapper}, msg : Message]
      BY <2>2
    <3>2. out'.called = call
      BY <1>3 DEF msg
    <3> QED
      BY <3>1, <3>2, SseParserAssumption
  <2>4. delivered' = Append(delivered, call)
    <3>1. Receiver(bld_callback_) = bld_callback_
      BY SseParserAssumption DEF Receiver
    <3> QED
      BY <2>3, <3>1 DEF Deliver
  <2>5. /\ Len(delivered') = k + 1 /\ delivered'[k + 1] = call
        /\ \A i \in 1 .. k : delivered'[i] = delivered[i]
    <3>1. call \in [to : Targets, msg : Message]
      BY <2>2 DEF Targets
    <3> HIDE DEF call
    <3> QED
      BY <1>1, <2>4, <3>1, AppendProperties
  <2>6. last_id' = <<id>>
    <3>1. delivered' # delivered
      BY <1>1, <2>5
    <3>2. delivered'[Len(delivered')].msg.id = <<id>>
      BY <2>2, <2>5
    <3> QED
      BY <2>2, <3>1, <3>2 DEF RememberId
  <2>7. \A i \in 1 .. k + 1 : delivered'[i].msg = EventMessage(Ids[i])
    <3>1. \A i \in 1 .. k + 1 : i \in 1 .. k \/ i = k + 1
      BY <1>1
    <3>2. delivered'[k + 1].msg = EventMessage(Ids[k + 1])
      BY <2>5 DEF msg
    <3> QED
      BY <1>1, <2>5, <3>1, <3>2
  <2>8. NextEvent(k, j) = k + 1 /\ k + 1 # 0
    BY <1>1, <1>3 DEF NextEvent
  <2> QED
    BY <2>5, <2>6, <2>7, <2>8 DEF HasDelivered
<1> QED
  BY <1>2, <1>3

(* One turn of the loop of parse: the client is at the next place, or has  *)
(* to receive more.                                                        *)
LEMMA ContinueKeeps ==
  ASSUME CInv, CContinue
  PROVE  CInv'
<1>1. PICK k \in 0 .. Len(Ids), j \in 0 .. 2 : IsAt(k, j)
  BY DEF CInv
<1>2. /\ IsPlace(k, j) /\ HasDelivered(k) /\ BuilderAt(k, j) /\ TextAt(k, j)
      /\ IInv /\ Setting /\ Buf!TypeOK
  BY <1>1 DEF IsAt, CInv, IInv, TypeOK
<1>3. /\ Continue /\ RememberId /\ UNCHANGED <<connected, first, pending>>
  BY DEF CContinue
<1>4. ParseLine /\ pc = "parse"
  BY <1>2, <1>3 DEF Continue, ParseLine, FlushLine, FlushLeftover, FlushComplete,
     FlushClear, Setting
<1>5. /\ Buf!ReadLine /\ UNCHANGED max_size_
      /\ \/ /\ ret'.line = None /\ pc' = "idle"
            /\ UNCHANGED <<bld_vars, delivered>>
         \/ ret'.line # None /\ Feed(ret'.line, "parse", pc)
  BY <1>4 DEF ParseLine, LineLoop, Return, Buf!ReadLine
<1>6. IInv'
  BY <1>2, <1>3, NextInv DEF Next
<1>7. /\ Listens /\ pending \in Seq(Token) /\ bld_callback_ \in StdCallbacks
      /\ Buf!Unread \o pending = TextFrom(k, j)
  BY <1>2, <1>4 DEF TextAt, Setting
<1>8. CASE /\ ret'.line = None /\ pc' = "idle" /\ UNCHANGED <<bld_vars, delivered>>
           /\ HasNoEnd(Buf!Unread') /\ Buf!Unread' = Buf!Unread
  <2>1. UNCHANGED <<current_msg_, accumulating_data_, bld_callback_, delivered, last_id>>
    BY <1>3, <1>8 DEF bld_vars, RememberId
  <2>2. Setting'
    BY <1>2, <1>3, <1>5, <1>8, <2>1 DEF Setting
  <2>3. IsAt(k, j)'
    <3>1. HasDelivered(k)'
      BY <1>2, <2>1 DEF HasDelivered
    <3>2. BuilderAt(k, j)'
      BY <1>2, <2>1 DEF BuilderAt, Built
    <3>3. TextAt(k, j)'
      BY <1>3, <1>7, <1>8 DEF TextAt, Listens
    <3> QED
      BY <1>2, <3>1, <3>2, <3>3 DEF IsAt, IsPlace
  <2> QED
    BY <1>6, <2>2, <2>3 DEF CInv
<1>9. CASE /\ ret'.line = LineOf(Ids[k + 1], j) /\ k # Len(Ids)
           /\ Feed(ret'.line, "parse", pc)
           /\ Buf!Unread' \o pending = TextFrom(NextEvent(k, j), NextLineOfEvent(j))
  <2> DEFINE k1 == NextEvent(k, j)
             j1 == NextLineOfEvent(j)
  <2>1. Bld!FeedLine(LineOf(Ids[k + 1], j)) /\ Deliver
    BY <1>9 DEF Feed
  <2>2. bld_callback_ # None
    BY <1>7, SseParserAssumption
  <2>3. /\ current_msg_' = Built(k1, j1)
        /\ accumulating_data_' <=> j1 = 2
        /\ out'.err = "success"
        /\ out'.called = IF j = 2 THEN [to |-> bld_callback_, msg |-> EventMessage(Ids[k + 1])]
                         ELSE None
    BY <1>2, <1>9, <2>1, <2>2, LineFed
  <2>4. pc' = "parse" /\ UNCHANGED bld_callback_
    <3>1. pc' = pc
      BY <1>9, <2>3 DEF Feed
    <3>2. UNCHANGED bld_callback_
      BY <2>1 DEF Bld!FeedLine, Bld!ProcessField, Bld!CompleteMessage
    <3> QED
      BY <1>4, <3>1, <3>2
  <2>5. Setting'
    BY <1>2, <1>3, <1>5, <2>4 DEF Setting
  <2>6. IsPlace(k1, j1)
    BY <1>2, <1>9, TextSplit
  <2> HIDE DEF k1, j1
  <2>7. IsAt(k1, j1)'
    <3>1. HasDelivered(k1)'
      BY <1>2, <1>3, <1>7, <1>9, <2>1, <2>3, EventDelivered DEF k1
    <3>2. BuilderAt(k1, j1)'
      BY <2>3 DEF BuilderAt, Built
    <3>3. TextAt(k1, j1)'
      BY <1>3, <1>7, <1>9 DEF TextAt, Listens, k1, j1
    <3> QED
      BY <2>6, <3>1, <3>2, <3>3 DEF IsAt, IsPlace
  <2>8. k1 \in 0 .. Len(Ids) /\ j1 \in 0 .. 2
    BY <2>6 DEF IsPlace
  <2> QED
    BY <1>6, <2>5, <2>7, <2>8 DEF CInv
<1> QED
  <2>1. \/ /\ ret'.line = None
           /\ HasNoEnd(Buf!Unread')
           /\ Buf!Unread' = Buf!Unread
        \/ /\ k # Len(Ids)
           /\ ret'.line = LineOf(Ids[k + 1], j)
           /\ Buf!Unread' \o pending = TextFrom(NextEvent(k, j), NextLineOfEvent(j))
    BY <1>2, <1>5, <1>7, NextLineIsRead
  <2>2. LineOf(Ids[k + 1], j) # None \/ k = Len(Ids)
    <3>1. CASE k # Len(Ids)
      <4>1. k + 1 \in 1 .. Len(Ids) /\ j \in 0 .. 2
        BY <1>2, <3>1, ServerTokens DEF IsPlace
      <4>2. LineOf(Ids[k + 1], j) \in Seq(Token)
        BY <4>1, ServerTokens, LineType
      <4> QED
        BY <4>2, FieldParserAssumption
    <3> QED
      BY <3>1
  <2>3. CASE ret'.line = None
    BY <1>5, <1>8, <2>1, <2>2, <2>3
  <2>4. CASE ret'.line # None
    BY <1>5, <1>9, <2>1, <2>4
  <2> QED
    BY <2>3, <2>4

(* Every step of the client keeps its place known.                         *)
LEMMA ClientKeeps ==
  ASSUME ~ AsksParser, WholeBom, MaxChunk + 3 <= MaxSize
  PROVE  CInv /\ [CNext]_<<vars, client_vars>> => CInv'
<1> SUFFICES ASSUME CInv, [CNext]_<<vars, client_vars>> PROVE CInv'
  OBVIOUS
<1>1. CASE Connect
  BY <1>1, ConnectKeeps
<1>2. CASE ReceiveSome
  BY <1>2, ReceiveKeeps DEF ReceiveSome
<1>3. CASE CContinue
  BY <1>3, ContinueKeeps
<1>4. CASE Drop
  BY <1>4, DropKeeps
<1>5. CASE UNCHANGED <<vars, client_vars>>
  <2>1. PICK k \in 0 .. Len(Ids), j \in 0 .. 2 : IsAt(k, j)
    BY DEF CInv
  <2>2. /\ IsPlace(k, j) /\ HasDelivered(k) /\ BuilderAt(k, j) /\ TextAt(k, j)
        /\ IInv /\ Setting
    BY <2>1 DEF IsAt, CInv
  <2>3. /\ UNCHANGED <<buffer_, read_pos_, max_size_, current_msg_, bld_callback_,
                        accumulating_data_, pc, delivered>>
        /\ UNCHANGED <<last_id, connected, first, pending>>
        /\ UNCHANGED vars
    BY <1>5 DEF vars, buf_vars, bld_vars, client_vars
  <2>4. IInv'
    BY <2>2, <2>3, NextInv
  <2>5. Buf!Unread' = Buf!Unread
    BY <2>3 DEF Buf!Unread
  <2>6. Setting'
    BY <2>2, <2>3, <2>5 DEF Setting
  <2>7. HasDelivered(k)' /\ BuilderAt(k, j)'
    BY <2>2, <2>3 DEF HasDelivered, BuilderAt, Built
  <2>8. TextAt(k, j)'
    BY <2>2, <2>3, <2>5 DEF TextAt, Listens
  <2> QED
    BY <2>2, <2>4, <2>6, <2>7, <2>8 DEF IsAt, IsPlace, CInv
<1> QED
  BY <1>1, <1>2, <1>3, <1>4, <1>5 DEF CNext

(* At any place, what was delivered is what the events begin with.         *)
LEMMA PlaceMeansOnce == CInv => EveryEventOnce
<1> SUFFICES ASSUME CInv PROVE EveryEventOnce
  OBVIOUS
<1>1. PICK k \in 0 .. Len(Ids), j \in 0 .. 2 : IsAt(k, j)
  BY DEF CInv
<1>2. /\ Len(delivered) = k /\ k <= Len(Ids) /\ Len(Ids) \in Nat
      /\ \A i \in 1 .. k : delivered[i].msg = EventMessage(Ids[i])
  BY <1>1, ServerTokens DEF IsAt, HasDelivered
<1> DEFINE S == {EventMessage(Ids[i]) : i \in 1 .. Len(Ids)}
<1>3. Events \in Seq(S) /\ Len(Events) = Len(Ids)
  <2>1. \A i \in 1 .. Len(Ids) : EventMessage(Ids[i]) \in S
    OBVIOUS
  <2> HIDE DEF S
  <2> QED
    BY <1>2, <2>1 DEF Events
<1>4. Received \in Seq(S) /\ Len(Received) = k
  <2>1. \A i \in 1 .. k : i \in 1 .. Len(Ids)
    BY <1>2
  <2>2. \A i \in 1 .. k : delivered[i].msg \in S
    BY <1>2, <2>1
  <2> HIDE DEF S
  <2> QED
    BY <1>2, <2>2 DEF Received
<1>5. \A i \in 1 .. Len(Received) : Received[i] = Events[i]
  <2>1. \A i \in 1 .. k : i \in 1 .. Len(Ids)
    BY <1>2
  <2> QED
    BY <1>2, <1>4, <2>1 DEF Received, Events
<1> HIDE DEF S
<1>6. Len(Received) <= Len(Events)
  BY <1>2, <1>3, <1>4
<1> QED
  BY <1>3, <1>4, <1>5, <1>6, PrefixByElements DEF EveryEventOnce

(* For every list of events with different ids, however the network cuts   *)
(* the text and however often and wherever it drops the connection: a      *)
(* client that resumes from the id its callback remembered has been given  *)
(* each event at most once, whole, in order and none passed over (parse,   *)
(* reset and skip_bom as usage_examples.cpp uses them).  It needs room in  *)
(* the buffer for a line of an event and a chunk, and a first chunk that   *)
(* holds all of a byte order mark; BomCut and ResumeId show what becomes   *)
(* of a client without the second, or one that asks last_event_id().       *)
THEOREM EveryEventDeliveredOnce ==
  ASSUME ~ AsksParser, WholeBom, MaxChunk + 3 <= MaxSize
  PROVE  CSpec => []EveryEventOnce
<1>1. CInit => CInv
  BY StartsAtFirst
<1>2. CInv /\ [CNext]_<<vars, client_vars>> => CInv'
  BY ClientKeeps
<1>3. CInv => EveryEventOnce
  BY PlaceMeansOnce
<1> QED
  BY <1>1, <1>2, <1>3, PTL DEF CSpec

================================================================================
