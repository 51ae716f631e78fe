--------------------------- MODULE TcpFramingProofs ---------------------------
(***************************************************************************)
(* Proofs about TcpFraming, for any messages, of any bytes, and any cut of *)
(* them into chunks.                                                       *)
(*                                                                         *)
(* As long as the reader knows where a message begins, what it has not     *)
(* consumed is the encodings of what it has not delivered, one after the   *)
(* other.  Where each of them begins is a function of positions that       *)
(* exists in every such state, so that nothing has to be added up.         *)
(***************************************************************************)
EXTENDS TcpFraming, SequenceTheorems, TLAPS

\* The bytes that were written and not consumed.
stream == message \o wire

next == Len(out) + 1

\* The messages of q from number lo on lie in s one after the other, that of
\* number i behind its first pos[i] bytes.
LaidOut(pos, lo, q, s) ==
    /\ pos \in [lo..(Len(q) + 1) -> Nat]
    /\ pos[lo] = 0
    /\ pos[Len(q) + 1] = Len(s)
    /\ \A i \in lo..Len(q) :
        /\ pos[i + 1] = pos[i] + Len(Encode(q[i]))
        /\ \A j \in 1..Len(Encode(q[i])) : s[pos[i] + j] = Encode(q[i])[j]
    /\ \A i, j \in lo..(Len(q) + 1) : i <= j => pos[i] <= pos[j]

\* The reader knows where it is.
Aligned ==
    /\ Len(out) <= Len(sent)
    /\ \E pos \in [next..(Len(sent) + 1) -> Nat] : LaidOut(pos, next, sent, stream)
    /\ singleMessageLen # 0 =>
           next <= Len(sent) /\ singleMessageLen = Len(Encode(sent[next]))
    /\ pc # "failed"
    /\ pc = "panicked" => next <= Len(sent) /\ Len(sent[next].route) >= 240

\* A message that is delivered, or is the next to be, has an end it cannot tell.
Lost == \E k \in 1..Len(sent) : k <= next /\ ~whole(k)

Delivered == \A i \in 1..Len(out) : i <= Len(sent) /\ whole(i) => out[i] = sent[i]

FramingInv == TypeOK /\ Delivered /\ (Lost \/ Aligned)

-----------------------------------------------------------------------------
(* The format *)

\* What the constants are.
LEMMA MessageFields ==
    ASSUME NEW m \in Messages
    PROVE  m = [kind |-> m.kind, id |-> m.id, route |-> m.route, body |-> m.body]
  BY ConstantsAssumption, Zenon

LEMMA MessageTypes ==
    ASSUME NEW m \in Messages
    PROVE  /\ m.kind \in {Bin, Ping, Pong} /\ m.id \in Nat /\ isUint32(m.id)
           /\ m.route \in Seq(Byte) /\ m.body \in Seq(Byte)
           /\ Len(m.route) \in Nat /\ Len(m.body) \in Nat
<1>1. /\ m.kind \in {Bin, Ping, Pong} /\ m.id \in Nat /\ isUint32(m.id)
      /\ m.route \in Seq(Byte) /\ m.body \in Seq(Byte)
  BY ConstantsAssumption, Zenon
<1>2. Len(m.route) \in Nat /\ Len(m.body) \in Nat
  BY <1>1, LenProperties
<1> QED
  BY <1>1, <1>2

\* What byte() keeps.
LEMMA Mod256 == ASSUME NEW n \in Nat PROVE n % 256 \in Byte /\ (n < 256 => n % 256 = n)
  BY DEF Byte

\* Four bytes in a row.
LEMMA FourBytes ==
    ASSUME NEW w \in Byte, NEW x \in Byte, NEW y \in Byte, NEW z \in Byte
    PROVE  /\ <<w, x, y, z>> \in Seq(Byte) /\ Len(<<w, x, y, z>>) = 4
           /\ <<w, x, y, z>>[1] = w /\ <<w, x, y, z>>[2] = x
           /\ <<w, x, y, z>>[3] = y /\ <<w, x, y, z>>[4] = z
  OBVIOUS

\* The digits of a number below 2^32, to the base of 256.
LEMMA Digits ==
    ASSUME NEW n \in Nat, n \div 16777216 < 256
    PROVE  16777216 * ((n \div 16777216) % 256) + 65536 * ((n \div 65536) % 256)
               + 256 * ((n \div 256) % 256) + (n % 256) = n
  BY SMT

\* PutUint32 writes four bytes.
LEMMA BigEndianBytes ==
    ASSUME NEW n \in Nat
    PROVE  /\ bigEndian(n) \in Seq(Byte) /\ Len(bigEndian(n)) = 4
           /\ \A i \in 1..4 : bigEndian(n)[i] \in Byte
<1>1. n \div 16777216 \in Nat /\ n \div 65536 \in Nat /\ n \div 256 \in Nat
  OBVIOUS
<1>2. /\ (n \div 16777216) % 256 \in Byte /\ (n \div 65536) % 256 \in Byte
      /\ (n \div 256) % 256 \in Byte /\ n % 256 \in Byte
  BY <1>1, Mod256
<1>3. bigEndian(n) \in Seq(Byte) /\ Len(bigEndian(n)) = 4
  BY <1>2, FourBytes DEF bigEndian
<1> QED
  BY <1>3, ElementOfSeq

\* Uint32 reads what PutUint32 wrote.
LEMMA Uint32Reads ==
    ASSUME NEW n \in Nat, isUint32(n), NEW b, NEW i \in Nat,
           \A j \in 1..4 : b[i + j] = bigEndian(n)[j]
    PROVE  uint32(b, i) = n
<1>1. /\ b[i + 1] = (n \div 16777216) % 256 /\ b[i + 2] = (n \div 65536) % 256
      /\ b[i + 3] = (n \div 256) % 256 /\ b[i + 4] = n % 256
  BY DEF bigEndian
<1> QED
  BY <1>1, Digits DEF uint32, isUint32

\* The sequence c is s, then t.
Joins(c, s, t) ==
    /\ c \in Seq(Byte) /\ Len(c) = Len(s) + Len(t)
    /\ \A i \in 1..Len(s) : c[i] = s[i]
    /\ \A i \in 1..Len(t) : c[Len(s) + i] = t[i]

LEMMA Concat ==
    ASSUME NEW s \in Seq(Byte), NEW t \in Seq(Byte)
    PROVE  Joins(s \o t, s, t)
<1> DEFINE c == s \o t
<1>1. /\ c \in Seq(Byte) /\ Len(c) = Len(s) + Len(t)
      /\ \A i \in 1..(Len(s) + Len(t)) : c[i] = IF i <= Len(s) THEN s[i] ELSE t[i - Len(s)]
  BY ConcatProperties, Zenon
<1>2. Len(s) \in Nat /\ Len(t) \in Nat
  BY LenProperties, Zenon
<1> HIDE DEF c
<1>3. ASSUME NEW i \in 1..Len(s) PROVE c[i] = s[i]
  <2>1. i \in 1..(Len(s) + Len(t)) /\ i <= Len(s)
    BY <1>2
  <2> QED
    BY <1>1, <2>1, Zenon
<1>4. ASSUME NEW i \in 1..Len(t) PROVE c[Len(s) + i] = t[i]
  <2>1. /\ Len(s) + i \in 1..(Len(s) + Len(t)) /\ ~(Len(s) + i <= Len(s))
        /\ (Len(s) + i) - Len(s) = i
    BY <1>2
  <2> QED
    BY <1>1, <2>1, Zenon
<1> QED
  BY <1>1, <1>3, <1>4, Zenon DEF Joins, c

\* The parts of a header.
LEMMA HeaderLayout ==
    ASSUME NEW h \in Seq(Byte), NEW l \in Seq(Byte), NEW z \in Seq(Byte),
           NEW d \in Seq(Byte), Len(h) = 4, Len(l) = 4, Len(z) = 4, Len(d) = 4,
           NEW hl, NEW zd, NEW c, Joins(hl, h, l), Joins(zd, z, d), Joins(c, hl, zd)
    PROVE  /\ c \in Seq(Byte) /\ Len(c) = 16
           /\ \A j \in 1..4 : c[j] = h[j]
           /\ \A j \in 1..4 : c[4 + j] = l[j]
           /\ \A j \in 1..4 : c[12 + j] = d[j]
  BY DEF Joins

\* Where packBin puts what, and how much it writes.
LEMMA PackBinLayout ==
    ASSUME NEW m \in Messages
    PROVE  /\ packBin(m) \in Seq(Byte)
           /\ Len(packBin(m)) = HeadLen + Len(m.route) + Len(m.body)
           /\ packBin(m)[1] = 0 /\ packBin(m)[2] = 0 /\ packBin(m)[3] = Bin
           /\ packBin(m)[4] = Len(m.route) % 256
           /\ \A j \in 1..4 : packBin(m)[4 + j] = bigEndian(Len(m.body))[j]
           /\ \A j \in 1..4 : packBin(m)[12 + j] = bigEndian(m.id)[j]
           /\ \A j \in 1..Len(m.route) : packBin(m)[HeadLen + j] = m.route[j]
           /\ \A j \in 1..Len(m.body) : packBin(m)[HeadLen + Len(m.route) + j] = m.body[j]
<1> DEFINE x == Len(m.route) % 256
           h == <<0, 0, Bin, x>>
           l == bigEndian(Len(m.body))
           d == bigEndian(m.id)
           r == m.route
           p == m.body
           hl == h \o l
           zd == zeros(4) \o d
           e == hl \o zd
           er == e \o r
           c == er \o p
<1>1. /\ h \in Seq(Byte) /\ Len(h) = 4 /\ h[1] = 0 /\ h[2] = 0 /\ h[3] = Bin
      /\ h[4] = x
  <2>1. x \in Byte
    BY MessageTypes, Mod256, Zenon
  <2>2. 0 \in Byte /\ Bin \in Byte
    BY DEF Byte, Bin
  <2> HIDE DEF x
  <2> QED
    BY <2>1, <2>2, FourBytes
<1>2. l \in Seq(Byte) /\ Len(l) = 4 /\ d \in Seq(Byte) /\ Len(d) = 4
  BY MessageTypes, BigEndianBytes, Zenon
<1>3. zeros(4) \in Seq(Byte) /\ Len(zeros(4)) = 4
  BY DEF zeros, Byte
<1>4. r \in Seq(Byte) /\ p \in Seq(Byte)
  BY MessageTypes, Zenon
<1>5. packBin(m) = c
  BY Zenon DEF packBin, id64
<1> HIDE DEF x, h, l, d, r, p
<1>6. Joins(hl, h, l) /\ Joins(zd, zeros(4), d)
  BY <1>1, <1>2, <1>3, Concat, Zenon
<1> HIDE DEF hl, zd
<1>7. Joins(e, hl, zd)
  BY <1>6, Concat, Zenon DEF Joins
<1> HIDE DEF e
<1>8. /\ e \in Seq(Byte) /\ Len(e) = 16
      /\ \A j \in 1..4 : e[j] = h[j]
      /\ \A j \in 1..4 : e[4 + j] = l[j]
      /\ \A j \in 1..4 : e[12 + j] = d[j]
  BY <1>1, <1>2, <1>3, <1>6, <1>7, HeaderLayout
<1>9. e \in Seq(Byte) /\ Len(e) = 16
  BY <1>8
<1>10. Joins(er, e, r)
  BY <1>4, <1>9, Concat, Zenon
<1> HIDE DEF er
<1>11. Joins(c, er, p)
  BY <1>4, <1>10, Concat, Zenon DEF Joins
<1> HIDE DEF c
<1>12. /\ c \in Seq(Byte) /\ Len(c) = 16 + Len(r) + Len(p)
       /\ \A j \in 1..16 : c[j] = e[j]
       /\ \A j \in 1..Len(r) : c[16 + j] = r[j]
       /\ \A j \in 1..Len(p) : c[16 + Len(r) + j] = p[j]
  <2>1. /\ er \in Seq(Byte) /\ Len(er) = 16 + Len(r)
        /\ \A j \in 1..16 : er[j] = e[j]
        /\ \A j \in 1..Len(r) : er[16 + j] = r[j]
    BY <1>9, <1>10, Zenon DEF Joins
  <2>2. Len(r) \in Nat /\ Len(p) \in Nat
    BY <1>4, LenProperties, Zenon
  <2>3. /\ c \in Seq(Byte) /\ Len(c) = 16 + Len(r) + Len(p)
        /\ \A j \in 1..(16 + Len(r)) : c[j] = er[j]
        /\ \A j \in 1..Len(p) : c[16 + Len(r) + j] = p[j]
    BY <1>11, <2>1, Zenon DEF Joins
  <2>4. ASSUME NEW j \in 1..16 PROVE c[j] = e[j]
    <3>1. j \in 1..(16 + Len(r))
      BY <2>2
    <3> QED
      BY <2>1, <2>3, <3>1, Zenon
  <2>5. ASSUME NEW j \in 1..Len(r) PROVE c[16 + j] = r[j]
    <3>1. 16 + j \in 1..(16 + Len(r))
      BY <2>2
    <3> QED
      BY <2>1, <2>3, <3>1, Zenon
  <2> QED
    BY <2>3, <2>4, <2>5, Zenon
<1>13. ASSUME NEW j \in 1..4 PROVE c[j] = h[j] /\ c[4 + j] = l[j] /\ c[12 + j] = d[j]
  <2>1. j \in 1..16 /\ 4 + j \in 1..16 /\ 12 + j \in 1..16
    OBVIOUS
  <2> QED
    BY <1>8, <1>12, <2>1, Zenon
<1>14. c[1] = 0 /\ c[2] = 0 /\ c[3] = Bin /\ c[4] = x
  <2>1. 1 \in 1..4 /\ 2 \in 1..4 /\ 3 \in 1..4 /\ 4 \in 1..4
    OBVIOUS
  <2> QED
    BY <1>1, <1>13, <2>1, Zenon
<1> QED
  BY <1>5, <1>12, <1>13, <1>14, Zenon DEF HeadLen, x, l, d, r, p

\* What is written is bytes.
LEMMA EncodeBytes ==
    ASSUME NEW m \in Messages
    PROVE  Encode(m) \in Seq(Byte) /\ Len(Encode(m)) \in Nat
<1>1. packBin(m) \in Seq(Byte)
  BY PackBinLayout
<1>2. ASSUME m.kind # Bin PROVE control(m.kind, 12) \in Seq(Byte)
  <2>1. <<0, 0, m.kind>> \in Seq(Byte)
    BY MessageTypes DEF Byte, Bin, Ping, Pong
  <2>2. zeros(12 - 3) \in Seq(Byte)
    BY DEF zeros, Byte
  <2> QED
    BY <2>1, <2>2 DEF control
<1> QED
  BY <1>1, <1>2 DEF Encode

\* The header of a message that fits tells its length, however much has arrived.
LEMMA HeaderTells ==
    ASSUME NEW m \in Messages, fits(m), NEW b \in Seq(Byte), Len(b) >= HeadLen,
           \A j \in 1..HeadLen : b[j] = packBin(m)[j]
    PROVE  /\ isHeaderInvalid(b)
           /\ getLen(b) = Len(packBin(m))
           /\ b[3] = Bin
           /\ b[4] = Len(m.route)
           /\ uint32(b, 12) = m.id
<1> DEFINE rl == Len(m.route)
           bl == Len(m.body)
           c == packBin(m)
<1>1. rl \in Nat /\ bl \in Nat /\ m.id \in Nat /\ isUint32(m.id)
  BY MessageTypes, Zenon
<1>2. rl < 256 /\ isUint32(bl)
  BY DEF fits
<1>3. /\ Len(c) = HeadLen + rl + bl
      /\ c[1] = 0 /\ c[2] = 0 /\ c[3] = Bin /\ c[4] = rl % 256
      /\ \A j \in 1..4 : c[4 + j] = bigEndian(bl)[j]
      /\ \A j \in 1..4 : c[12 + j] = bigEndian(m.id)[j]
  BY PackBinLayout, Zenon
<1>4. \A j \in 1..HeadLen : b[j] = c[j]
  OBVIOUS
<1> HIDE DEF rl, bl, c
<1>5. ASSUME NEW j \in 1..4 PROVE b[j] = c[j] /\ b[4 + j] = c[4 + j] /\ b[12 + j] = c[12 + j]
  <2>1. j \in 1..HeadLen /\ 4 + j \in 1..HeadLen /\ 12 + j \in 1..HeadLen
    BY DEF HeadLen
  <2> QED
    BY <1>4, <2>1, Zenon
<1>6. b[1] = 0 /\ b[2] = 0 /\ b[3] = Bin /\ b[4] = rl
  <2>1. 1 \in 1..4 /\ 2 \in 1..4 /\ 3 \in 1..4 /\ 4 \in 1..4
    OBVIOUS
  <2>2. rl % 256 = rl
    BY <1>1, <1>2, Mod256, Zenon
  <2> QED
    BY <1>3, <1>5, <2>1, <2>2, Zenon
<1>7. isHeaderInvalid(b)
  BY <1>6, Zenon DEF isHeaderInvalid
<1>8. uint32(b, 4) = bl
  <2>1. \A j \in 1..4 : b[4 + j] = bigEndian(bl)[j]
    BY <1>3, <1>5, Zenon
  <2> QED
    BY <1>1, <1>2, <2>1, Uint32Reads, 4 \in Nat, Zenon
<1>9. uint32(b, 12) = m.id
  <2>1. \A j \in 1..4 : b[12 + j] = bigEndian(m.id)[j]
    BY <1>3, <1>5, Zenon
  <2>2. 12 \in Nat
    OBVIOUS
  <2> QED
    BY <1>1, <2>1, <2>2, Uint32Reads, Zenon
<1>10. getLen(b) = HeadLen + rl + bl
  <2>1. getLen(b) = rl + bl + HeadLen
    BY <1>6, <1>8, Zenon DEF getLen
  <2> QED
    BY <1>1, <2>1 DEF HeadLen
<1> QED
  BY <1>3, <1>6, <1>7, <1>9, <1>10, Zenon DEF rl, c

\* The bytes of s that follow its first a.
LEMMA Cut ==
    ASSUME NEW s \in Seq(Byte), NEW a \in Nat, NEW n \in Nat, a + n <= Len(s)
    PROVE  /\ SubSeq(s, a + 1, a + n) \in Seq(Byte)
           /\ Len(SubSeq(s, a + 1, a + n)) = n
           /\ \A j \in 1..n : SubSeq(s, a + 1, a + n)[j] = s[a + j]
<1> DEFINE lo == a + 1
           hi == a + n
           c == SubSeq(s, lo, hi)
<1>1. Len(s) \in Nat /\ lo \in Int /\ hi \in Int
  BY LenProperties
<1>2. \A i \in lo..hi : s[i] \in Byte
  <2>1. \A i \in lo..hi : i \in 1..Len(s)
    BY <1>1
  <2> QED
    BY <2>1, ElementOfSeq, Zenon
<1>3. lo = a + 1 /\ hi = a + n
  OBVIOUS
<1> HIDE DEF lo, hi
<1>4. /\ c \in Seq(Byte)
      /\ Len(c) = IF lo <= hi THEN hi - lo + 1 ELSE 0
      /\ \A i \in 1..(hi - lo + 1) : c[i] = s[lo + i - 1]
  BY <1>1, <1>2, SubSeqProperties
<1> HIDE DEF c
<1>5. Len(c) = n
  BY <1>3, <1>4
<1>6. ASSUME NEW j \in 1..n PROVE c[j] = s[a + j]
  <2>1. j \in 1..(hi - lo + 1) /\ lo + j - 1 = a + j
    BY <1>3
  <2> QED
    BY <1>4, <2>1, Zenon
<1> QED
  BY <1>4, <1>5, <1>6, Zenon DEF c, lo, hi

\* Decode undoes packBin, if the sum of line 44 does not wrap, and panics if it does.
THEOREM RoundTrip ==
    ASSUME NEW m \in Messages, m.kind = Bin, fits(m)
    PROVE  /\ Len(m.route) < 240 =>
                  ~DecodePanics(packBin(m)) /\ Decode(packBin(m)) = m
           /\ Len(m.route) >= 240 => DecodePanics(packBin(m))
<1> DEFINE r == m.route
           p == m.body
           rl == Len(r)
           bl == Len(p)
           b == packBin(m)
<1>1. /\ rl \in Nat /\ bl \in Nat /\ rl < 256
      /\ r \in Seq(Byte) /\ p \in Seq(Byte)
  BY MessageTypes, Zenon DEF fits
<1>2. b \in Seq(Byte) /\ Len(b) = HeadLen + rl + bl
  BY PackBinLayout, Zenon
<1>3. /\ \A j \in 1..rl : b[HeadLen + j] = r[j]
      /\ \A j \in 1..bl : b[HeadLen + rl + j] = p[j]
  BY PackBinLayout, Zenon
<1>4. /\ isHeaderInvalid(b) /\ getLen(b) = Len(b)
      /\ b[3] = Bin /\ b[4] = rl /\ uint32(b, 12) = m.id
  <2> HIDE DEF rl, bl, b
  <2>1. HeadLen + rl + bl >= HeadLen
    BY <1>1 DEF HeadLen
  <2>2. Len(b) >= HeadLen
    BY <1>2, <2>1, Zenon
  <2> QED
    BY <1>2, <2>2, HeaderTells, Zenon DEF rl, b
<1>5. m = [kind |-> Bin, id |-> m.id, route |-> r, body |-> p]
  BY MessageFields, Zenon
<1> HIDE DEF b, rl, bl, r, p
<1>6. ASSUME rl < 240 PROVE ~DecodePanics(b) /\ Decode(b) = m
  <2>1. routeEnd(b) = HeadLen + rl
    BY <1>1, <1>4, <1>6 DEF routeEnd, HeadLen
  <2>2. SubSeq(b, HeadLen + 1, routeEnd(b)) = r
    <3> DEFINE c == SubSeq(b, HeadLen + 1, HeadLen + rl)
    <3>1. HeadLen \in Nat /\ HeadLen + rl <= Len(b)
      BY <1>1, <1>2 DEF HeadLen
    <3>2. c \in Seq(Byte) /\ Len(c) = rl /\ \A j \in 1..rl : c[j] = b[HeadLen + j]
      BY <1>1, <1>2, <3>1, Cut, Zenon
    <3>3. \A j \in 1..rl : c[j] = r[j]
      BY <1>3, <3>2, Zenon
    <3> QED
      BY <1>1, <2>1, <3>2, <3>3, SeqEqual, Zenon DEF rl
  <2>3. SubSeq(b, routeEnd(b) + 1, Len(b)) = p
    <3> DEFINE a == HeadLen + rl
               c == SubSeq(b, a + 1, a + bl)
    <3>1. a \in Nat /\ a + bl <= Len(b)
      BY <1>1, <1>2 DEF HeadLen
    <3>2. c \in Seq(Byte) /\ Len(c) = bl /\ \A j \in 1..bl : c[j] = b[a + j]
      BY <1>1, <1>2, <3>1, Cut, Zenon
    <3>3. \A j \in 1..bl : c[j] = p[j]
      BY <1>3, <3>2, Zenon
    <3> QED
      BY <1>1, <1>2, <2>1, <3>2, <3>3, SeqEqual, Zenon DEF bl
  <2>4. ~DecodePanics(b)
    BY <1>1, <2>1 DEF DecodePanics, HeadLen
  <2> QED
    BY <1>4, <1>5, <2>2, <2>3, <2>4, Zenon DEF Decode
<1>7. ASSUME rl >= 240 PROVE DecodePanics(b)
  <2>1. routeEnd(b) < HeadLen
    BY <1>1, <1>4, <1>7 DEF routeEnd, HeadLen
  <2> QED
    BY <1>4, <2>1, Zenon DEF DecodePanics
<1> QED
  BY <1>6, <1>7, Zenon DEF b, rl, r

-----------------------------------------------------------------------------
(* Messages in a row *)

\* The first message of a row is in front.
LEMMA Front ==
    ASSUME NEW lo \in Nat, NEW q \in Seq(Messages), lo \in 1..Len(q), NEW s \in Seq(Byte),
           NEW pos, LaidOut(pos, lo, q, s)
    PROVE  /\ Len(Encode(q[lo])) <= Len(s)
           /\ \A j \in 1..Len(Encode(q[lo])) : s[j] = Encode(q[lo])[j]
<1> DEFINE e == Encode(q[lo])
           l == Len(e)
<1>1. Len(q) \in Nat /\ q[lo] \in Messages
  BY LenProperties, ElementOfSeq, Zenon
<1>2. l \in Nat
  BY <1>1, EncodeBytes, Zenon
<1>3. lo \in lo..Len(q) /\ lo + 1 \in lo..(Len(q) + 1) /\ Len(q) + 1 \in lo..(Len(q) + 1)
      /\ lo + 1 <= Len(q) + 1
  BY <1>1
<1>4. /\ pos[lo + 1] = pos[lo] + l
      /\ \A j \in 1..l : s[pos[lo] + j] = e[j]
      /\ pos[lo] = 0 /\ pos[lo + 1] <= pos[Len(q) + 1] /\ pos[Len(q) + 1] = Len(s)
  BY <1>3, Zenon DEF LaidOut
<1> HIDE DEF e, l
<1>5. l <= Len(s)
  <2>1. pos[lo + 1] = l
    BY <1>2, <1>4
  <2> QED
    BY <1>4, <2>1, Zenon
<1>6. ASSUME NEW j \in 1..l PROVE s[j] = e[j]
  <2>1. 0 + j = j
    OBVIOUS
  <2> QED
    BY <1>4, <2>1, Zenon
<1> QED
  BY <1>5, <1>6, Zenon DEF e, l

\* Nothing is in front of an empty row.
LEMMA NothingLeft ==
    ASSUME NEW lo \in Nat, NEW q \in Seq(Messages), lo = Len(q) + 1, NEW s, NEW pos,
           LaidOut(pos, lo, q, s)
    PROVE  Len(s) = 0
  BY Zenon DEF LaidOut

\* One more is written behind a row.
LEMMA OneMore ==
    ASSUME NEW lo \in Nat, NEW q \in Seq(Messages), lo \in 1..(Len(q) + 1),
           NEW m \in Messages, NEW s \in Seq(Byte), NEW t, Joins(t, s, Encode(m)),
           NEW pos, LaidOut(pos, lo, q, s)
    PROVE  \E p \in [lo..(Len(Append(q, m)) + 1) -> Nat] : LaidOut(p, lo, Append(q, m), t)
<1> DEFINE e == Encode(m)
           l == Len(e)
           n == Len(q)
           r == Append(q, m)
           p == [i \in lo..(n + 2) |-> IF i <= n + 1 THEN pos[i] ELSE Len(s) + l]
<1>1. n \in Nat /\ Len(s) \in Nat
  BY LenProperties, Zenon
<1>2. l \in Nat
  BY EncodeBytes, Zenon
<1>3. Len(r) = n + 1 /\ r[n + 1] = m /\ \A i \in 1..n : r[i] = q[i]
  BY AppendProperties
<1>4. /\ pos \in [lo..(n + 1) -> Nat]
      /\ pos[lo] = 0 /\ pos[n + 1] = Len(s)
      /\ \A i \in lo..n :
          /\ pos[i + 1] = pos[i] + Len(Encode(q[i]))
          /\ \A j \in 1..Len(Encode(q[i])) : s[pos[i] + j] = Encode(q[i])[j]
      /\ \A i, j \in lo..(n + 1) : i <= j => pos[i] <= pos[j]
  BY Zenon DEF LaidOut
<1>5. /\ Len(t) = Len(s) + l
      /\ \A i \in 1..Len(s) : t[i] = s[i]
      /\ \A i \in 1..l : t[Len(s) + i] = e[i]
  BY Zenon DEF Joins
<1>6. \A i \in 1..n : q[i] \in Messages
  BY ElementOfSeq, Zenon
<1>7. lo \in 1..(n + 1)
  OBVIOUS
<1> HIDE DEF n, r, e, l
<1>8. \A i \in lo..(n + 1) : pos[i] \in Nat /\ pos[i] <= Len(s) /\ p[i] = pos[i]
  BY <1>1, <1>4, <1>7
<1>9. p[n + 2] = Len(s) + l
  BY <1>1, <1>7
<1>10. p \in [lo..(n + 2) -> Nat]
  <2>1. ASSUME NEW i \in lo..(n + 2)
        PROVE  (IF i <= n + 1 THEN pos[i] ELSE Len(s) + l) \in Nat
    <3>1. i <= n + 1 => i \in lo..(n + 1)
      BY <1>1
    <3>2. Len(s) + l \in Nat
      BY <1>1, <1>2
    <3> QED
      BY <1>8, <3>1, <3>2, Zenon
  <2> QED
    BY <2>1, Zenon
<1> HIDE DEF p
<1>11. p[lo] = 0
  BY <1>4, <1>7, <1>8
<1>12. ASSUME NEW i \in lo..(n + 1)
       PROVE  /\ p[i + 1] = p[i] + Len(Encode(r[i]))
              /\ \A j \in 1..Len(Encode(r[i])) : t[p[i] + j] = Encode(r[i])[j]
  <2>1. CASE i = n + 1
    <3>1. r[i] = m /\ p[i] = Len(s) /\ p[i + 1] = Len(s) + l
      BY <1>1, <1>3, <1>4, <1>8, <1>9, <2>1
    <3> QED
      BY <1>5, <3>1, Zenon DEF e, l
  <2>2. CASE i # n + 1
    <3>1. i \in lo..n /\ i \in 1..n /\ i + 1 \in lo..(n + 1)
      BY <1>1, <1>7, <2>2
    <3>2. r[i] = q[i] /\ p[i] = pos[i] /\ p[i + 1] = pos[i + 1]
      BY <1>3, <1>8, <3>1, Zenon
    <3> DEFINE f == Encode(q[i])
               k == Len(f)
    <3>3. k \in Nat
      BY <1>6, <3>1, EncodeBytes, Zenon
    <3>4. pos[i + 1] = pos[i] + k /\ \A j \in 1..k : s[pos[i] + j] = f[j]
      BY <1>4, <3>1, Zenon
    <3> HIDE DEF k, f
    <3>5. pos[i] \in Nat /\ pos[i] + k <= Len(s)
      BY <1>8, <3>1, <3>4
    <3>6. ASSUME NEW j \in 1..k PROVE t[pos[i] + j] = f[j]
      <4>1. pos[i] + j \in 1..Len(s)
        BY <1>1, <3>3, <3>5
      <4> QED
        BY <1>5, <3>4, <4>1, Zenon
    <3> QED
      BY <3>2, <3>4, <3>6, Zenon DEF k, f
  <2> QED
    BY <2>1, <2>2
<1>13. ASSUME NEW i \in lo..(n + 2), NEW j \in lo..(n + 2), i <= j PROVE p[i] <= p[j]
  <2>1. CASE j <= n + 1
    <3>1. i \in lo..(n + 1) /\ j \in lo..(n + 1)
      BY <1>1, <1>13, <2>1
    <3> QED
      BY <1>4, <1>8, <1>13, <3>1, Zenon
  <2>2. CASE i <= n + 1 /\ ~(j <= n + 1)
    <3>1. i \in lo..(n + 1) /\ j = n + 2
      BY <1>1, <2>2
    <3>2. p[i] \in Nat /\ p[i] <= Len(s) /\ p[j] = Len(s) + l
      BY <1>8, <1>9, <3>1, Zenon
    <3> QED
      BY <1>1, <1>2, <3>2
  <2>3. CASE ~(i <= n + 1)
    <3>1. i = n + 2 /\ j = n + 2
      BY <1>1, <1>13, <2>3
    <3> QED
      BY <1>1, <1>2, <1>9, <3>1
  <2> QED
    BY <1>1, <1>13, <2>1, <2>2, <2>3
<1>14. n + 2 = Len(r) + 1 /\ lo..(n + 1) = lo..Len(r)
  BY <1>1, <1>3
<1> QED
  <2>1. LaidOut(p, lo, r, t)
    BY <1>5, <1>9, <1>10, <1>11, <1>12, <1>13, <1>14, Zenon DEF LaidOut
  <2> QED
    BY <1>10, <1>14, <2>1, Zenon DEF r

\* The first of a row is cut off.
LEMMA Drop ==
    ASSUME NEW lo \in Nat, NEW q \in Seq(Messages), lo \in 1..Len(q), NEW s \in Seq(Byte),
           NEW pos, LaidOut(pos, lo, q, s), NEW t \in Seq(Byte),
           Len(t) = Len(s) - Len(Encode(q[lo])),
           \A j \in 1..Len(t) : t[j] = s[Len(Encode(q[lo])) + j]
    PROVE  \E p \in [(lo + 1)..(Len(q) + 1) -> Nat] : LaidOut(p, lo + 1, q, t)
<1> DEFINE l == Len(Encode(q[lo]))
           n == Len(q)
           p == [i \in (lo + 1)..(n + 1) |-> pos[i] - l]
<1>1. n \in Nat /\ Len(s) \in Nat /\ lo \in 1..n
  BY LenProperties, Zenon
<1>2. \A i \in 1..n : q[i] \in Messages
  BY ElementOfSeq, Zenon
<1>3. l \in Nat
  BY <1>1, <1>2, EncodeBytes, Zenon
<1>4. /\ pos \in [lo..(n + 1) -> Nat]
      /\ pos[lo] = 0 /\ pos[n + 1] = Len(s)
      /\ \A i \in lo..n :
          /\ pos[i + 1] = pos[i] + Len(Encode(q[i]))
          /\ \A j \in 1..Len(Encode(q[i])) : s[pos[i] + j] = Encode(q[i])[j]
      /\ \A i, j \in lo..(n + 1) : i <= j => pos[i] <= pos[j]
  BY Zenon DEF LaidOut
<1>5. pos[lo + 1] = l
  <2>1. lo \in lo..n
    BY <1>1
  <2>2. pos[lo + 1] = 0 + l
    BY <1>4, <2>1, Zenon
  <2> HIDE DEF l
  <2> QED
    BY <1>3, <2>2
<1>6. Len(t) = Len(s) - l /\ \A j \in 1..Len(t) : t[j] = s[l + j]
  OBVIOUS
<1> HIDE DEF l, n
<1>7. \A i \in (lo + 1)..(n + 1) : pos[i] \in Nat /\ l <= pos[i] /\ p[i] = pos[i] - l
  BY <1>1, <1>4, <1>5
<1>8. p \in [(lo + 1)..(n + 1) -> Nat]
  BY <1>1, <1>3, <1>7
<1> HIDE DEF p
<1>9. p[lo + 1] = 0 /\ p[n + 1] = Len(t)
  <2>1. lo + 1 \in (lo + 1)..(n + 1) /\ n + 1 \in (lo + 1)..(n + 1) /\ l - l = 0
    BY <1>1, <1>3
  <2>2. p[lo + 1] = l - l /\ p[n + 1] = Len(s) - l
    BY <1>4, <1>5, <1>7, <2>1, Zenon
  <2> QED
    BY <1>6, <2>1, <2>2, Zenon
<1>10. ASSUME NEW i \in (lo + 1)..n
       PROVE  /\ p[i + 1] = p[i] + Len(Encode(q[i]))
              /\ \A j \in 1..Len(Encode(q[i])) : t[p[i] + j] = Encode(q[i])[j]
  <2> DEFINE f == Encode(q[i])
             k == Len(f)
  <2>1. /\ i \in lo..n /\ i \in 1..n /\ i \in (lo + 1)..(n + 1)
        /\ i + 1 \in (lo + 1)..(n + 1) /\ n + 1 \in lo..(n + 1) /\ i + 1 \in lo..(n + 1)
        /\ i + 1 <= n + 1
    BY <1>1
  <2>2. k \in Nat
    BY <1>2, <2>1, EncodeBytes, Zenon
  <2>3. pos[i + 1] = pos[i] + k /\ \A j \in 1..k : s[pos[i] + j] = f[j]
    BY <1>4, <2>1, Zenon
  <2> HIDE DEF k, f
  <2>4. /\ pos[i] \in Nat /\ l <= pos[i] /\ p[i] = pos[i] - l
        /\ p[i + 1] = pos[i + 1] - l /\ pos[i + 1] <= Len(s)
    BY <1>4, <1>7, <2>1, Zenon
  <2>5. p[i + 1] = p[i] + k
    BY <1>3, <2>2, <2>3, <2>4
  <2>6. ASSUME NEW j \in 1..k PROVE t[p[i] + j] = f[j]
    <3>1. p[i] + j \in 1..Len(t) /\ l + (p[i] + j) = pos[i] + j
      <4> DEFINE a == pos[i]
                 d == pos[i + 1]
      <4>1. Len(t) = Len(s) - l /\ d = a + k /\ p[i] = a - l
        BY <1>6, <2>3, <2>4
      <4>2. a \in Nat /\ l <= a /\ d <= Len(s)
        BY <2>4
      <4> HIDE DEF a, d
      <4>3. a - l + j \in 1..Len(t) /\ l + (a - l + j) = a + j
        BY <1>1, <1>3, <2>2, <4>1, <4>2
      <4> QED
        BY <4>1, <4>3 DEF a
    <3> QED
      BY <1>6, <2>3, <3>1, Zenon
  <2> QED
    BY <2>5, <2>6, Zenon DEF k, f
<1>11. ASSUME NEW i \in (lo + 1)..(n + 1), NEW j \in (lo + 1)..(n + 1), i <= j
       PROVE  p[i] <= p[j]
  <2>1. i \in lo..(n + 1) /\ j \in lo..(n + 1)
    BY <1>1
  <2>2. pos[i] <= pos[j]
    BY <1>4, <1>11, <2>1, Zenon
  <2> QED
    BY <1>3, <1>7, <2>2
<1> QED
  <2>1. LaidOut(p, lo + 1, q, t)
    BY <1>8, <1>9, <1>10, <1>11, Zenon DEF LaidOut, n
  <2> QED
    BY <1>8, <2>1, Zenon DEF n

\* The reader cuts the first bytes off its buffer, and so off the stream.
LEMMA Consume ==
    ASSUME NEW s \in Seq(Byte), NEW t \in Seq(Byte), NEW c, Joins(c, s, t),
           NEW k \in Nat, k <= Len(s), NEW d, Joins(d, SubSeq(s, k + 1, Len(s)), t)
    PROVE  /\ Len(d) = Len(c) - k
           /\ \A j \in 1..Len(d) : d[j] = c[k + j]
<1> DEFINE n == Len(s) - k
           r == SubSeq(s, k + 1, k + n)
<1>1. Len(s) \in Nat /\ Len(t) \in Nat
  BY LenProperties, Zenon
<1>2. n \in Nat /\ k + n <= Len(s) /\ k + n = Len(s)
  BY <1>1
<1> HIDE DEF n
<1>3. r \in Seq(Byte) /\ Len(r) = n /\ \A j \in 1..n : r[j] = s[k + j]
  BY <1>2, Cut, Zenon
<1>4. Joins(d, r, t)
  BY <1>2, Zenon
<1> HIDE DEF r
<1>5. /\ Len(c) = Len(s) + Len(t)
      /\ \A i \in 1..Len(s) : c[i] = s[i]
      /\ \A i \in 1..Len(t) : c[Len(s) + i] = t[i]
  BY Zenon DEF Joins
<1>6. /\ Len(d) = n + Len(t)
      /\ \A i \in 1..n : d[i] = r[i]
      /\ \A i \in 1..Len(t) : d[n + i] = t[i]
  BY <1>3, <1>4, Zenon DEF Joins
<1>7. Len(d) = Len(c) - k
  <2>1. Len(c) = Len(s) + Len(t) /\ Len(d) = n + Len(t)
    BY <1>5, <1>6
  <2>2. n + Len(t) = (Len(s) + Len(t)) - k
    BY <1>1, <1>2
  <2> QED
    BY <2>1, <2>2, Zenon
<1>8. ASSUME NEW j \in 1..Len(d) PROVE d[j] = c[k + j]
  <2>1. CASE j <= n
    <3>1. j \in 1..n /\ k + j \in 1..Len(s)
      BY <1>1, <1>2, <1>6, <2>1
    <3> QED
      BY <1>3, <1>5, <1>6, <3>1, Zenon
  <2>2. CASE ~(j <= n)
    <3>1. /\ j - n \in 1..Len(t) /\ n + (j - n) = j
          /\ Len(s) + (j - n) = k + j
      <4>1. j \in 1..(n + Len(t))
        BY <1>6
      <4> QED
        BY <1>1, <1>2, <2>2, <4>1
    <3> QED
      BY <1>5, <1>6, <3>1, Zenon
  <2> QED
    BY <2>1, <2>2
<1> QED
  BY <1>7, <1>8

-----------------------------------------------------------------------------
(* The steps *)

LEMMA StreamJoins == TypeOK => stream \in Seq(Byte) /\ Joins(stream, message, wire)
<1> SUFFICES ASSUME TypeOK PROVE stream \in Seq(Byte) /\ Joins(stream, message, wire)
  OBVIOUS
<1>1. Joins(stream, message, wire)
  BY Concat, Zenon DEF TypeOK, stream
<1> QED
  BY <1>1, Zenon DEF Joins

\* The end of a prefix decides: what is lost stays so.
LEMMA WholePrefix ==
    ASSUME NEW k \in Nat, NEW n \in Nat, k <= n, whole(n) PROVE whole(k)
<1>1. \A i \in 1..k : i \in 1..n
  OBVIOUS
<1> QED
  BY <1>1, Zenon DEF whole

\* The reader does not know the length of the message yet, and a header has come:
\* it is the header of the next message.
LEMMA HeaderIsNext ==
    ASSUME FramingInv, ~Lost, Len(message) >= HeadLen, pc = "loop"
    PROVE  /\ next \in 1..Len(sent)
           /\ isHeaderInvalid(message)
           /\ getLen(message) = Len(Encode(sent[next]))
<1>1. TypeOK /\ Aligned
  BY Zenon DEF FramingInv
<1>2. /\ sent \in Seq(Messages) /\ message \in Seq(Byte) /\ wire \in Seq(Byte)
      /\ stream \in Seq(Byte) /\ Joins(stream, message, wire)
  BY <1>1, StreamJoins, Zenon DEF TypeOK
<1>3. /\ Len(sent) \in Nat /\ Len(out) \in Nat /\ Len(message) \in Nat /\ Len(wire) \in Nat
      /\ Len(stream) = Len(message) + Len(wire)
      /\ \A j \in 1..Len(message) : stream[j] = message[j]
  BY <1>1, <1>2, LenProperties DEF TypeOK, Joins
<1>4. PICK pos : LaidOut(pos, next, sent, stream)
  BY <1>1, Zenon DEF Aligned
<1>5. next \in Nat /\ Len(out) <= Len(sent) /\ next >= 1
  BY <1>1, <1>3 DEF Aligned, next
<1>6. next \in 1..Len(sent)
  <2> SUFFICES ASSUME next = Len(sent) + 1 PROVE FALSE
    BY <1>3, <1>5 DEF next
  <2>1. Len(stream) = 0
    BY <1>2, <1>4, <1>5, NothingLeft, Zenon
  <2> QED
    BY <1>3, <2>1 DEF HeadLen
<1> DEFINE m == sent[next]
<1>7. m \in Messages
  BY <1>2, <1>6, ElementOfSeq, Zenon
<1>8. whole(next)
  <2>1. next <= next
    BY <1>5
  <2> QED
    BY <1>6, <2>1, Zenon DEF Lost
<1>9. m.kind = Bin /\ fits(m)
  <2>1. next \in 1..next
    BY <1>5
  <2> QED
    BY <1>8, <2>1, Zenon DEF whole
<1>10. Encode(m) = packBin(m)
  BY <1>9, Zenon DEF Encode
<1>11. \A j \in 1..Len(packBin(m)) : stream[j] = packBin(m)[j]
  <2>1. \A j \in 1..Len(Encode(m)) : stream[j] = Encode(m)[j]
    BY <1>2, <1>4, <1>5, <1>6, Front
  <2> QED
    BY <1>10, <2>1, Zenon
<1> HIDE DEF m
<1>12. Len(packBin(m)) \in Nat /\ Len(packBin(m)) >= HeadLen
  <2> DEFINE rl == Len(m.route)
             bl == Len(m.body)
             c == packBin(m)
  <2>1. Len(c) = HeadLen + rl + bl /\ rl \in Nat /\ bl \in Nat
    BY <1>7, PackBinLayout, MessageTypes, Zenon
  <2> HIDE DEF rl, bl, c
  <2>2. Len(c) \in Nat /\ Len(c) >= HeadLen
    BY <2>1 DEF HeadLen
  <2> QED
    BY <2>2 DEF c
<1>13. ASSUME NEW j \in 1..HeadLen PROVE message[j] = packBin(m)[j]
  <2>1. j \in 1..Len(message) /\ j \in 1..Len(packBin(m))
    BY <1>3, <1>12 DEF HeadLen
  <2> QED
    BY <1>3, <1>11, <2>1, Zenon
<1>14. isHeaderInvalid(message) /\ getLen(message) = Len(packBin(m))
  BY <1>2, <1>7, <1>9, <1>13, HeaderTells, Zenon
<1> QED
  BY <1>6, <1>10, <1>14, Zenon DEF m

\* The reader has a whole message: it is the next one.
LEMMA BytesAreNext ==
    ASSUME FramingInv, ~Lost, singleMessageLen # 0, Len(message) >= singleMessageLen
    PROVE  /\ next \in 1..Len(sent)
           /\ sent[next] \in Messages /\ sent[next].kind = Bin /\ fits(sent[next])
           /\ singleMessageLen = Len(Encode(sent[next]))
           /\ SubSeq(message, 1, singleMessageLen) = packBin(sent[next])
<1>1. TypeOK /\ Aligned
  BY Zenon DEF FramingInv
<1>2. /\ sent \in Seq(Messages) /\ message \in Seq(Byte) /\ wire \in Seq(Byte)
      /\ stream \in Seq(Byte) /\ Joins(stream, message, wire)
  BY <1>1, StreamJoins, Zenon DEF TypeOK
<1>3. /\ Len(sent) \in Nat /\ Len(out) \in Nat /\ Len(message) \in Nat
      /\ \A j \in 1..Len(message) : stream[j] = message[j]
  BY <1>1, <1>2, LenProperties DEF TypeOK, Joins
<1>4. PICK pos : LaidOut(pos, next, sent, stream)
  BY <1>1, Zenon DEF Aligned
<1>5. next \in Nat /\ next \in 1..Len(sent) /\ singleMessageLen = Len(Encode(sent[next]))
  BY <1>1, <1>3 DEF Aligned, next
<1> DEFINE m == sent[next]
<1>6. m \in Messages
  BY <1>2, <1>5, ElementOfSeq, Zenon
<1>7. m.kind = Bin /\ fits(m)
  <2>1. next <= next /\ next \in 1..next
    BY <1>5
  <2>2. whole(next)
    BY <1>5, <2>1, Zenon DEF Lost
  <2> QED
    BY <2>1, <2>2, Zenon DEF whole
<1>8. Encode(m) = packBin(m)
  BY <1>7, Zenon DEF Encode
<1> DEFINE p == packBin(m)
           b == SubSeq(message, 1, singleMessageLen)
<1>9. p \in Seq(Byte) /\ Len(p) \in Nat /\ singleMessageLen = Len(p)
  BY <1>5, <1>6, <1>8, EncodeBytes, Zenon
<1>10. \A j \in 1..Len(p) : stream[j] = p[j]
  <2>1. \A j \in 1..Len(Encode(m)) : stream[j] = Encode(m)[j]
    BY <1>2, <1>4, <1>5, Front
  <2> QED
    BY <1>8, <2>1, Zenon
<1> HIDE DEF m, p
<1>11. b = p
  <2> DEFINE c == SubSeq(message, 0 + 1, 0 + singleMessageLen)
  <2>1. c = b /\ 0 \in Nat /\ 0 + singleMessageLen <= Len(message)
    BY <1>9
  <2>2. c \in Seq(Byte) /\ Len(c) = Len(p) /\ \A j \in 1..Len(p) : c[j] = message[0 + j]
    BY <1>2, <1>9, <2>1, Cut, Zenon
  <2> HIDE DEF b, c
  <2>3. ASSUME NEW j \in 1..Len(p) PROVE c[j] = p[j]
    <3>1. j \in 1..Len(message) /\ 0 + j = j
      BY <1>3, <1>9
    <3> QED
      BY <1>3, <1>10, <2>2, <3>1, Zenon
  <2> QED
    BY <1>9, <2>1, <2>2, <2>3, SeqEqual, Zenon
<1> QED
  BY <1>5, <1>6, <1>7, <1>11, Zenon DEF m, p

LEMMA Uint32Type ==
    ASSUME NEW b, NEW i \in Nat, b[i + 1] \in Byte, b[i + 2] \in Byte, b[i + 3] \in Byte,
           b[i + 4] \in Byte
    PROVE  uint32(b, i) \in Nat
<1> DEFINE w == b[i + 1]
           x == b[i + 2]
           y == b[i + 3]
           z == b[i + 4]
<1>1. w \in Nat /\ x \in Nat /\ y \in Nat /\ z \in Nat
  BY DEF Byte
<1>2. uint32(b, i) = 16777216 * w + 65536 * x + 256 * y + z
  BY SMT DEF uint32
<1> HIDE DEF w, x, y, z
<1>3. 16777216 * w + 65536 * x + 256 * y + z \in Nat
  BY <1>1, SMT
<1> QED
  BY <1>2, <1>3, SMT

\* What a header of any bytes tells is in the range of its fields.
LEMMA HeaderTypes ==
    ASSUME NEW b \in Seq(Byte), isHeaderInvalid(b)
    PROVE  /\ Len(b) \in Nat /\ Len(b) >= HeadLen /\ b[3] \in Byte /\ b[4] \in Byte
           /\ uint32(b, 4) \in Nat /\ uint32(b, 12) \in Nat
           /\ getLen(b) \in Nat /\ getLen(b) >= HeadLen
<1>1. Len(b) \in Nat /\ Len(b) >= HeadLen
  BY LenProperties DEF isHeaderInvalid
<1>2. \A i \in 1..Len(b) : b[i] \in Byte
  BY ElementOfSeq, Zenon
<1> HIDE DEF Byte
<1>3. \A i \in 1..16 : b[i] \in Byte
  <2>1. \A i \in 1..16 : i \in 1..Len(b)
    BY <1>1 DEF HeadLen
  <2> QED
    BY <1>2, <2>1, Zenon
<1>4. /\ b[3] \in Byte /\ b[4] \in Byte
      /\ b[5] \in Byte /\ b[6] \in Byte /\ b[7] \in Byte /\ b[8] \in Byte
      /\ b[13] \in Byte /\ b[14] \in Byte /\ b[15] \in Byte /\ b[16] \in Byte
  BY <1>3
<1>5. uint32(b, 4) \in Nat /\ uint32(b, 12) \in Nat
  <2>1. /\ 4 \in Nat /\ 4 + 1 = 5 /\ 4 + 2 = 6 /\ 4 + 3 = 7 /\ 4 + 4 = 8
        /\ 12 \in Nat /\ 12 + 1 = 13 /\ 12 + 2 = 14 /\ 12 + 3 = 15 /\ 12 + 4 = 16
    OBVIOUS
  <2> QED
    BY <1>4, <2>1, Uint32Type, Zenon
<1>6. getLen(b) \in Nat /\ getLen(b) >= HeadLen
  <2> DEFINE u == uint32(b, 4)
             x == b[4]
  <2>1. getLen(b) = x + u + HeadLen /\ u \in Nat
    BY <1>5, Zenon DEF getLen
  <2>2. x \in Byte
    BY <1>4, Zenon
  <2> HIDE DEF u, x
  <2> QED
    BY <2>1, <2>2 DEF HeadLen, Byte
<1> QED
  BY <1>1, <1>4, <1>5, <1>6

\* Whatever the bytes are, a message that comes out is one.
LEMMA DecodeType ==
    ASSUME NEW b \in Seq(Byte), ~DecodePanics(b)
    PROVE  Decode(b) \in [kind : Byte, id : Nat, route : Seq(Byte), body : Seq(Byte)]
<1>1. CASE ~isHeaderInvalid(b) \/ getLen(b) # Len(b)
  <2>1. 0 \in Byte /\ <<>> \in Seq(Byte)
    BY EmptySeq DEF Byte
  <2> QED
    BY <1>1, <2>1 DEF Decode, Unknown
<1>2. CASE isHeaderInvalid(b) /\ getLen(b) = Len(b)
  <2>1. /\ Len(b) \in Nat /\ Len(b) >= HeadLen /\ b[3] \in Byte /\ b[4] \in Byte
        /\ uint32(b, 4) \in Nat /\ uint32(b, 12) \in Nat
    BY <1>2, HeaderTypes, Zenon
  <2>2. routeEnd(b) >= HeadLen /\ routeEnd(b) <= Len(b) /\ routeEnd(b) \in Nat
    <3>1. ~(routeEnd(b) < HeadLen)
      BY <1>2, Zenon DEF DecodePanics
    <3>2. b[4] + uint32(b, 4) + HeadLen = Len(b)
      BY <1>2, Zenon DEF getLen
    <3> DEFINE u == uint32(b, 4)
               x == b[4]
               n == Len(b)
    <3>3. /\ n = x + u + HeadLen /\ u \in Nat /\ n \in Nat /\ x \in Byte
          /\ routeEnd(b) = (HeadLen + x) % 256
      BY <2>1, <3>2, Zenon DEF routeEnd
    <3> HIDE DEF u, x, n
    <3> QED
      BY <3>1, <3>3 DEF HeadLen, Byte, n
  <2>3. SubSeq(b, HeadLen + 1, routeEnd(b)) \in Seq(Byte)
    <3> DEFINE n == routeEnd(b) - HeadLen
    <3>1. HeadLen \in Nat /\ n \in Nat /\ HeadLen + n = routeEnd(b)
      BY <2>2 DEF HeadLen
    <3> QED
      BY <2>2, <3>1, Cut
  <2>4. SubSeq(b, routeEnd(b) + 1, Len(b)) \in Seq(Byte)
    <3> DEFINE n == Len(b) - routeEnd(b)
    <3>1. n \in Nat /\ routeEnd(b) + n = Len(b)
      BY <2>1, <2>2
    <3> QED
      BY <2>1, <2>2, <3>1, Cut
  <2> QED
    BY <1>2, <2>1, <2>3, <2>4 DEF Decode
<1> QED
  BY <1>1, <1>2

LEMMA TypeStep == TypeOK /\ [Next]_vars => TypeOK'
<1> SUFFICES ASSUME TypeOK, [Next]_vars PROVE TypeOK'
  OBVIOUS
<1>1. ASSUME NEW m \in Messages, Send(m) PROVE TypeOK'
  <2>1. sent' \in Seq(Messages) /\ Len(sent') = Len(sent) + 1
    BY <1>1, AppendProperties DEF TypeOK, Send
  <2>2. Len(sent') <= MaxSent
    <3>1. Len(sent) \in Nat /\ MaxSent \in Nat /\ Len(sent) < MaxSent
      BY <1>1, LenProperties, ConstantsAssumption DEF TypeOK, Send
    <3> QED
      BY <2>1, <3>1
  <2>3. wire' \in Seq(Byte)
    BY <1>1, EncodeBytes, ConcatProperties, Zenon DEF TypeOK, Send
  <2> QED
    BY <1>1, <2>1, <2>2, <2>3, Zenon DEF TypeOK, Send
<1>2. ASSUME NEW n \in Chunks, Read(n) PROVE TypeOK'
  <2>1. wire \in Seq(Byte) /\ message \in Seq(Byte) /\ Len(wire) \in Nat /\ n \in Nat
    BY LenProperties, ConstantsAssumption DEF TypeOK
  <2> DEFINE k == upTo(n)
             l == Len(wire) - k
  <2>2. k \in Nat /\ k <= Len(wire) /\ l \in Nat /\ k + l = Len(wire)
    BY <2>1 DEF upTo
  <2> HIDE DEF k, l
  <2>3. SubSeq(wire, 0 + 1, 0 + k) \in Seq(Byte) /\ SubSeq(wire, k + 1, k + l) \in Seq(Byte)
    <3>1. 0 \in Nat /\ 0 + k <= Len(wire) /\ k + l <= Len(wire)
      BY <2>1, <2>2
    <3> QED
      BY <2>1, <2>2, <3>1, Cut, Zenon
  <2>4. 0 + 1 = 1 /\ 0 + k = k
    BY <2>2
  <2>5. wire' \in Seq(Byte) /\ message' \in Seq(Byte)
    BY <1>2, <2>1, <2>2, <2>3, <2>4, ConcatProperties, Zenon DEF Read, k
  <2> QED
    BY <1>2, <2>5, Zenon DEF TypeOK, Read
<1>3. CASE WaitHeader
  BY <1>3, Zenon DEF TypeOK, WaitHeader
<1>4. CASE BadHeader
  BY <1>4, EmptySeq DEF TypeOK, BadHeader
<1>5. CASE ReadHeader
  <2>1. singleMessageLen' \in Nat /\ singleMessageLen' >= HeadLen
    BY <1>5, HeaderTypes, Zenon DEF TypeOK, ReadHeader
  <2> QED
    BY <1>5, <2>1, Zenon DEF TypeOK, ReadHeader
<1>6. CASE WaitBody
  BY <1>6, Zenon DEF TypeOK, WaitBody
<1>7. CASE Complete
  <2> DEFINE b == SubSeq(message, 1, singleMessageLen)
             n == Len(message) - singleMessageLen
  <2>1. /\ message \in Seq(Byte) /\ Len(message) \in Nat /\ singleMessageLen \in Nat
        /\ Len(message) >= singleMessageLen
    BY <1>7, LenProperties DEF TypeOK, Complete
  <2>2. n \in Nat /\ singleMessageLen + n = Len(message)
    BY <2>1
  <2> HIDE DEF n
  <2>3. b \in Seq(Byte) /\ rest \in Seq(Byte)
    <3>1. /\ 0 \in Nat /\ 0 + 1 = 1 /\ 0 + singleMessageLen = singleMessageLen
          /\ 0 + singleMessageLen <= Len(message) /\ singleMessageLen + n <= Len(message)
      BY <2>1, <2>2
    <3>2. SubSeq(message, 0 + 1, 0 + singleMessageLen) \in Seq(Byte)
      BY <2>1, <3>1, Cut, Zenon
    <3>3. SubSeq(message, singleMessageLen + 1, singleMessageLen + n) \in Seq(Byte)
      BY <2>1, <2>2, <3>1, Cut, Zenon
    <3> QED
      BY <2>2, <3>1, <3>2, <3>3, Zenon DEF rest
  <2>4. CASE DecodePanics(b)
    BY <1>7, <2>4, Zenon DEF TypeOK, Complete
  <2>5. CASE ~DecodePanics(b)
    <3> DEFINE M == [kind : Byte, id : Nat, route : Seq(Byte), body : Seq(Byte)]
    <3>1. Decode(b) \in M
      BY <2>3, <2>5, DecodeType, Zenon
    <3>2. /\ out' = Append(out, Decode(b)) /\ message' = rest /\ singleMessageLen' = 0
          /\ UNCHANGED <<pc, sent, wire>>
      BY <1>7, <2>5, Zenon DEF Complete
    <3>3. out \in Seq(M)
      BY Zenon DEF TypeOK
    <3> HIDE DEF M, b
    <3>4. out' \in Seq(M)
      BY <3>1, <3>2, <3>3, AppendProperties, Zenon
    <3>5. singleMessageLen' \in Nat
      BY <3>2
    <3> QED
      BY <2>3, <3>2, <3>4, <3>5, Zenon DEF TypeOK, M
  <2> QED
    BY <2>4, <2>5
<1>8. CASE UNCHANGED vars
  BY <1>8, Zenon DEF TypeOK, vars
<1> QED
  BY <1>1, <1>2, <1>3, <1>4, <1>5, <1>6, <1>7, <1>8, Zenon DEF Next, ReaderStep

\* Messages that have come out or are in front stay so.
LEMMA LostStep == TypeOK /\ Lost /\ [Next]_vars => Lost'
<1> SUFFICES ASSUME TypeOK, Lost, [Next]_vars PROVE Lost'
  OBVIOUS
<1>1. /\ Len(sent) \in Nat /\ Len(out) \in Nat /\ sent \in Seq(Messages)
  BY LenProperties DEF TypeOK
<1>2. PICK k \in 1..Len(sent) : k <= next /\ ~whole(k)
  BY Zenon DEF Lost
<1>3. CASE \E m \in Messages : Send(m)
  <2>1. PICK m \in Messages : sent' = Append(sent, m) /\ out' = out
    BY <1>3, Zenon DEF Send
  <2>2. Len(sent') = Len(sent) + 1 /\ \A i \in 1..Len(sent) : sent'[i] = sent[i]
    BY <1>1, <2>1, AppendProperties
  <2>3. k \in 1..Len(sent') /\ \A i \in 1..k : i \in 1..Len(sent)
    BY <1>1, <1>2, <2>2
  <2>4. ~whole(k)'
    BY <1>2, <2>2, <2>3, Zenon DEF whole
  <2>5. k <= next'
    BY <1>2, <2>1, Zenon DEF next
  <2> QED
    BY <2>3, <2>4, <2>5, Zenon DEF Lost
<1>4. CASE sent' = sent
  <2>1. Len(out') \in Nat /\ Len(out') >= Len(out)
    <3>1. CASE \E b : out' = Append(out, Decode(b)) /\ ~DecodePanics(b) /\ b \in Seq(Byte)
      BY <3>1, DecodeType, AppendProperties DEF TypeOK
    <3>2. CASE out' = out
      BY <1>1, <3>2
    <3>3. ASSUME Complete
          PROVE \/ out' = out
                \/ \E b : out' = Append(out, Decode(b)) /\ ~DecodePanics(b) /\ b \in Seq(Byte)
      <4> DEFINE b == SubSeq(message, 1, singleMessageLen)
      <4>1. b \in Seq(Byte)
        <5>1. /\ message \in Seq(Byte) /\ singleMessageLen \in Nat
              /\ 0 + 1 = 1 /\ 0 + singleMessageLen = singleMessageLen
              /\ 0 \in Nat /\ 0 + singleMessageLen <= Len(message)
          BY <3>3 DEF TypeOK, Complete
        <5>2. SubSeq(message, 0 + 1, 0 + singleMessageLen) \in Seq(Byte)
          BY <5>1, Cut, Zenon
        <5> QED
          BY <5>1, <5>2, Zenon
      <4>2. CASE DecodePanics(b)
        BY <3>3, <4>2, Zenon DEF Complete
      <4>3. CASE ~DecodePanics(b)
        BY <3>3, <4>1, <4>3, Zenon DEF Complete
      <4> QED
        BY <4>2, <4>3
    <3>4. out' = out \/ Complete
      BY Zenon DEF Next, ReaderStep, vars, Send, Read, WaitHeader, BadHeader, ReadHeader, WaitBody
    <3> QED
      BY <3>1, <3>2, <3>3, <3>4, Zenon
  <2>2. k <= next'
    BY <1>1, <1>2, <2>1 DEF next
  <2>3. ~whole(k)' /\ k \in 1..Len(sent')
    BY <1>2, <1>4, Zenon DEF whole
  <2> QED
    BY <2>2, <2>3, Zenon DEF Lost
<1>5. (\E m \in Messages : Send(m)) \/ sent' = sent
  BY Zenon DEF Next, ReaderStep, vars, Read, WaitHeader, BadHeader, ReadHeader, WaitBody, Complete
<1> QED
  BY <1>3, <1>4, <1>5

\* What Complete does while the reader knows where it is.
LEMMA CompleteIsNext ==
    ASSUME FramingInv, ~Lost, Complete
    PROVE  /\ next \in 1..Len(sent)
           /\ UNCHANGED <<sent, wire>>
           /\ \/ /\ Len(sent[next].route) >= 240
                 /\ pc' = "panicked" /\ UNCHANGED <<message, singleMessageLen, out>>
              \/ /\ Len(sent[next].route) < 240
                 /\ out' = Append(out, sent[next])
                 /\ message' = rest /\ singleMessageLen' = 0 /\ UNCHANGED pc
                 /\ singleMessageLen = Len(Encode(sent[next]))
<1> DEFINE m == sent[next]
           b == SubSeq(message, 1, singleMessageLen)
<1>1. /\ next \in 1..Len(sent) /\ m \in Messages /\ m.kind = Bin /\ fits(m)
      /\ singleMessageLen = Len(Encode(m)) /\ b = packBin(m)
  BY BytesAreNext, Zenon DEF Complete
<1>2. Len(m.route) \in Nat
  BY <1>1, MessageTypes, Zenon
<1>3. /\ Len(m.route) < 240 => ~DecodePanics(b) /\ Decode(b) = m
      /\ Len(m.route) >= 240 => DecodePanics(b)
  BY <1>1, RoundTrip, Zenon
<1> HIDE DEF m
<1>4. Len(m.route) < 240 \/ Len(m.route) >= 240
  BY <1>2
<1>5. CASE Len(m.route) >= 240
  BY <1>1, <1>3, <1>5, Zenon DEF Complete, m
<1>6. CASE Len(m.route) < 240
  BY <1>1, <1>3, <1>6, Zenon DEF Complete, m
<1> QED
  BY <1>4, <1>5, <1>6, Zenon

LEMMA DeliveredStep == FramingInv /\ [Next]_vars => Delivered'
<1> SUFFICES ASSUME FramingInv, [Next]_vars PROVE Delivered'
  OBVIOUS
<1>1. /\ TypeOK /\ Delivered /\ (Lost \/ Aligned)
      /\ Len(sent) \in Nat /\ Len(out) \in Nat /\ sent \in Seq(Messages)
  BY LenProperties DEF TypeOK, FramingInv
<1>2. ASSUME NEW m \in Messages, Send(m) PROVE Delivered'
  <2>1. sent' = Append(sent, m) /\ out' = out
    BY <1>2, Zenon DEF Send
  <2>2. Len(sent') = Len(sent) + 1 /\ \A i \in 1..Len(sent) : sent'[i] = sent[i]
    BY <1>1, <2>1, AppendProperties
  <2> SUFFICES ASSUME NEW i \in 1..Len(out), i <= Len(sent'), whole(i)'
               PROVE  out[i] = sent'[i]
    BY <2>1, Zenon DEF Delivered
  <2>3. CASE i <= Len(sent)
    <3>1. i \in 1..Len(sent) /\ \A j \in 1..i : j \in 1..Len(sent)
      BY <1>1, <2>3
    <3>2. whole(i)
      BY <2>2, <3>1, Zenon DEF whole
    <3> QED
      BY <1>1, <2>2, <2>3, <3>1, <3>2, Zenon DEF Delivered
  <2>4. CASE ~(i <= Len(sent))
    <3>1. i > Len(sent) /\ ~(Len(out) <= Len(sent))
      BY <1>1, <2>4
    <3>2. Lost
      BY <1>1, <3>1, Zenon DEF Aligned
    <3>3. PICK k \in 1..Len(sent) : ~whole(k)
      BY <3>2, Zenon DEF Lost
    <3>4. k \in 1..i /\ \A j \in 1..k : j \in 1..Len(sent) /\ j \in 1..i
      BY <1>1, <3>1, <3>3
    <3> QED
      BY <2>2, <3>3, <3>4, Zenon DEF whole
  <2> QED
    BY <2>3, <2>4
<1>3. CASE Complete
  <2>1. CASE out' = out
    BY <1>1, <1>3, <2>1, Zenon DEF Delivered, Complete, whole
  <2>2. CASE ~Lost /\ out' # out
    <3>1. next \in 1..Len(sent) /\ out' = Append(out, sent[next]) /\ sent' = sent
      BY <1>3, <2>2, CompleteIsNext, Zenon
    <3>2. /\ Len(out') = Len(out) + 1 /\ out'[next] = sent[next]
          /\ \A i \in 1..Len(out) : out'[i] = out[i]
      <4> DEFINE M == [kind : Byte, id : Nat, route : Seq(Byte), body : Seq(Byte)]
      <4>1. out \in Seq(M)
        BY <1>1, Zenon DEF TypeOK
      <4>2. sent[next] \in M
        <5>1. sent[next] \in Messages
          BY <1>1, <3>1, ElementOfSeq, Zenon
        <5>2. Bin \in Byte /\ Ping \in Byte /\ Pong \in Byte
          BY DEF Byte, Bin, Ping, Pong
        <5> HIDE DEF next
        <5> QED
          BY <5>1, <5>2, MessageFields, MessageTypes
      <4> HIDE DEF M
      <4> QED
        BY <3>1, <4>1, <4>2, AppendProperties DEF next
    <3>3. ASSUME NEW i \in 1..Len(out'), i <= Len(sent), whole(i) PROVE out'[i] = sent[i]
      <4>1. i \in 1..Len(out) \/ i = next
        BY <1>1, <3>2 DEF next
      <4> QED
        BY <1>1, <3>2, <3>3, <4>1, Zenon DEF Delivered
    <3>4. ASSUME NEW i \in 1..Len(out'), i <= Len(sent'), whole(i)' PROVE out'[i] = sent'[i]
      <4>1. whole(i)
        BY <3>1, <3>4, Zenon DEF whole
      <4> QED
        BY <3>1, <3>3, <3>4, <4>1, Zenon
    <3> QED
      BY <3>4, Zenon DEF Delivered
  <2>3. CASE Lost /\ out' # out
    <3>1. PICK k \in 1..Len(sent) : k <= next /\ ~whole(k)
      BY <2>3, Zenon DEF Lost
    <3>2. PICK x : out' = Append(out, x) /\ sent' = sent
      BY <1>3, <2>3, Zenon DEF Complete
    <3>3. Len(out') = next /\ \A i \in 1..Len(out) : out'[i] = out[i]
      <4>1. out \in Seq([kind : Byte, id : Nat, route : Seq(Byte), body : Seq(Byte)])
        BY <1>1, Zenon DEF TypeOK
      <4> QED
        BY <3>2, <4>1 DEF next
    <3>4. ASSUME NEW i \in 1..Len(out'), i <= Len(sent), whole(i) PROVE out'[i] = sent[i]
      <4>1. i \in 1..Len(out) \/ i = next
        BY <1>1, <3>3 DEF next
      <4>2. CASE i = next
        <5>1. k \in Nat /\ i \in Nat /\ k <= i
          BY <1>1, <3>1, <4>2 DEF next
        <5> QED
          BY <3>1, <3>4, <5>1, WholePrefix, Zenon
      <4>3. CASE i \in 1..Len(out)
        BY <1>1, <3>3, <3>4, <4>3, Zenon DEF Delivered
      <4> QED
        BY <4>1, <4>2, <4>3
    <3>5. ASSUME NEW i \in 1..Len(out'), i <= Len(sent'), whole(i)' PROVE out'[i] = sent'[i]
      <4>1. whole(i)
        BY <3>2, <3>5, Zenon DEF whole
      <4> QED
        BY <3>2, <3>4, <3>5, <4>1, Zenon
    <3> QED
      BY <3>5, Zenon DEF Delivered
  <2> QED
    BY <2>1, <2>2, <2>3
<1>4. CASE UNCHANGED <<sent, out>>
  BY <1>1, <1>4, Zenon DEF Delivered, whole
<1> QED
  BY <1>2, <1>3, <1>4, Zenon
     DEF Next, ReaderStep, vars, Read, WaitHeader, BadHeader, ReadHeader, WaitBody

\* A read moves bytes from the wire to the buffer.
LEMMA ReadKeepsStream ==
    ASSUME TypeOK, NEW n \in Chunks, Read(n) PROVE stream' = stream
<1>1. wire \in Seq(Byte) /\ message \in Seq(Byte) /\ Len(wire) \in Nat /\ n \in Nat /\ n # 0
  BY LenProperties, ConstantsAssumption DEF TypeOK
<1>2. Len(wire) # 0
  BY <1>1, EmptySeq DEF Read
<1> DEFINE k == upTo(n)
<1>3. /\ k \in 1..Len(wire) /\ 1 \in 1..(Len(wire) + 1) /\ k \in (1 - 1)..Len(wire)
      /\ Len(wire) \in k..Len(wire)
  BY <1>1, <1>2 DEF upTo
<1> DEFINE a == SubSeq(wire, 1, k)
           b == SubSeq(wire, k + 1, Len(wire))
<1>4. a \o b = wire
  <2>1. a \o b = SubSeq(wire, 1, Len(wire))
    BY <1>1, <1>3, ConcatAdjacentSubSeq
  <2> QED
    BY <1>1, <2>1, SubSeqFull
<1>5. a \in Seq(Byte) /\ b \in Seq(Byte)
  <2> DEFINE l == Len(wire) - k
  <2>1. /\ 0 \in Nat /\ 0 + 1 = 1 /\ 0 + k = k /\ k \in Nat /\ l \in Nat /\ k + l = Len(wire)
        /\ 0 + k <= Len(wire) /\ k + l <= Len(wire)
    BY <1>1, <1>3
  <2> HIDE DEF k, l
  <2>2. SubSeq(wire, 0 + 1, 0 + k) \in Seq(Byte) /\ SubSeq(wire, k + 1, k + l) \in Seq(Byte)
    BY <1>1, <2>1, Cut, Zenon
  <2> QED
    BY <2>1, <2>2, Zenon
<1>6. message' = message \o a /\ wire' = b
  BY Zenon DEF Read
<1> HIDE DEF a, b
<1>7. (message \o a) \o b = message \o (a \o b)
  <2>1. message \in Seq(Byte)
    BY <1>1, Zenon
  <2> QED
    BY <1>5, <2>1, ConcatAssociative
<1> QED
  BY <1>4, <1>6, <1>7, Zenon DEF stream

LEMMA AlignedStep == FramingInv /\ ~Lost /\ [Next]_vars => Aligned'
<1> SUFFICES ASSUME FramingInv, ~Lost, [Next]_vars PROVE Aligned'
  OBVIOUS
<1>1. TypeOK /\ TypeOK' /\ Aligned
  BY TypeStep, Zenon DEF FramingInv
<1>2. /\ Len(sent) \in Nat /\ Len(out) \in Nat /\ sent \in Seq(Messages)
      /\ message \in Seq(Byte) /\ wire \in Seq(Byte)
      /\ stream \in Seq(Byte) /\ Joins(stream, message, wire)
      /\ next \in Nat /\ Len(out) <= Len(sent) /\ next \in 1..(Len(sent) + 1)
  <2>1. /\ Len(sent) \in Nat /\ Len(out) \in Nat /\ sent \in Seq(Messages)
        /\ message \in Seq(Byte) /\ wire \in Seq(Byte) /\ Len(out) <= Len(sent)
    BY <1>1, LenProperties DEF TypeOK, Aligned
  <2>2. next \in Nat /\ next \in 1..(Len(sent) + 1)
    BY <2>1 DEF next
  <2> QED
    BY <1>1, <2>1, <2>2, StreamJoins, Zenon
<1>3. PICK pos : LaidOut(pos, next, sent, stream)
  BY <1>1, Zenon DEF Aligned
<1>4. ASSUME NEW m \in Messages, Send(m) PROVE Aligned'
  <2> DEFINE e == Encode(m)
             t == stream'
  <2>1. /\ sent' = Append(sent, m) /\ wire' = wire \o e
        /\ UNCHANGED <<message, singleMessageLen, pc, out>>
    BY <1>4, Zenon DEF Send
  <2>2. e \in Seq(Byte)
    BY EncodeBytes, Zenon
  <2>3. t = stream \o e
    <3>1. t = message \o (wire \o e)
      BY <2>1, Zenon DEF stream
    <3>2. (message \o wire) \o e = message \o (wire \o e)
      <4>1. message \in Seq(Byte) /\ wire \in Seq(Byte)
        BY <1>2, Zenon
      <4> HIDE DEF e, t
      <4> QED
        BY <2>2, <4>1, ConcatAssociative
    <3> QED
      BY <3>1, <3>2, Zenon DEF stream
  <2>4. Joins(t, stream, e)
    BY <1>2, <2>2, <2>3, Concat, Zenon
  <2> HIDE DEF t
  <2>5. \E p \in [next..(Len(Append(sent, m)) + 1) -> Nat] : LaidOut(p, next, Append(sent, m), t)
    BY <1>2, <1>3, <2>4, OneMore
  <2>6. next' = next
    BY <2>1, Zenon DEF next
  <2>7. \E p \in [next'..(Len(sent') + 1) -> Nat] : LaidOut(p, next', sent', stream')
    BY <2>1, <2>5, <2>6, Zenon DEF t
  <2>8. Len(sent') = Len(sent) + 1 /\ \A i \in 1..Len(sent) : sent'[i] = sent[i]
    BY <1>2, <2>1, AppendProperties
  <2>9. Len(out') <= Len(sent') /\ Len(sent) <= Len(sent')
    BY <1>2, <2>1, <2>8
  <2>10. ASSUME next <= Len(sent) PROVE next' <= Len(sent') /\ sent'[next'] = sent[next]
    <3>1. next \in 1..Len(sent) /\ next <= Len(sent')
      BY <1>2, <2>8, <2>10
    <3> QED
      BY <2>6, <2>8, <3>1, Zenon
  <2> QED
    BY <1>1, <2>1, <2>7, <2>9, <2>10, Zenon DEF Aligned
<1>5. ASSUME NEW n \in Chunks, Read(n) PROVE Aligned'
  <2>1. stream' = stream
    BY <1>1, <1>5, ReadKeepsStream, Zenon
  <2>2. UNCHANGED <<sent, singleMessageLen, out>> /\ pc' = "loop"
    BY <1>5, Zenon DEF Read
  <2>3. next' = next
    BY <2>2, Zenon DEF next
  <2>4. pc' # "failed" /\ pc' # "panicked"
    BY <2>2
  <2> QED
    BY <1>1, <2>1, <2>2, <2>3, <2>4, Zenon DEF Aligned
<1>6. CASE WaitHeader \/ WaitBody
  <2>1. UNCHANGED <<sent, wire, message, singleMessageLen, out>> /\ pc' = "read"
    BY <1>6, Zenon DEF WaitHeader, WaitBody
  <2>2. next' = next /\ stream' = stream
    BY <2>1, Zenon DEF next, stream
  <2>3. pc' # "failed" /\ pc' # "panicked"
    BY <2>1
  <2> QED
    BY <1>1, <2>1, <2>2, <2>3, Zenon DEF Aligned
<1>7. CASE BadHeader
  BY <1>7, HeaderIsNext, Zenon DEF BadHeader
<1>8. CASE ReadHeader
  <2>1. next \in 1..Len(sent) /\ getLen(message) = Len(Encode(sent[next]))
    BY <1>8, HeaderIsNext, Zenon DEF ReadHeader, isHeaderInvalid
  <2>2. UNCHANGED <<sent, wire, message, pc, out>> /\ singleMessageLen' = getLen(message)
    BY <1>8, Zenon DEF ReadHeader
  <2>3. next' = next /\ stream' = stream
    BY <2>2, Zenon DEF next, stream
  <2>4. next <= Len(sent)
    BY <1>2, <2>1
  <2> QED
    BY <1>1, <2>1, <2>2, <2>3, <2>4, Zenon DEF Aligned
<1>9. CASE Complete
  <2>1. next \in 1..Len(sent) /\ next <= Len(sent) /\ UNCHANGED <<sent, wire>>
    BY <1>2, <1>9, CompleteIsNext
  <2>2. CASE /\ Len(sent[next].route) >= 240
             /\ pc' = "panicked" /\ UNCHANGED <<message, singleMessageLen, out>>
    <3>1. next' = next /\ stream' = stream
      BY <2>1, <2>2, Zenon DEF next, stream
    <3>2. pc' # "failed"
      BY <2>2
    <3> QED
      BY <1>1, <2>1, <2>2, <3>1, <3>2, Zenon DEF Aligned
  <2>3. CASE /\ out' = Append(out, sent[next])
             /\ message' = rest /\ singleMessageLen' = 0 /\ UNCHANGED pc
             /\ singleMessageLen = Len(Encode(sent[next]))
    <3> DEFINE l == Len(Encode(sent[next]))
               t == stream'
    <3>1. Len(out') = next /\ next' = next + 1
      <4>1. out \in Seq([kind : Byte, id : Nat, route : Seq(Byte), body : Seq(Byte)])
        BY <1>1, Zenon DEF TypeOK
      <4>2. Len(out') = Len(out) + 1
        BY <2>3, <4>1
      <4> QED
        BY <4>2, Zenon DEF next
    <3>2. t \in Seq(Byte) /\ Joins(t, message', wire')
      <4>1. (stream \in Seq(Byte) /\ Joins(stream, message, wire))'
        BY <1>1, StreamJoins, PTL
      <4> QED
        BY <4>1, Zenon DEF Joins
    <3>3. l \in Nat /\ l <= Len(message) /\ message' = SubSeq(message, l + 1, Len(message))
      BY <1>1, <1>9, <2>3, Zenon DEF TypeOK, Complete, rest
    <3> HIDE DEF l, t
    <3>4. Joins(t, SubSeq(message, l + 1, Len(message)), wire)
      BY <2>1, <3>2, <3>3, Zenon
    <3>5. Len(t) = Len(stream) - l /\ \A j \in 1..Len(t) : t[j] = stream[l + j]
      BY <1>2, <3>3, <3>4, Consume
    <3>6. \E p \in [(next + 1)..(Len(sent) + 1) -> Nat] : LaidOut(p, next + 1, sent, t)
      BY <1>2, <1>3, <2>1, <3>2, <3>5, Drop DEF l
    <3>7. \E p \in [next'..(Len(sent') + 1) -> Nat] : LaidOut(p, next', sent', stream')
      BY <2>1, <3>1, <3>6, Zenon DEF t
    <3>8. Len(out') <= Len(sent')
      BY <2>1, <3>1, Zenon
    <3>9. pc' # "failed" /\ pc' # "panicked"
      BY <1>9, <2>3 DEF Complete
    <3> QED
      BY <2>3, <3>7, <3>8, <3>9, Zenon DEF Aligned
  <2> QED
    BY <1>9, <2>2, <2>3, CompleteIsNext, Zenon
<1>10. CASE UNCHANGED vars
  BY <1>1, <1>10, Zenon DEF Aligned, vars, next, stream
<1> QED
  BY <1>4, <1>5, <1>6, <1>7, <1>8, <1>9, <1>10, Zenon DEF Next, ReaderStep

-----------------------------------------------------------------------------
(* Theorems *)

\* Whatever is sent and however it is cut, the reader is at the beginning of the
\* message it is to deliver next, with all bytes of the undelivered ones before it,
\* until a message comes whose end its header does not tell.
THEOREM FramingInvariance == Spec => []FramingInv
<1>1. Init => FramingInv
  <2> SUFFICES ASSUME Init PROVE FramingInv
    OBVIOUS
  <2>1. Len(sent) = 0 /\ Len(out) = 0 /\ stream = <<>> /\ Len(stream) = 0 /\ next = 1
    BY DEF Init, stream, next
  <2>2. TypeOK
    BY EmptySeq, ConstantsAssumption DEF Init, TypeOK
  <2>3. Delivered
    BY <2>1 DEF Delivered
  <2>4. Aligned
    <3> DEFINE pos == [i \in 1..1 |-> 0]
    <3>1. pos \in [next..(Len(sent) + 1) -> Nat]
      BY <2>1
    <3>2. LaidOut(pos, next, sent, stream)
      BY <2>1 DEF LaidOut
    <3> HIDE DEF pos
    <3>3. Len(out) <= Len(sent) /\ singleMessageLen = 0 /\ pc # "failed" /\ pc # "panicked"
      BY <2>1 DEF Init
    <3> QED
      BY <3>1, <3>2, <3>3, Zenon DEF Aligned
  <2> QED
    BY <2>2, <2>3, <2>4, Zenon DEF FramingInv
<1>2. FramingInv /\ [Next]_vars => FramingInv'
  BY TypeStep, LostStep, DeliveredStep, AlignedStep, Zenon DEF FramingInv
<1> QED
  BY <1>1, <1>2, PTL DEF Spec

THEOREM TypeCorrect == Spec => []TypeOK
<1>1. FramingInv => TypeOK
  BY Zenon DEF FramingInv
<1> QED
  BY <1>1, FramingInvariance, PTL

\* What is left of a message that is lost.
LEMMA LostIsNotWhole ==
    ASSUME TypeOK, Lost
    PROVE  /\ ~whole(Len(sent))
           /\ \E k \in 1..Len(sent) : k <= Len(out) + 1 /\ ~whole(k)
<1>1. PICK k \in 1..Len(sent) : k <= next /\ ~whole(k)
  BY Zenon DEF Lost
<1>2. Len(sent) \in Nat /\ k \in Nat /\ k <= Len(sent)
  BY LenProperties DEF TypeOK
<1> QED
  BY <1>1, <1>2, WholePrefix, Zenon DEF next

\* However the bytes are cut, what is sent comes out, unchanged and in order.
THEOREM MessagesInOrder == Spec => []InOrder
<1>1. FramingInv => InOrder
  BY LostIsNotWhole, Zenon DEF FramingInv, Aligned, Delivered, InOrder
<1> QED
  BY <1>1, FramingInvariance, PTL

\* Only a message that its header does not tell the end of ends in a proto error.
THEOREM MisfitsMisalign == Spec => []OnlyMisfitsMisalign
<1>1. FramingInv => OnlyMisfitsMisalign
  BY LostIsNotWhole, Zenon DEF FramingInv, Aligned, OnlyMisfitsMisalign
<1> QED
  BY <1>1, FramingInvariance, PTL

\* Decode panics on routes of 240 bytes and more, and on nothing else that is whole.
THEOREM LongRoutesPanic == Spec => []PanicsOnLongRoutesOnly
<1>1. FramingInv => PanicsOnLongRoutesOnly
  <2> SUFFICES ASSUME FramingInv, pc = "panicked"
               PROVE  \/ \E k \in 1..Len(sent) : k <= Len(out) + 1 /\ ~whole(k)
                      \/ Len(out) < Len(sent) /\ Len(sent[Len(out) + 1].route) >= 240
    BY Zenon DEF PanicsOnLongRoutesOnly
  <2>1. CASE Lost
    BY <2>1, LostIsNotWhole, Zenon DEF FramingInv
  <2>2. CASE Aligned
    <3>1. next <= Len(sent) /\ Len(sent[next].route) >= 240
      BY <2>2, Zenon DEF Aligned
    <3>2. Len(sent) \in Nat /\ Len(out) \in Nat
      BY LenProperties DEF FramingInv, TypeOK
    <3>3. Len(out) < Len(sent)
      BY <3>1, <3>2 DEF next
    <3> QED
      BY <3>1, <3>3, Zenon DEF next
  <2> QED
    BY <2>1, <2>2, Zenon DEF FramingInv
<1> QED
  BY <1>1, FramingInvariance, PTL

-----------------------------------------------------------------------------
(* The Reader implements Delivery *)

\* The reader has lost its place when a message that is delivered, or whose turn
\* it is, is none that fits.
LEMMA LostItsPlace == TypeOK => (D!HasLostItsPlace <=> Lost)
<1> SUFFICES ASSUME TypeOK PROVE D!HasLostItsPlace <=> Lost
  OBVIOUS
<1>1. Len(sent) \in Nat /\ Len(out) \in Nat /\ \A k \in 1..Len(sent) : sent[k] \in Messages
  BY LenProperties, ElementOfSeq DEF TypeOK
<1>2. D!turn = next
  BY Zenon DEF D!turn, next
<1>3. ASSUME NEW k \in 1..Len(sent), k <= next, ~whole(k)
      PROVE  \E i \in 1..Len(sent) : i <= next /\ ~(sent[i].kind = Bin /\ fits(sent[i]))
  <2>1. PICK i \in 1..k : ~(sent[i].kind = Bin /\ fits(sent[i]))
    BY <1>3, Zenon DEF whole
  <2>2. i \in 1..Len(sent) /\ i <= next
    BY <1>1, <1>3 DEF next
  <2> QED
    BY <2>1, <2>2, Zenon
<1>4. ASSUME NEW k \in 1..Len(sent), ~(sent[k].kind = Bin /\ fits(sent[k])) PROVE ~whole(k)
  <2>1. k \in 1..k
    BY <1>1
  <2> QED
    BY <1>4, <2>1, Zenon DEF whole
<1> HIDE DEF next
<1> QED
  BY <1>1, <1>2, <1>3, <1>4, Zenon DEF D!HasLostItsPlace, Lost

\* A message whose turn it is, of a reader that knows where it is.
LEMMA KeepsStep ==
    ASSUME TypeOK, ~Lost, next \in 1..Len(sent)
    PROVE  D!InStep
<1>1. D!turn = next /\ next <= Len(sent) /\ next <= next
  BY LenProperties DEF D!turn, next, TypeOK
<1>2. ASSUME NEW k \in 1..next PROVE k \in 1..Len(sent) /\ k <= next
  BY <1>1, LenProperties DEF next, TypeOK
<1>3. ASSUME NEW k \in 1..next PROVE sent[k] \in {m \in Messages : m.kind = Bin /\ fits(m)}
  <2>1. sent[k] \in Messages
    BY <1>2, ElementOfSeq, Zenon DEF TypeOK
  <2>2. whole(next)
    BY <1>1, Zenon DEF Lost
  <2> QED
    BY <1>3, <2>1, <2>2, Zenon DEF whole
<1> QED
  BY <1>1, <1>3, Zenon DEF D!InStep

\* Every step of sender, network and Reader is one of Delivery, or none.
LEMMA DeliveryStep ==
    FramingInv /\ [Next]_vars => [D!Next]_<<sent, out, readerState>>
<1> SUFFICES ASSUME FramingInv, [Next]_vars PROVE [D!Next]_<<sent, out, readerState>>
  OBVIOUS
<1>1. TypeOK /\ (Lost \/ Aligned)
  BY Zenon DEF FramingInv
<1>2. ASSUME NEW m \in Messages, Send(m) PROVE D!Send
  BY <1>2, Zenon DEF Send, D!Send, readerState
<1>3. CASE (\E n \in Chunks : Read(n)) \/ WaitHeader \/ ReadHeader \/ WaitBody \/ UNCHANGED vars
  <2>1. UNCHANGED <<sent, out>>
    BY <1>3 DEF Read, WaitHeader, ReadHeader, WaitBody, vars
  <2>2. readerState' = readerState
    BY <1>3 DEF Read, WaitHeader, ReadHeader, WaitBody, vars, readerState
  <2> QED
    BY <2>1, <2>2
<1>4. CASE BadHeader
  <2>1. Lost
    BY <1>1, <1>4, HeaderIsNext, Zenon DEF FramingInv, BadHeader
  <2>2. readerState = "up" /\ readerState' = "failed" /\ UNCHANGED <<sent, out>>
    BY <1>4 DEF BadHeader, readerState
  <2> QED
    BY <1>1, <2>1, <2>2, LostItsPlace DEF D!Next, D!Stray
<1>5. CASE Complete /\ Lost
  <2>1. pc = "loop" /\ UNCHANGED sent
    BY <1>5, Zenon DEF Complete
  <2>2. CASE pc' = "panicked" /\ UNCHANGED out
    <3>1. readerState = "up" /\ readerState' = "panicked"
      BY <2>1, <2>2 DEF readerState
    <3> QED
      BY <1>1, <1>5, <2>1, <2>2, <3>1, LostItsPlace DEF D!Next, D!Stray
  <2>3. ASSUME NEW d, out' = Append(out, d), UNCHANGED pc PROVE D!Stray
    <3>1. readerState = "up" /\ UNCHANGED readerState
      BY <2>1, <2>3 DEF readerState
    <3>2. Len(out') = D!turn /\ out'[D!turn] = d
      BY <1>1, <2>3 DEF TypeOK, D!turn
    <3> QED
      BY <1>1, <1>5, <2>1, <2>3, <3>1, <3>2, LostItsPlace, Zenon DEF D!Stray
  <2> QED
    BY <1>5, <2>2, <2>3, Zenon DEF Complete, D!Next
<1>6. CASE Complete /\ ~Lost
  <2>1. next \in 1..Len(sent) /\ UNCHANGED sent /\ pc = "loop"
    BY <1>6, CompleteIsNext, Zenon DEF Complete
  <2>2. D!InStep /\ D!turn = next
    BY <1>1, <1>6, <2>1, KeepsStep, Zenon DEF D!turn, next
  <2>3. sent[next] \in Messages /\ Len(sent[next].route) \in Nat
    <3>1. sent[next] \in Messages
      BY <1>1, <2>1, ElementOfSeq, Zenon DEF TypeOK
    <3> QED
      BY <3>1, MessageTypes, Zenon
  <2>4. CASE Len(sent[next].route) >= 240 /\ pc' = "panicked" /\ UNCHANGED out
    <3>1. readerState = "up" /\ readerState' = "panicked"
      BY <2>1, <2>4 DEF readerState
    <3>2. ~(Len(sent[next].route) < 240)
      BY <2>3, <2>4
    <3> QED
      BY <2>1, <2>2, <2>4, <3>1, <3>2, Zenon DEF D!Next, D!Panic
  <2>5. CASE Len(sent[next].route) < 240 /\ out' = Append(out, sent[next]) /\ UNCHANGED pc
    <3>1. readerState = "up" /\ UNCHANGED readerState
      BY <2>1, <2>5 DEF readerState
    <3> QED
      BY <2>1, <2>2, <2>3, <2>5, <3>1, Zenon DEF D!Next, D!Deliver
  <2> QED
    BY <1>6, <2>3, <2>4, <2>5, CompleteIsNext, Zenon
<1> QED
  BY <1>2, <1>3, <1>4, <1>5, <1>6, Zenon DEF Next, ReaderStep, D!Next

\* The Reader delivers the messages in order, once and unchanged, until it panics
\* or the turn comes of one that does not fit its header.
THEOREM DeliveryImplemented == Spec => ImplementsDelivery
<1>1. Init => D!Init
  BY DEF Init, D!Init, readerState
<1> QED
  BY <1>1, DeliveryStep, FramingInvariance, PTL DEF Spec, ImplementsDelivery, D!Spec
=============================================================================
