---------------------------- MODULE H3BytesProofs ----------------------------
(***************************************************************************)
(* What is read from an HTTP/3 stream is what was written to it (H3Bytes), *)
(* for all integers, frames, settings, static tables and header fields.    *)
(***************************************************************************)
EXTENDS H3Bytes, WellFoundedInduction, TLAPS

-----------------------------------------------------------------------------
(* Sequences, and induction over the natural numbers.                      *)

LEMMA LenProperties ==
  ASSUME NEW S, NEW seq \in Seq(S)
  PROVE  Len(seq) \in Nat /\ seq \in [1 .. Len(seq) -> S] /\ DOMAIN seq = 1 .. Len(seq)
OBVIOUS

LEMMA ConcatProperties ==
  ASSUME NEW S, NEW s1 \in Seq(S), NEW s2 \in Seq(S)
  PROVE  /\ s1 \o s2 \in Seq(S)
         /\ Len(s1 \o s2) = Len(s1) + Len(s2)
         /\ \A i \in 1 .. Len(s1) + Len(s2) : (s1 \o s2)[i] = IF i <= Len(s1) THEN s1[i] ELSE s2[i - Len(s1)]
OBVIOUS

LEMMA Induction ==
  ASSUME NEW S \in SUBSET Nat, 0 \in S, \A n \in S : n + 1 \in S
  PROVE  S = Nat
<1> SUFFICES ASSUME Nat \ S # {} PROVE FALSE
  BY ZenonT(60)
<1> DEFINE R == OpToRel(<, Nat)
<1>1. PICK x \in Nat \ S : \A y \in Nat \ S : ~(<<y, x>> \in R)
  <2>1. IsWellFoundedOn(R, Nat)
    BY NatLessThanWellFounded, Zenon
  <2> HIDE DEF R
  <2> QED  BY <2>1, WFMin, ZenonT(60)
<1>2. x # 0 /\ x - 1 \in Nat
  OBVIOUS
<1>3. <<x - 1, x>> \in R
  BY DEF OpToRel
<1>4. x - 1 \in S
  BY <1>1, <1>2, <1>3, ZenonT(60)
<1>5. (x - 1) + 1 \in S
  BY <1>4
<1> QED  BY <1>5

-----------------------------------------------------------------------------
(* The integers and the frames of an HTTP/3 stream.                        *)

\* f[i] is the number in the first i bytes of b.
Accumulates(f, b, k) == f = [i \in 1 .. k |-> IF i = 1 THEN b[1] % 64 ELSE Shifted(f[i - 1], b[i])]

\* The bytes of a number make it up.
LEMMA ByteRange ==
  ASSUME NEW v \in Nat
  PROVE  Byte(v, 0) \in Octet /\ Byte(v, 1) \in Octet /\ Byte(v, 2) \in Octet /\ Byte(v, 3) \in Octet
BY SMTT(60) DEF Byte, Octet

LEMMA TwoDigits ==
  ASSUME NEW v \in Nat, v <= 16383
  PROVE  Byte(v, 1) < 64 /\ Shifted(Byte(v, 1), Byte(v, 0)) = v
BY SMTT(60) DEF Byte, Shifted

LEMMA FourDigits ==
  ASSUME NEW v \in Nat, v <= Max4
  PROVE  /\ Byte(v, 3) < 64
         /\ Shifted(Shifted(Shifted(Byte(v, 3), Byte(v, 2)), Byte(v, 1)), Byte(v, 0)) = v
BY SMTT(60) DEF Byte, Shifted, Max4

\* appendVarint returns bytes.
LEMMA VarintBytes ==
  \A v \in Varint : appendVarint(v) \in Seq(Octet)
\* appendVarint writes bytes.
<1>WordBytes. ASSUME NEW w \in Nat, NEW p \in Nat, p + Byte(w, 3) <= 255
              PROVE  Word(p, w) \in Seq(Octet)
  <2> USE <1>WordBytes
  <2>1. PICK x \in Octet, y \in Octet, z \in Octet, t \in Octet :
          x = Byte(w, 3) /\ y = Byte(w, 2) /\ z = Byte(w, 1) /\ t = Byte(w, 0)
    BY ByteRange
  <2>2. Word(p, w) = <<p + x, y, z, t>>
    BY <2>1 DEF Word
  <2>3. p + x <= 255
    BY <2>1
  <2>4. p + x \in Octet
    BY <2>3 DEF Octet
  <2> QED  BY <2>2, <2>4
<1>VarintBytes. ASSUME NEW v \in Varint
                PROVE  appendVarint(v) \in Seq(Octet)
  <2>1. v \in Nat /\ High(v) \in Nat /\ High(v) <= Max4
    BY DEF Varint, High
  <2>2. CASE v <= 63
    <3>1. v \in Octet
      BY <2>1, <2>2 DEF Octet
    <3> QED  BY <2>2, <3>1 DEF appendVarint
  <2>3. CASE ~(v <= 63) /\ v <= 16383
    <3>1. PICK x \in Octet, y \in Octet : x = Byte(v, 1) /\ y = Byte(v, 0)
      BY <2>1, ByteRange
    <3>2. x < 64
      BY <2>1, <2>3, <3>1, TwoDigits
    <3>3. 64 + x \in Octet
      BY <3>2 DEF Octet
    <3> QED  BY <2>3, <3>1, <3>3 DEF appendVarint
  <2>4. CASE ~(v <= 63) /\ ~(v <= 16383) /\ v <= Max4
    <3>1. PICK x \in Octet : x = Byte(v, 3)
      BY <2>1, ByteRange
    <3>2. x < 64
      BY <2>1, <2>4, <3>1, FourDigits
    <3>3. 128 + Byte(v, 3) <= 255
      BY <3>1, <3>2 DEF Octet
    <3>4. Word(128, v) \in Seq(Octet)
      BY <2>1, <3>3, <1>WordBytes
    <3> QED  BY <2>4, <3>4 DEF appendVarint
  <2>5. CASE ~(v <= 63) /\ ~(v <= 16383) /\ ~(v <= Max4)
    <3>1. PICK x \in Octet, y \in Octet : x = Byte(High(v), 3) /\ y = Byte(v, 3)
      BY <2>1, ByteRange
    <3>2. x < 64
      BY <2>1, <3>1, FourDigits
    <3>3. 192 + Byte(High(v), 3) <= 255 /\ 0 + Byte(v, 3) <= 255
      BY <3>1, <3>2 DEF Octet
    <3>4. PICK c \in Seq(Octet), d \in Seq(Octet) : c = Word(192, High(v)) /\ d = Word(0, v)
      BY <2>1, <3>3, <1>WordBytes
    <3>5. c \o d \in Seq(Octet)
      OBVIOUS
    <3> QED  BY <2>5, <3>4 DEF appendVarint
  <2> QED  BY <2>2, <2>3, <2>4, <2>5
<1> QED  BY <1>VarintBytes, Zenon

\* readVarint takes from the front of a stream the integer that appendVarint put there,
\* for every 62-bit integer and whatever follows, and takes no byte more.
THEOREM VarintRead ==
  \A v \in Varint, rest \in Seq(Octet) :
    readVarint(appendVarint(v) \o rest) = [v |-> v, n |-> Len(appendVarint(v))]
\* Such a function exists, for every number of bytes.
<1>AccumulatesExist. ASSUME NEW b
                     PROVE  \A k \in Nat : \E f : Accumulates(f, b, k)
  <2> DEFINE S == {k \in Nat : \E f : Accumulates(f, b, k)}
  <2>1. 0 \in S
    <3>1. Accumulates([i \in 1 .. 0 |-> 0], b, 0)
      BY DEF Accumulates
    <3> QED  BY <3>1
  <2>2. ASSUME NEW k \in S PROVE k + 1 \in S
    <3>1. k \in Nat /\ k + 1 \in Nat
      OBVIOUS
    <3>2. PICK f : Accumulates(f, b, k)
      OBVIOUS
    <3> DEFINE next == IF k = 0 THEN b[1] % 64 ELSE Shifted(f[k], b[k + 1])
               g == [i \in 1 .. k + 1 |-> IF i = k + 1 THEN next ELSE f[i]]
    <3>3. ASSUME NEW i \in 1 .. k + 1 PROVE g[i] = IF i = 1 THEN b[1] % 64 ELSE Shifted(g[i - 1], b[i])
      <4>1. CASE i = k + 1
        <5>1. CASE k = 0
          BY <4>1
        <5>2. CASE k # 0
          <6>1. i # 1 /\ i - 1 = k /\ k \in 1 .. k + 1 /\ k # k + 1
            BY <4>1, <5>2
          <6>2. g[i] = Shifted(f[k], b[i]) /\ g[i - 1] = f[k]
            BY <4>1, <5>2
          <6> QED  BY <6>1
        <5> QED  BY <5>2
      <4>2. CASE i \in 1 .. k
        <5>1. i # k + 1 /\ (i # 1 => i - 1 \in 1 .. k + 1 /\ i - 1 # k + 1)
          BY <4>2
        <5>2. g[i] = f[i] /\ (i # 1 => g[i - 1] = f[i - 1])
          BY <5>1
        <5>3. f[i] = IF i = 1 THEN b[1] % 64 ELSE Shifted(f[i - 1], b[i])
          BY <3>2, <4>2 DEF Accumulates
        <5> QED  BY <5>3
      <4> QED  BY <4>2
    <3>4. Accumulates(g, b, k + 1)
      BY <3>3 DEF Accumulates
    <3> QED  BY <3>4
  <2>3. S = Nat
    <3> HIDE DEF S
    <3>1. S \in SUBSET Nat
      BY DEF S
    <3> QED  BY <2>1, <2>2, <3>1, Induction
  <2> QED  BY <2>3
\* Value is its last element.
<1>ValueAccumulates. ASSUME NEW b, NEW n \in Nat
                     PROVE  \E f : Accumulates(f, b, n) /\ Value(b, n) = f[n]
  <2> DEFINE acc == CHOOSE f : f = [i \in 1 .. n |-> IF i = 1 THEN b[1] % 64 ELSE Shifted(f[i - 1], b[i])]
  <2>1. \E f : Accumulates(f, b, n)
    BY <1>AccumulatesExist
  <2>2. acc = [i \in 1 .. n |-> IF i = 1 THEN b[1] % 64 ELSE Shifted(acc[i - 1], b[i])]
    BY <2>1, Zenon DEF Accumulates
  <2>3. Value(b, n) = acc[n]
    BY DEF Value
  <2>4. Accumulates(acc, b, n)
    BY <2>2, Zenon DEF Accumulates
  <2> QED  BY <2>3, <2>4, Zenon
\* The four sizes.
<1>Value1. ASSUME NEW b PROVE Value(b, 1) = b[1] % 64
  <2>1. PICK f : Accumulates(f, b, 1) /\ Value(b, 1) = f[1]
    BY <1>ValueAccumulates
  <2> QED  BY <2>1 DEF Accumulates
<1>Value2. ASSUME NEW b PROVE Value(b, 2) = Shifted(b[1] % 64, b[2])
  <2>1. PICK f : Accumulates(f, b, 2) /\ Value(b, 2) = f[2]
    BY <1>ValueAccumulates
  <2>2. f[1] = b[1] % 64 /\ f[2] = Shifted(f[1], b[2])
    BY <2>1 DEF Accumulates
  <2> QED  BY <2>1, <2>2
<1>Value4. ASSUME NEW b
           PROVE  Value(b, 4) = Shifted(Shifted(Shifted(b[1] % 64, b[2]), b[3]), b[4])
  <2>1. PICK f : Accumulates(f, b, 4) /\ Value(b, 4) = f[4]
    BY <1>ValueAccumulates
  <2>2. /\ f[1] = b[1] % 64 /\ f[2] = Shifted(f[1], b[2]) /\ f[3] = Shifted(f[2], b[3])
        /\ f[4] = Shifted(f[3], b[4])
    BY <2>1 DEF Accumulates
  <2> QED  BY <2>1, <2>2
<1>Value8. ASSUME NEW b
           PROVE  Value(b, 8) = Shifted(Shifted(Shifted(Shifted(
                                  Shifted(Shifted(Shifted(b[1] % 64, b[2]), b[3]), b[4]), b[5]), b[6]), b[7]), b[8])
  <2>1. PICK f : Accumulates(f, b, 8) /\ Value(b, 8) = f[8]
    BY <1>ValueAccumulates
  <2>2. /\ f[1] = b[1] % 64 /\ f[2] = Shifted(f[1], b[2]) /\ f[3] = Shifted(f[2], b[3])
        /\ f[4] = Shifted(f[3], b[4]) /\ f[5] = Shifted(f[4], b[5]) /\ f[6] = Shifted(f[5], b[6])
        /\ f[7] = Shifted(f[6], b[7]) /\ f[8] = Shifted(f[7], b[8])
    BY <2>1 DEF Accumulates
  <2> QED  BY <2>1, <2>2
<1>EightDigits. ASSUME NEW v \in Nat
                PROVE  Shifted(Shifted(Shifted(Shifted(High(v), Byte(v, 3)), Byte(v, 2)), Byte(v, 1)), Byte(v, 0)) = v
  BY SMTT(150) DEF Byte, High, Shifted
\* The prefix says the size.
<1>Size1. ASSUME NEW x \in 0 .. 63 PROVE VarintSize(x) = 1 /\ x % 64 = x
  <2>1. x \div 64 = 0 /\ x % 64 = x
    OBVIOUS
  <2> QED  BY DEF VarintSize
<1>Size2. ASSUME NEW x \in Octet, x < 64 PROVE VarintSize(64 + x) = 2 /\ (64 + x) % 64 = x
  <2> USE <1>Size2
  <2>1. (64 + x) \div 64 = 1 /\ (64 + x) % 64 = x
    BY DEF Octet
  <2> QED  BY <2>1 DEF VarintSize
<1>Size4. ASSUME NEW x \in Octet, x < 64 PROVE VarintSize(128 + x) = 4 /\ (128 + x) % 64 = x
  <2> USE <1>Size4
  <2>1. (128 + x) \div 64 = 2 /\ (128 + x) % 64 = x
    BY DEF Octet
  <2> QED  BY <2>1 DEF VarintSize
<1>Size8. ASSUME NEW x \in Octet, x < 64 PROVE VarintSize(192 + x) = 8 /\ (192 + x) % 64 = x
  <2> USE <1>Size8
  <2>1. (192 + x) \div 64 = 3 /\ (192 + x) % 64 = x
    BY DEF Octet
  <2> QED  BY <2>1 DEF VarintSize
<1>VarintRead. ASSUME NEW v \in Varint, NEW rest \in Seq(Octet)
               PROVE  readVarint(appendVarint(v) \o rest) = [v |-> v, n |-> Len(appendVarint(v))]
  <2>1. PICK a \in Seq(Octet) : a = appendVarint(v)
    BY VarintBytes
  <2>2. PICK b \in Seq(Octet) : b = a \o rest
    BY ConcatProperties, Zenon
  <2> SUFFICES readVarint(b) = [v |-> v, n |-> Len(a)]
    BY <2>1, <2>2
  <2>3. Len(b) = Len(a) + Len(rest) /\ \A i \in 1 .. Len(a) : b[i] = a[i]
    BY <2>2
  <2>4. PICK h \in Nat : v \in Nat /\ h = High(v) /\ h <= Max4
    BY DEF Varint, High, Max4
  <2>5. ASSUME NEW n \in {1, 2, 4, 8}, Len(a) = n, VarintSize(b[1]) = n, Value(b, n) = v
        PROVE  readVarint(b) = [v |-> v, n |-> Len(a)]
    <3>1. b # <<>> /\ ~(Len(b) < n)
      BY <2>3, <2>5
    <3> QED  BY <2>5, <3>1 DEF readVarint
  <2>6. CASE v <= 63
    <3>1. a = <<v>>
      BY <2>1, <2>6 DEF appendVarint
    <3>2. Len(a) = 1 /\ b[1] = v
      BY <2>3, <3>1
    <3>3. VarintSize(b[1]) = 1 /\ b[1] % 64 = v
      <4>1. v \in 0 .. 63
        BY <2>4, <2>6
      <4> QED  BY <3>2, <4>1, <1>Size1, Zenon
    <3>4. Value(b, 1) = v
      BY <3>3, <1>Value1, SMT
    <3> QED  BY <2>5, <3>2, <3>3, <3>4
  <2>7. CASE ~(v <= 63) /\ v <= 16383
    <3>1. PICK x \in Octet, y \in Octet : x = Byte(v, 1) /\ y = Byte(v, 0)
      BY <2>4, ByteRange
    <3>2. Shifted(x, y) = v
      BY <2>4, <2>7, <3>1, TwoDigits, SMT
    <3>0. x < 64
      BY <2>4, <2>7, <3>1, TwoDigits
    <3>3. a = <<64 + x, y>>
      BY <2>1, <2>7, <3>1 DEF appendVarint
    <3>4. Len(a) = 2 /\ b[1] = 64 + x /\ b[2] = y
      BY <2>3, <3>3
    <3>5. VarintSize(b[1]) = 2 /\ b[1] % 64 = x
      BY <3>0, <3>4, <1>Size2
    <3>6. Value(b, 2) = v
      BY <3>2, <3>4, <3>5, <1>Value2, SMTT(60)
    <3> QED  BY <2>5, <3>4, <3>5, <3>6
  <2>8. CASE ~(v <= 63) /\ ~(v <= 16383) /\ v <= Max4
    <3>1. PICK x \in Octet, y \in Octet, z \in Octet, w \in Octet :
            x = Byte(v, 3) /\ y = Byte(v, 2) /\ z = Byte(v, 1) /\ w = Byte(v, 0)
      BY <2>4, ByteRange
    <3>2. Shifted(Shifted(Shifted(x, y), z), w) = v
      BY <2>4, <2>8, <3>1, FourDigits, SMT
    <3>0. x < 64
      BY <2>4, <2>8, <3>1, FourDigits, SMT
    <3>3. a = <<128 + x, y, z, w>>
      BY <2>1, <2>8, <3>1 DEF appendVarint, Word
    <3>4. Len(a) = 4 /\ b[1] = 128 + x /\ b[2] = y /\ b[3] = z /\ b[4] = w
      BY <2>3, <3>3
    <3>5. VarintSize(b[1]) = 4 /\ b[1] % 64 = x
      BY <3>0, <3>4, <1>Size4, ZenonT(60)
    <3>6. Value(b, 4) = v
      BY <3>2, <3>4, <3>5, <1>Value4
    <3> QED  BY <2>5, <3>4, <3>5, <3>6
  <2>9. CASE ~(v <= 63) /\ ~(v <= 16383) /\ ~(v <= Max4)
    <3>1. PICK x \in Octet, y \in Octet, z \in Octet, w \in Octet :
            x = Byte(h, 3) /\ y = Byte(h, 2) /\ z = Byte(h, 1) /\ w = Byte(h, 0)
      BY ByteRange
    <3>2. PICK p \in Octet, q \in Octet, r \in Octet, s \in Octet :
            p = Byte(v, 3) /\ q = Byte(v, 2) /\ r = Byte(v, 1) /\ s = Byte(v, 0)
      BY <2>4, ByteRange
    <3>3. Shifted(Shifted(Shifted(x, y), z), w) = h
      BY <2>4, <3>1, FourDigits
    <3>0. x < 64
      BY <2>4, <3>1, FourDigits
    <3>4. Shifted(Shifted(Shifted(Shifted(h, p), q), r), s) = v
      BY <2>4, <3>2, <1>EightDigits
    <3>5. PICK c \in Seq(Octet), d \in Seq(Octet) :
            c = <<192 + x, y, z, w>> /\ d = <<0 + p, q, r, s>>
      <4>0. 192 + x \in Octet /\ 0 + p \in Octet
        BY <3>0, SMTT(60) DEF Octet
      <4>1. <<192 + x, y, z, w>> \in Seq(Octet)
        BY <4>0
      <4>2. <<0 + p, q, r, s>> \in Seq(Octet)
        BY <4>0
      <4> QED  BY <4>1, <4>2, ZenonT(60)
    <3>6. /\ Len(a) = 8 /\ a[1] = 192 + x
          /\ a[2] = y /\ a[3] = z /\ a[4] = w /\ a[5] = p /\ a[6] = q /\ a[7] = r /\ a[8] = s
      <4>1. Word(192, h) = c /\ Word(0, v) = d
        BY <3>1, <3>2, <3>5, SMT DEF Word
      <4>2. a = c \o d
        <5>1. appendVarint(v) = Word(192, High(v)) \o Word(0, v)
          BY <2>9, SMTT(60) DEF appendVarint
        <5> QED  BY <2>1, <2>4, <4>1, <5>1, Zenon
      <4>3. /\ Len(c) = 4 /\ c[1] = 192 + x /\ c[2] = y /\ c[3] = z /\ c[4] = w
            /\ Len(d) = 4 /\ d[1] = p /\ d[2] = q /\ d[3] = r /\ d[4] = s
        BY <3>5, SMT DEF Octet
      <4>4. /\ Len(a) = Len(c) + Len(d)
            /\ \A i \in 1 .. Len(c) + Len(d) : a[i] = IF i <= Len(c) THEN c[i] ELSE d[i - Len(c)]
        BY <4>2
      <4> QED  BY <4>3, <4>4
    <3>7. /\ b[1] = 192 + x /\ b[2] = y /\ b[3] = z /\ b[4] = w
          /\ b[5] = p /\ b[6] = q /\ b[7] = r /\ b[8] = s
      BY <2>3, <3>6
    <3>8. VarintSize(b[1]) = 8 /\ b[1] % 64 = x
      BY <3>0, <3>7, <1>Size8, ZenonT(60)
    <3>9. Value(b, 8) = v
      BY <3>3, <3>4, <3>7, <3>8, <1>Value8, Zenon
    <3> QED  BY <2>5, <3>6, <3>8, <3>9
  <2> QED  BY <2>6, <2>7, <2>8, <2>9
<1> QED  BY <1>VarintRead, Zenon

\* The two parts of a concatenation.
LEMMA FrontTaken == ASSUME NEW s \in Seq(Octet), NEW t \in Seq(Octet) PROVE SubSeq(s \o t, 1, Len(s)) = s
<1>1. CASE s = <<>>
  <2>1. Len(s) < 1 /\ Len(s) \in Int
    BY <1>1
  <2> QED  OBVIOUS
<1>2. CASE s # <<>>
  <2>1. 1 \in 1 .. Len(s) /\ Len(s) \in 1 .. Len(s)
    BY <1>2
  <2>2. SubSeq(s \o t, 1, Len(s)) = SubSeq(s, 1, Len(s))
    OBVIOUS
  <2> QED  OBVIOUS
<1> QED  OBVIOUS

\* What follows the front.
LEMMA BackTaken ==
  ASSUME NEW s \in Seq(Octet), NEW t \in Seq(Octet)
  PROVE  SubSeq(s \o t, Len(s) + 1, Len(s \o t)) = t
<1>1. Len(s \o t) = Len(s) + Len(t) /\ Len(s) \in Nat /\ Len(t) \in Nat
  OBVIOUS
<1>2. CASE t = <<>>
  <2>1. Len(s \o t) < Len(s) + 1 /\ Len(s \o t) \in Int /\ Len(s) + 1 \in Int
    BY <1>2
  <2> QED  OBVIOUS
<1>3. CASE t # <<>>
  <2>0. Len(t) > 0
    BY <1>3
  <2> HIDE <1>3
  <2>1. PICK m \in Len(s) + 1 .. Len(s) + Len(t), n \in Len(s) + 1 .. Len(s) + Len(t) :
          m = Len(s) + 1 /\ n = Len(s) + Len(t) /\ m - Len(s) = 1 /\ n - Len(s) = Len(t)
    <3> DEFINE x == Len(s)  y == Len(t)
    <3> HIDE DEF x, y
    <3>1. x \in Nat /\ y \in Nat /\ y > 0
      BY <2>0 DEF x, y
    <3>2. x + 1 \in x + 1 .. x + y /\ x + y \in x + 1 .. x + y /\ (x + 1) - x = 1 /\ (x + y) - x = y
      BY <3>1
    <3> QED  BY <3>2 DEF x, y
  <2>2. SubSeq(s \o t, m, n) = SubSeq(t, m - Len(s), n - Len(s))
    OBVIOUS
  <2>3. SubSeq(t, m - Len(s), n - Len(s)) = t
    BY <2>1
  <2> QED  BY <1>1, <2>1, <2>2, <2>3, Zenon
<1> QED  OBVIOUS

\* The length of an integer, which grows with it.
LEMMA VarintLength ==
  ASSUME NEW v \in Varint
  PROVE  Len(appendVarint(v)) = IF v <= 63 THEN 1 ELSE IF v <= 16383 THEN 2 ELSE IF v <= Max4 THEN 4 ELSE 8
<1>1. Len(Word(192, High(v)) \o Word(0, v)) = 8
  BY DEF Word
<1>2. Len(Word(128, v)) = 4
  BY DEF Word
<1>3. CASE v <= 63
  BY <1>3 DEF appendVarint
<1>4. CASE ~(v <= 63) /\ v <= 16383
  BY <1>4 DEF appendVarint
<1>5. CASE ~(v <= 63) /\ ~(v <= 16383) /\ v <= Max4
  BY <1>2, <1>5 DEF appendVarint
<1>6. CASE ~(v <= 63) /\ ~(v <= 16383) /\ ~(v <= Max4)
  BY <1>1, <1>6 DEF appendVarint
<1> QED  BY <1>3, <1>4, <1>5, <1>6

\* No integer is written as nothing.
LEMMA VarintSizes == ASSUME NEW v \in Varint PROVE Len(appendVarint(v)) \in Nat \ {0}
<1> DEFINE n == Len(appendVarint(v))
<1>1. n = IF v <= 63 THEN 1 ELSE IF v <= 16383 THEN 2 ELSE IF v <= Max4 THEN 4 ELSE 8
  BY VarintLength
<1> HIDE DEF n
<1>2. n \in Nat \ {0}
  BY <1>1
<1> QED  BY <1>2 DEF n

\* Concatenation, regrouped.
LEMMA Associative ==
  ASSUME NEW s \in Seq(Octet), NEW t \in Seq(Octet), NEW u \in Seq(Octet)
  PROVE  (s \o t) \o u = s \o (t \o u)
BY SMTT(60)

\* The three parts of a frame and what follows it.
LEMMA Reassociated ==
  ASSUME NEW a \in Seq(Octet), NEW l \in Seq(Octet), NEW p \in Seq(Octet), NEW rest \in Seq(Octet)
  PROVE  ((a \o l) \o p) \o rest = a \o (l \o (p \o rest))
<1> DEFINE Cat(s, t) == s \o t
<1>1. \A s, t, u \in Seq(Octet) : Cat(Cat(s, t), u) = Cat(s, Cat(t, u))
  BY Associative
<1>2. \A s, t \in Seq(Octet) : Cat(s, t) \in Seq(Octet)
  OBVIOUS
<1>3. Cat(Cat(Cat(a, l), p), rest) = Cat(a, Cat(l, Cat(p, rest)))
  <2> HIDE DEF Cat
  <2> QED  BY <1>1, <1>2, SMTT(60)
<1> QED  BY <1>3

\* A frame as h3wsStream.Write puts it on the stream is read by h3wsStream.Read and
\* h3ReadResponseHeaders (ws_h3.go) as its type and its payload, of any length a
\* 62-bit integer can state and whatever its bytes, and exactly what followed it is
\* left for the next call.
THEOREM FramesRead ==
  ASSUME NEW type \in Varint, NEW p \in Seq(Octet), Len(p) \in Varint, NEW rest \in Seq(Octet)
  PROVE  FrameAt(Frame(type, p) \o rest) = [ok |-> TRUE, type |-> type, payload |-> p, rest |-> rest]
<1>1. PICK a \in Seq(Octet) : a = appendVarint(type)
  BY VarintBytes
<1>2. PICK n \in Varint : n = Len(p)
  OBVIOUS
<1>3. PICK l \in Seq(Octet) : l = appendVarint(n)
  BY VarintBytes
<1>4. PICK body \in Seq(Octet) : body = p \o rest
  BY ConcatProperties, Zenon
<1>5. PICK tail \in Seq(Octet) : tail = l \o body
  BY ConcatProperties, Zenon
<1>6. PICK b \in Seq(Octet) : b = a \o tail
  BY ConcatProperties, Zenon
<1>7. Frame(type, p) \o rest = b
  <2> DEFINE Same(w, x, y, z) == ((w \o x) \o y) \o z = w \o (x \o (y \o z))
  <2>1. \A w, x, y, z \in Seq(Octet) : Same(w, x, y, z)
    BY Reassociated, Zenon
  <2>2. Same(a, l, p, rest)
    <3> HIDE DEF Same
    <3> QED  BY <2>1
  <2> QED  BY <1>1, <1>2, <1>3, <1>4, <1>5, <1>6, <2>2 DEF Frame
<1>8. readVarint(b) = [v |-> type, n |-> Len(a)] /\ readVarint(tail) = [v |-> n, n |-> Len(l)]
  BY <1>1, <1>3, <1>5, <1>6, VarintRead, Zenon
<1>9. SubSeq(b, Len(a) + 1, Len(b)) = tail /\ SubSeq(tail, Len(l) + 1, Len(tail)) = body
  BY <1>5, <1>6, BackTaken, Zenon
<1>10. SubSeq(body, 1, n) = p /\ SubSeq(body, n + 1, Len(body)) = rest
  BY <1>2, <1>4
<1>11. Len(a) # 0 /\ Len(l) # 0 /\ ~(Len(body) < n)
  <2>1. Len(a) \in Nat \ {0} /\ Len(l) \in Nat \ {0}
    BY <1>1, <1>3, VarintSizes
  <2>2. Len(body) = n + Len(rest)
    BY <1>2, <1>4
  <2>3. n \in Nat /\ Len(rest) \in Nat
    BY <1>2
  <2>4. Len(a) # 0 /\ Len(l) # 0
    BY <2>1
  <2>5. ASSUME NEW x \in Nat, NEW y \in Nat, Len(body) = x + y PROVE ~(Len(body) < x)
    BY <2>5
  <2> QED  BY <2>2, <2>3, <2>4
<1>12. FrameAt(b) = [ok |-> TRUE, type |-> type, payload |-> p, rest |-> rest]
  <2>1. /\ readVarint(b).v = type /\ readVarint(b).n = Len(a)
        /\ readVarint(tail).v = n /\ readVarint(tail).n = Len(l)
    BY <1>8
  <2> QED  BY <1>9, <1>10, <1>11, <2>1, ZenonT(60) DEF FrameAt
<1> QED  BY <1>7, <1>12

\* IntegersAgree, from VarintRead.
THEOREM IntegersRead == IntegersAgree
<1> SUFFICES ASSUME NEW v \in Integer, NEW w \in Integer
             PROVE  /\ readVarint(appendVarint(v) \o appendVarint(w)) = [v |-> v, n |-> Len(appendVarint(v))]
                    /\ v < w => Len(appendVarint(v)) <= Len(appendVarint(w))
  BY DEF IntegersAgree
<1>1. v \in Varint /\ w \in Varint
  BY H3Assumption
<1>2. appendVarint(w) \in Seq(Octet)
  BY <1>1, VarintBytes
<1>3. readVarint(appendVarint(v) \o appendVarint(w)) = [v |-> v, n |-> Len(appendVarint(v))]
  BY <1>1, <1>2, VarintRead
<1>4. ASSUME v < w PROVE Len(appendVarint(v)) <= Len(appendVarint(w))
  <2> DEFINE SizeOf(x) == IF x <= 63 THEN 1 ELSE IF x <= 16383 THEN 2 ELSE IF x <= Max4 THEN 4 ELSE 8
  <2>1. \A x \in Varint : Len(appendVarint(x)) = SizeOf(x)
    BY VarintLength
  <2>2. SizeOf(v) <= SizeOf(w)
    <3>1. v \in Nat /\ w \in Nat
      BY <1>1 DEF Varint
    <3> QED  BY <1>4, <3>1 DEF Max4
  <2> HIDE DEF SizeOf
  <2> QED  BY <1>1, <2>1, <2>2, Zenon
<1> QED  BY <1>3, <1>4, Zenon

-----------------------------------------------------------------------------
(* Loops.  Loop is a recursive function of the number of passes.           *)

\* The states in which a loop ends after at most k passes, given those for k - 1.
Layer(body, k, shorter) ==
  [x \in DOMAIN body |-> IF k = 0 \/ body[x] = x THEN x ELSE shorter[body[x]]]

Runs(f, body, n) == f = [k \in 0 .. n |-> Layer(body, k, f[k - 1])]

\* The layers exist for every number of passes.
LEMMA RunsExist ==
  ASSUME NEW body
  PROVE  \A n \in Nat : \E f : Runs(f, body, n)
<1> DEFINE S == {n \in Nat : \E f : Runs(f, body, n)}
<1>1. 0 \in S
  <2> DEFINE f == [k \in 0 .. 0 |-> Layer(body, 0, 0)]
  <2>1. Layer(body, 0, 0) = Layer(body, 0, f[0 - 1])
    BY DEF Layer
  <2>2. Runs(f, body, 0)
    BY <2>1 DEF Runs
  <2> QED  BY <2>2
<1>2. ASSUME NEW n \in S PROVE n + 1 \in S
  <2>1. n \in Nat /\ n + 1 \in Nat
    OBVIOUS
  <2>2. PICK f : Runs(f, body, n)
    OBVIOUS
  <2> DEFINE g == [k \in 0 .. n + 1 |-> IF k = n + 1 THEN Layer(body, k, f[n]) ELSE f[k]]
  <2>3. ASSUME NEW k \in 0 .. n + 1 PROVE g[k] = Layer(body, k, g[k - 1])
    <3>1. CASE k = n + 1
      <4>1. k - 1 = n /\ n \in 0 .. n + 1 /\ n # n + 1
        BY <3>1
      <4>2. g[k] = Layer(body, k, f[n]) /\ g[k - 1] = f[n]
        BY <3>1
      <4> QED  BY <4>2
    <3>2. CASE k \in 1 .. n
      <4>1. k # n + 1 /\ k - 1 \in 0 .. n + 1 /\ k - 1 # n + 1 /\ k \in 0 .. n
        BY <3>2
      <4>2. g[k] = f[k] /\ g[k - 1] = f[k - 1]
        BY <4>1
      <4>3. f[k] = Layer(body, k, f[k - 1])
        BY <2>2, <4>1 DEF Runs
      <4> QED  BY <4>2, <4>3
    <3>3. CASE k = 0
      <4>1. k # n + 1 /\ k \in 0 .. n
        BY <3>3
      <4>2. g[k] = f[k] /\ f[k] = Layer(body, k, f[k - 1])
        BY <2>2, <4>1 DEF Runs
      <4>3. Layer(body, k, f[k - 1]) = Layer(body, k, g[k - 1])
        BY DEF Layer
      <4> QED  BY <4>2, <4>3
    <3> QED  BY <2>1, <3>2, <3>3
  <2>4. Runs(g, body, n + 1)
    BY <2>3 DEF Runs
  <2> QED  BY <2>4
<1>3. S = Nat
  <2> HIDE DEF S
  <2>1. S \in SUBSET Nat
    BY DEF S
  <2> QED  BY <1>1, <1>2, <2>1, Induction
<1> QED  BY <1>3

\* They do not depend on how many there are.
LEMMA RunsUnique ==
  ASSUME NEW body, NEW f, NEW g, NEW m \in Nat, NEW n \in Nat, Runs(f, body, m), Runs(g, body, n)
  PROVE  \A k \in Nat : k <= m /\ k <= n => f[k] = g[k]
<1> DEFINE S == {k \in Nat : k <= m /\ k <= n => f[k] = g[k]}
<1>1. 0 \in S
  <2>1. f[0] = Layer(body, 0, f[0 - 1]) /\ g[0] = Layer(body, 0, g[0 - 1])
    BY SMTT(30) DEF Runs
  <2>2. f[0] = g[0]
    BY <2>1 DEF Layer
  <2> QED  BY <2>2
<1>2. ASSUME NEW k \in S PROVE k + 1 \in S
  <2> SUFFICES ASSUME k + 1 <= m, k + 1 <= n PROVE f[k + 1] = g[k + 1]
    OBVIOUS
  <2>1. k \in Nat /\ k + 1 \in 0 .. m /\ k + 1 \in 0 .. n /\ (k + 1) - 1 = k
    OBVIOUS
  <2>2. f[k] = g[k]
    OBVIOUS
  <2>3. f[k + 1] = Layer(body, k + 1, f[(k + 1) - 1]) /\ g[k + 1] = Layer(body, k + 1, g[(k + 1) - 1])
    BY DEF Runs
  <2> QED  BY <2>3
<1>3. S = Nat
  <2> HIDE DEF S
  <2>1. S \in SUBSET Nat
    BY DEF S
  <2> QED  BY <1>1, <1>2, <2>1, Induction
<1> QED  BY <1>3

\* Loop is the last layer.
LEMMA LoopRuns ==
  ASSUME NEW body, NEW s, NEW n \in Nat
  PROVE  \E f : Runs(f, body, n) /\ Loop(body, s, n) = f[n][s]
<1> DEFINE from == CHOOSE f : f = [k \in 0 .. n |->
                     [x \in DOMAIN body |-> IF k = 0 \/ body[x] = x THEN x ELSE f[k - 1][body[x]]]]
<1>1. \E f : Runs(f, body, n)
  BY RunsExist
<1>2. Runs(from, body, n)
  BY <1>1, Zenon DEF Runs, Layer
<1>3. Loop(body, s, n) = from[n][s]
  BY DEF Loop
<1> QED  BY <1>2, <1>3, Zenon

\* No pass leaves the state alone.
LEMMA LoopEnd ==
  ASSUME NEW body, NEW s \in DOMAIN body
  PROVE  Loop(body, s, 0) = s
<1>1. PICK f : Runs(f, body, 0) /\ Loop(body, s, 0) = f[0][s]
  BY LoopRuns
<1>2. f[0] = Layer(body, 0, f[0 - 1])
  BY <1>1 DEF Runs
<1> QED  BY <1>1, <1>2 DEF Layer

\* A loop whose body changes nothing has ended.
LEMMA LoopStays ==
  ASSUME NEW body, NEW s \in DOMAIN body, body[s] = s, NEW n \in Nat
  PROVE  Loop(body, s, n) = s
<1>1. PICK f : Runs(f, body, n) /\ Loop(body, s, n) = f[n][s]
  BY LoopRuns
<1>2. f[n] = Layer(body, n, f[n - 1])
  BY <1>1 DEF Runs
<1> QED  BY <1>1, <1>2 DEF Layer

\* The first pass.
LEMMA LoopNext ==
  ASSUME NEW body, NEW s \in DOMAIN body, NEW n \in Nat
  PROVE  Loop(body, s, n + 1) = Loop(body, body[s], n)
<1>1. CASE body[s] = s
  <2>1. Loop(body, s, n + 1) = s /\ Loop(body, s, n) = s
    BY <1>1, LoopStays
  <2> QED  BY <1>1, <2>1
<1>2. CASE body[s] # s
  <2>1. PICK f : Runs(f, body, n + 1) /\ Loop(body, s, n + 1) = f[n + 1][s]
    BY LoopRuns
  <2>2. PICK g : Runs(g, body, n) /\ Loop(body, body[s], n) = g[n][body[s]]
    BY LoopRuns
  <2>3. n + 1 \in Nat /\ n + 1 \in 0 .. n + 1 /\ (n + 1) - 1 = n /\ n + 1 # 0 /\ n <= n + 1 /\ n <= n
    OBVIOUS
  <2>4. f[n] = g[n]
    BY <2>1, <2>2, RunsUnique
  <2>5. f[n + 1] = Layer(body, n + 1, f[(n + 1) - 1])
    BY <2>1 DEF Runs
  <2>6. f[n + 1][s] = f[(n + 1) - 1][body[s]]
    BY <1>2, <2>5 DEF Layer
  <2> QED  BY <2>1, <2>2, <2>3, <2>4, <2>6
<1> QED  BY <1>1, <1>2

\* A path along which the body takes the state.
Leads(body, path, m) ==
  /\ \A i \in 0 .. m : path[i] \in DOMAIN body
  /\ \A i \in 0 .. m - 1 : body[path[i]] = path[i + 1]

\* The loop ends at the end of the path when the state stays there, or when the path
\* takes all the passes.
LEMMA LoopArrives ==
  ASSUME NEW body, NEW path, NEW m \in Nat, Leads(body, path, m), NEW n \in Nat, m <= n,
         body[path[m]] = path[m] \/ m = n
  PROVE  Loop(body, path[0], n) = path[m]
<1> DEFINE K == {k \in Nat : k <= m => Loop(body, path[0], n) = Loop(body, path[k], n - k)}
<1>0. /\ \A i \in 0 .. m : path[i] \in DOMAIN body
      /\ \A i \in 0 .. m - 1 : body[path[i]] = path[i + 1]
  BY DEF Leads
<1>1. 0 \in K
  <2>1. n - 0 = n
    OBVIOUS
  <2> QED  OBVIOUS
<1>2. ASSUME NEW k \in K PROVE k + 1 \in K
  <2> SUFFICES ASSUME k + 1 <= m
               PROVE  Loop(body, path[0], n) = Loop(body, path[k + 1], n - (k + 1))
    OBVIOUS
  <2>1. /\ k \in Nat /\ k <= m /\ k \in 0 .. m - 1 /\ k \in 0 .. m
        /\ n - (k + 1) \in Nat /\ (n - (k + 1)) + 1 = n - k
    OBVIOUS
  <2>2. Loop(body, path[0], n) = Loop(body, path[k], n - k)
    OBVIOUS
  <2>3. path[k] \in DOMAIN body /\ body[path[k]] = path[k + 1]
    BY <1>0
  <2>4. Loop(body, path[k], (n - (k + 1)) + 1) = Loop(body, body[path[k]], n - (k + 1))
    BY <2>3, LoopNext
  <2> QED  BY <2>2, <2>3, <2>4
<1>3. K = Nat
  <2> HIDE DEF K
  <2>1. K \in SUBSET Nat
    BY DEF K
  <2> QED  BY <1>1, <1>2, <2>1, Induction
<1>4. m <= m /\ n - m \in Nat
  OBVIOUS
<1>5. Loop(body, path[0], n) = Loop(body, path[m], n - m)
  BY <1>3
<1>6. path[m] \in DOMAIN body
  BY <1>0
<1>7. CASE body[path[m]] = path[m]
  BY <1>5, <1>6, <1>7, LoopStays
<1>8. CASE m = n
  <2>1. n - m = 0
    BY <1>8
  <2> QED  BY <1>5, <1>6, <2>1, LoopEnd
<1> QED  BY <1>7, <1>8

-----------------------------------------------------------------------------
(* Blocks of bytes, one after the other.                                   *)

\* A block of bytes.
Block == Seq(Octet)

\* f[i] has the first i of the sequences ss.
Joins(f, ss, n) == f = [i \in 0 .. n |-> IF i = 0 THEN <<>> ELSE f[i - 1] \o ss[i]]

\* Such a function exists, for every number of sequences.
LEMMA JoinsExist ==
  ASSUME NEW ss
  PROVE  \A n \in Nat : \E f : Joins(f, ss, n)
<1> DEFINE S == {n \in Nat : \E f : Joins(f, ss, n)}
           Cat(x, y) == x \o y
<1>1. 0 \in S
  <2> DEFINE f == [i \in 0 .. 0 |-> <<>>]
  <2>1. f = [i \in 0 .. 0 |-> IF i = 0 THEN <<>> ELSE Cat(f[i - 1], ss[i])]
    <3> HIDE DEF Cat
    <3> QED  OBVIOUS
  <2>2. Joins(f, ss, 0)
    BY DEF Joins
  <2> QED  BY <2>2
<1>2. ASSUME NEW n \in S PROVE n + 1 \in S
  <2>1. n \in Nat /\ n + 1 \in Nat
    OBVIOUS
  <2>2. PICK f : Joins(f, ss, n)
    OBVIOUS
  <2>3. f = [i \in 0 .. n |-> IF i = 0 THEN <<>> ELSE Cat(f[i - 1], ss[i])]
    BY <2>2 DEF Joins
  <2> DEFINE g == [i \in 0 .. n + 1 |-> IF i = n + 1 THEN Cat(f[n], ss[n + 1]) ELSE f[i]]
  <2>4. ASSUME NEW i \in 0 .. n + 1 PROVE g[i] = IF i = 0 THEN <<>> ELSE Cat(g[i - 1], ss[i])
    <3> HIDE DEF Cat
    <3>1. CASE i = n + 1
      <4>1. i # 0 /\ i - 1 = n /\ n \in 0 .. n + 1 /\ n # n + 1
        BY <3>1
      <4>2. g[i] = Cat(f[n], ss[i]) /\ g[i - 1] = f[n]
        BY <3>1
      <4> QED  BY <4>1
    <3>2. CASE i \in 0 .. n
      <4>1. i # n + 1 /\ (i # 0 => i - 1 \in 0 .. n + 1 /\ i - 1 # n + 1)
        BY <3>2
      <4>2. g[i] = f[i] /\ (i # 0 => g[i - 1] = f[i - 1])
        BY <4>1
      <4>3. f[i] = IF i = 0 THEN <<>> ELSE Cat(f[i - 1], ss[i])
        BY <2>3, <3>2
      <4> QED  BY <4>3
    <3> QED  BY <2>1, <3>2
  <2>5. g = [i \in 0 .. n + 1 |-> IF i = 0 THEN <<>> ELSE Cat(g[i - 1], ss[i])]
    <3> HIDE DEF Cat
    <3> QED  BY <2>4
  <2>6. Joins(g, ss, n + 1)
    BY <2>5, Zenon DEF Joins
  <2> QED  BY <2>6
<1>3. S = Nat
  <2> HIDE DEF S
  <2>1. S \in SUBSET Nat
    BY DEF S
  <2> QED  BY <1>1, <1>2, <2>1, Induction
<1> QED  BY <1>3

\* Joined is its last element.
LEMMA JoinedJoins ==
  ASSUME NEW ss, Len(ss) \in Nat
  PROVE  \E f : Joins(f, ss, Len(ss)) /\ Joined(ss) = f[Len(ss)]
<1> DEFINE joined == CHOOSE f : f = [i \in 0 .. Len(ss) |-> IF i = 0 THEN <<>> ELSE f[i - 1] \o ss[i]]
<1>1. \E f : Joins(f, ss, Len(ss))
  BY JoinsExist
<1>2. Joins(joined, ss, Len(ss))
  BY <1>1, Zenon DEF Joins
<1>3. Joined(ss) = joined[Len(ss)]
  BY DEF Joined
<1> QED  BY <1>2, <1>3, Zenon

\* Sequences that agree are joined alike.
LEMMA JoinsAgree ==
  ASSUME NEW ss, NEW tt, NEW f, NEW g, NEW m \in Nat, NEW n \in Nat, Joins(f, ss, m), Joins(g, tt, n),
         n <= m, \A i \in 1 .. n : ss[i] = tt[i]
  PROVE  f[n] = g[n]
<1> DEFINE S == {k \in Nat : k <= n => f[k] = g[k]}
           Cat(x, y) == x \o y
<1>0. /\ f = [i \in 0 .. m |-> IF i = 0 THEN <<>> ELSE Cat(f[i - 1], ss[i])]
      /\ g = [i \in 0 .. n |-> IF i = 0 THEN <<>> ELSE Cat(g[i - 1], tt[i])]
  BY DEF Joins
<1> HIDE DEF Cat
<1>1. 0 \in S
  BY <1>0
<1>2. ASSUME NEW k \in S PROVE k + 1 \in S
  <2> SUFFICES ASSUME k + 1 <= n PROVE f[k + 1] = g[k + 1]
    OBVIOUS
  <2>1. /\ k \in Nat /\ k + 1 \in 0 .. m /\ k + 1 \in 0 .. n /\ (k + 1) - 1 = k /\ k + 1 # 0
        /\ ss[k + 1] = tt[k + 1] /\ f[k] = g[k]
    OBVIOUS
  <2>2. f[k + 1] = Cat(f[(k + 1) - 1], ss[k + 1]) /\ g[k + 1] = Cat(g[(k + 1) - 1], tt[k + 1])
    BY <1>0
  <2> QED  BY <2>2
<1>3. S = Nat
  <2> HIDE DEF S
  <2>1. S \in SUBSET Nat
    BY DEF S
  <2> QED  BY <1>1, <1>2, <2>1, Induction
<1> QED  BY <1>3

\* Joined of nothing.
LEMMA JoinedEmpty == Joined(<<>>) = <<>>
<1>1. PICK f : Joins(f, <<>>, 0) /\ Joined(<<>>) = f[0]
  BY JoinedJoins
<1>2. f[0] = <<>>
  BY <1>1 DEF Joins
<1> QED  BY <1>1, <1>2

\* Joined, one sequence more.
LEMMA JoinedAppend ==
  ASSUME NEW ss \in Seq(Block), NEW s \in Block
  PROVE  Joined(Append(ss, s)) = Joined(ss) \o s
<1>1. PICK tt \in Seq(Block) : tt = Append(ss, s)
  <2>1. Append(ss, s) \in Seq(Block)
    OBVIOUS
  <2> QED  BY <2>1, Zenon
<1>2. PICK n \in Nat : n = Len(ss)
  OBVIOUS
<1>3. Len(tt) = n + 1 /\ (\A i \in 1 .. n : tt[i] = ss[i]) /\ tt[n + 1] = s
  BY <1>1, <1>2
<1>4. /\ n <= n + 1 /\ n + 1 \in Nat /\ n + 1 # 0 /\ (n + 1) - 1 = n
      /\ n + 1 \in 0 .. n + 1
  OBVIOUS
<1>5. PICK f : Joins(f, tt, n + 1) /\ Joined(tt) = f[n + 1]
  BY <1>3, JoinedJoins
<1>6. PICK g : Joins(g, ss, n) /\ Joined(ss) = g[n]
  BY <1>2, JoinedJoins, Zenon
<1>7. f[n + 1] = IF n + 1 = 0 THEN <<>> ELSE f[(n + 1) - 1] \o tt[n + 1]
  BY <1>4, <1>5, Zenon DEF Joins
<1>8. f[n] = g[n]
  BY <1>3, <1>5, <1>6, JoinsAgree
<1> QED  BY <1>1, <1>3, <1>4, <1>5, <1>6, <1>7, <1>8, Zenon

\* What the sequences i to j of g have.
Cut(g, i, j) == Joined(SubSeq(g, i, j))

\* A slice of blocks is of blocks.
LEMMA SliceTyped ==
  ASSUME NEW g \in Seq(Block), NEW i \in Nat \ {0}, NEW j \in Nat, j <= Len(g)
  PROVE  SubSeq(g, i, j) \in Seq(Block)
<1>1. \A k \in i .. j : g[k] \in Block
  OBVIOUS
<1> QED  OBVIOUS

\* No sequence is in the cut.
LEMMA CutEmpty ==
  ASSUME NEW g, NEW i \in Int, NEW j \in Int, j < i
  PROVE  Cut(g, i, j) = <<>>
<1>1. SubSeq(g, i, j) = <<>>
  OBVIOUS
<1> QED  BY <1>1, JoinedEmpty, Zenon DEF Cut

\* The last sequence of a cut.
LEMMA CutLast ==
  ASSUME NEW g \in Seq(Block), NEW i \in 1 .. Len(g), NEW j \in i .. Len(g)
  PROVE  Cut(g, i, j) = Cut(g, i, j - 1) \o g[j]
<1>1. /\ i \in Nat \ {0} /\ j - 1 \in Nat /\ j - 1 <= Len(g) /\ j \in 1 .. Len(g)
  OBVIOUS
<1>2. PICK s \in Seq(Block) : s = SubSeq(g, i, j - 1)
  BY <1>1, SliceTyped, Zenon
<1>3. PICK e \in Block : e = g[j]
  OBVIOUS
<1>4. SubSeq(g, i, j) = Append(s, e)
  <2>1. SubSeq(g, i, j) = SubSeq(g, i, j - 1) \o <<g[j]>>
    OBVIOUS
  <2>2. Append(s, e) = s \o <<e>>
    OBVIOUS
  <2> QED  BY <1>2, <1>3
<1> QED  BY <1>2, <1>3, <1>4, JoinedAppend, Zenon DEF Cut

\* A cut is a block.
LEMMA CutTyped ==
  ASSUME NEW g \in Seq(Block), NEW i \in 1 .. Len(g) + 1, NEW j \in i - 1 .. Len(g)
  PROVE  Cut(g, i, j) \in Block
<1> DEFINE S == {k \in Nat : (i - 1) + k <= Len(g) => Cut(g, i, (i - 1) + k) \in Block}
<1>0. Len(g) \in Nat
  OBVIOUS
<1>1. 0 \in S
  <2>1. (i - 1) + 0 = i - 1 /\ i - 1 \in Int /\ i \in Int /\ i - 1 < i
    OBVIOUS
  <2>2. Cut(g, i, (i - 1) + 0) = <<>>
    BY CutEmpty
  <2>3. <<>> \in Block
    BY DEF Block
  <2> QED  BY <2>2, <2>3
<1>2. ASSUME NEW k \in S PROVE k + 1 \in S
  <2> SUFFICES ASSUME (i - 1) + (k + 1) <= Len(g) PROVE Cut(g, i, (i - 1) + (k + 1)) \in Block
    OBVIOUS
  <2>1. PICK m \in i .. Len(g) : m = (i - 1) + (k + 1) /\ m - 1 = (i - 1) + k /\ m - 1 <= Len(g)
    OBVIOUS
  <2>2. PICK x \in Block : x = Cut(g, i, m - 1)
    BY <2>1
  <2>3. i \in 1 .. Len(g) /\ m \in 1 .. Len(g)
    OBVIOUS
  <2>4. Cut(g, i, m) = Cut(g, i, m - 1) \o g[m]
    BY <2>3, CutLast
  <2>5. PICK y \in Block : y = g[m]
    OBVIOUS
  <2>6. x \o y \in Block
    BY DEF Block
  <2> QED  BY <2>1, <2>2, <2>4, <2>5, <2>6, Zenon
<1>3. S = Nat
  <2> HIDE DEF S
  <2>1. S \in SUBSET Nat
    BY DEF S
  <2> QED  BY <1>1, <1>2, <2>1, Induction, SMTT(60)
<1>4. PICK k \in Nat : j = (i - 1) + k /\ (i - 1) + k <= Len(g)
  <2>1. j - (i - 1) \in Nat /\ j = (i - 1) + (j - (i - 1)) /\ (i - 1) + (j - (i - 1)) <= Len(g)
    OBVIOUS
  <2> QED  OBVIOUS
<1> QED  BY <1>3, <1>4, Zenon

\* The first sequence of a cut, which is the one a reader meets first.
LEMMA CutFirst ==
  ASSUME NEW g \in Seq(Block), NEW i \in 1 .. Len(g), NEW j \in i .. Len(g)
  PROVE  Cut(g, i, j) = g[i] \o Cut(g, i + 1, j)
<1> DEFINE S == {k \in Nat : i + k <= Len(g) => Cut(g, i, i + k) = g[i] \o Cut(g, i + 1, i + k)}
<1>0. Len(g) \in Nat
  OBVIOUS
<1>01. g[i] \in Block
  OBVIOUS
<1>1. 0 \in S
  <2>1. i + 0 = i /\ i - 1 \in Int /\ i \in Int /\ i + 1 \in Int /\ i - 1 < i /\ i < i + 1 /\ i \in i .. Len(g)
    OBVIOUS
  <2>2. Cut(g, i + 1, i) = <<>> /\ Cut(g, i, i - 1) = <<>>
    BY CutEmpty
  <2>3. Cut(g, i, i) = Cut(g, i, i - 1) \o g[i]
    BY <2>1, CutLast
  <2>4. <<>> \o g[i] = g[i] /\ g[i] \o <<>> = g[i]
    BY DEF Block
  <2>5. Cut(g, i, i) = g[i] \o Cut(g, i + 1, i)
    BY <2>2, <2>3, <2>4, Zenon
  <2> QED  BY <2>1, <2>5
<1>2. ASSUME NEW k \in S PROVE k + 1 \in S
  <2>0. k \in Nat /\ k + 1 \in Nat
    OBVIOUS
  <2> SUFFICES ASSUME i + (k + 1) <= Len(g) PROVE Cut(g, i, i + (k + 1)) = g[i] \o Cut(g, i + 1, i + (k + 1))
    BY <2>0, Zenon
  <2>1. PICK m \in i .. Len(g) : m = i + (k + 1) /\ m - 1 = i + k /\ m - 1 <= Len(g)
    OBVIOUS
  <2>2. Cut(g, i, m - 1) = g[i] \o Cut(g, i + 1, m - 1)
    BY <2>1
  <2>3. /\ m \in 1 .. Len(g) /\ i + 1 \in 1 .. Len(g) /\ m \in i + 1 .. Len(g)
        /\ i + 1 \in 1 .. Len(g) + 1 /\ m - 1 \in (i + 1) - 1 .. Len(g)
    BY <2>1
  <2>4. Cut(g, i, m) = Cut(g, i, m - 1) \o g[m]
    BY <2>3, CutLast
  <2>5. Cut(g, i + 1, m) = Cut(g, i + 1, m - 1) \o g[m]
    BY <2>3, CutLast
  <2>6. PICK x \in Block : x = Cut(g, i + 1, m - 1)
    BY <2>3, CutTyped
  <2>7. g[m] \in Block
    OBVIOUS
  <2>8. (g[i] \o x) \o g[m] = g[i] \o (x \o g[m])
    BY <1>01, <2>7, Associative, Zenon DEF Block
  <2>9. Cut(g, i, m) = g[i] \o Cut(g, i + 1, m)
    BY <2>2, <2>4, <2>5, <2>6, <2>8, Zenon
  <2> QED  BY <2>1, <2>9, Zenon
<1>3. S = Nat
  <2> HIDE DEF S
  <2>1. S \in SUBSET Nat
    BY DEF S
  <2> QED  BY <1>1, <1>2, <2>1, Induction
<1>4. PICK k \in Nat : j = i + k /\ i + k <= Len(g)
  <2>1. j - i \in Nat /\ j = i + (j - i) /\ i + (j - i) <= Len(g)
    OBVIOUS
  <2> QED  OBVIOUS
<1> QED  BY <1>3, <1>4, Zenon

\* Each of the sequences has a byte at least.
LEMMA CutLong ==
  ASSUME NEW g \in Seq(Block), \A i \in 1 .. Len(g) : g[i] # <<>>
  PROVE  Len(Cut(g, 1, Len(g))) >= Len(g)
<1> DEFINE S == {k \in Nat : k <= Len(g) => Len(Cut(g, 1, k)) >= k}
<1>0. Len(g) \in Nat
  OBVIOUS
<1>1. 0 \in S
  <2>1. Cut(g, 1, 0) = <<>>
    BY CutEmpty
  <2> QED  OBVIOUS
<1>2. ASSUME NEW k \in S PROVE k + 1 \in S
  <2> SUFFICES ASSUME k + 1 <= Len(g) PROVE Len(Cut(g, 1, k + 1)) >= k + 1
    OBVIOUS
  <2>1. PICK m \in 1 .. Len(g) : m = k + 1 /\ m - 1 = k
    OBVIOUS
  <2>2. 1 \in 1 .. Len(g) /\ k \in 1 - 1 .. Len(g) /\ 1 \in 1 .. Len(g) + 1
    OBVIOUS
  <2>3. PICK x \in Block : x = Cut(g, 1, k) /\ Len(x) >= k
    BY <2>1, CutTyped
  <2>4. PICK y \in Block : y = g[m] /\ Len(y) \in Nat \ {0}
    BY SMTT(60) DEF Block
  <2>5. Cut(g, 1, m) = x \o y
    BY <2>1, <2>2, <2>3, <2>4, CutLast
  <2>6. Len(x \o y) = Len(x) + Len(y) /\ Len(x) \in Nat
    BY DEF Block
  <2>7. Len(x) + Len(y) >= k + 1
    BY <2>3, <2>4, <2>6
  <2> QED  BY <2>1, <2>5, <2>7
<1>3. S = Nat
  <2> HIDE DEF S
  <2>1. S \in SUBSET Nat
    BY DEF S
  <2> QED  BY <1>1, <1>2, <2>1, Induction
<1> QED  BY <1>3

\* The cut of all of them.
LEMMA CutAll == ASSUME NEW g \in Seq(Block) PROVE Cut(g, 1, Len(g)) = Joined(g)
<1>1. SubSeq(g, 1, Len(g)) = g
  OBVIOUS
<1> QED  BY <1>1, Zenon DEF Cut

-----------------------------------------------------------------------------
(* A stream of frames.                                                     *)

\* Nothing is read from an empty stream.
LEMMA NothingRead == readVarint(<<>>).n = 0
<1>1. Len(<<>>) < 1
  OBVIOUS
<1>2. readVarint(<<>>) = [v |-> 0, n |-> 0]
  BY DEF readVarint
<1> QED  BY <1>2

\* The states of the three loops of ws_h3.go.
Reading   == [got : Block, rest : Block]

Answering == [found : BOOLEAN, block : Block, rest : Block]

Enabling  == [enabled : BOOLEAN, rest : Block]

\* Frames whose lengths can be written.
FrameSeq == {fs \in Seq(Varint \X Block) : \A i \in DOMAIN fs : Len(fs[i][2]) \in Varint}

\* The bytes of each frame.
Wire(fs) == [i \in DOMAIN fs |-> Frame(fs[i][1], fs[i][2])]

\* FramesAgree, from AnswerRead and DataRead.
THEOREM FramesReadBack == FramesAgree
\* Nor a frame.
<1>NoFrame. FrameAt(<<>>).ok = FALSE
  <2>1. FrameAt(<<>>) = [ok |-> FALSE]
    BY NothingRead DEF FrameAt
  <2> QED  BY <2>1
\* The types of their parts.
<1>FrameSeqTyped. ASSUME NEW fs \in FrameSeq
                  PROVE  /\ Len(fs) \in Nat /\ DOMAIN fs = 1 .. Len(fs)
                         /\ \A i \in 1 .. Len(fs) : fs[i][1] \in Varint /\ fs[i][2] \in Block /\ Len(fs[i][2]) \in Varint
  <2>1. fs \in Seq(Varint \X Block)
    BY DEF FrameSeq
  <2>2. Len(fs) \in Nat /\ DOMAIN fs = 1 .. Len(fs)
    OBVIOUS
  <2>3. ASSUME NEW i \in 1 .. Len(fs) PROVE fs[i] \in Varint \X Block
    BY <2>1
  <2> QED  BY DEF FrameSeq
\* A frame is written as a block that is not empty.
<1>FrameBytes. ASSUME NEW type \in Varint, NEW p \in Block, Len(p) \in Varint
               PROVE  Frame(type, p) \in Block /\ Frame(type, p) # <<>>
  <2> USE <1>FrameBytes
  <2>1. PICK a \in Block : a = appendVarint(type) /\ Len(a) \in Nat \ {0}
    BY VarintBytes, VarintSizes DEF Block
  <2>2. PICK l \in Block : l = appendVarint(Len(p))
    BY VarintBytes DEF Block
  <2>3. PICK al \in Block : al = a \o l /\ Len(al) = Len(a) + Len(l)
    BY ConcatProperties, Zenon DEF Block
  <2>4. PICK f \in Block : f = al \o p /\ Len(f) = Len(al) + Len(p)
    BY ConcatProperties, Zenon DEF Block
  <2>5. Frame(type, p) = f
    BY <2>1, <2>2, <2>3, <2>4 DEF Frame
  <2>6. Len(l) \in Nat /\ Len(p) \in Nat
    BY DEF Block
  <2>7. Len(f) # 0
    BY <2>1, <2>3, <2>4
  <2>8. f # <<>>
    BY <2>7
  <2> QED  BY <2>5, <2>8
\* So are all of them.
<1>WireTyped. ASSUME NEW fs \in FrameSeq
              PROVE  Wire(fs) \in Seq(Block) /\ Len(Wire(fs)) = Len(fs) /\ \A i \in 1 .. Len(fs) : Wire(fs)[i] # <<>>
  <2>1. PICK n \in Nat : n = Len(fs) /\ DOMAIN fs = 1 .. n
    BY <1>FrameSeqTyped
  <2>2. ASSUME NEW i \in 1 .. n PROVE Frame(fs[i][1], fs[i][2]) \in Block /\ Frame(fs[i][1], fs[i][2]) # <<>>
    BY <2>1, <1>FrameSeqTyped, <1>FrameBytes
  <2>3. PICK g : g = Wire(fs)
    OBVIOUS
  <2>4. g \in [1 .. n -> Block] /\ \A i \in 1 .. n : g[i] # <<>>
    BY <2>1, <2>2, <2>3, Zenon DEF Wire
  <2>5. g \in Seq(Block) /\ Len(g) = n
    BY <2>4
  <2> QED  BY <2>1, <2>3, <2>4
\* The payloads are blocks.
<1>PayloadsTyped. ASSUME NEW fs \in FrameSeq
                  PROVE  Payloads(fs) \in Seq(Block) /\ Len(Payloads(fs)) = Len(fs) /\ \A i \in 1 .. Len(fs) : Payloads(fs)[i] = fs[i][2]
  <2>1. PICK n \in Nat : n = Len(fs) /\ DOMAIN fs = 1 .. n
    BY <1>FrameSeqTyped
  <2>3. PICK g : g = Payloads(fs)
    OBVIOUS
  <2>4. g \in [1 .. n -> Block] /\ \A i \in 1 .. n : g[i] = fs[i][2]
    BY <2>1, <2>3, <1>FrameSeqTyped, Zenon DEF Payloads
  <2>5. g \in Seq(Block) /\ Len(g) = n
    BY <2>4
  <2> QED  BY <2>1, <2>3, <2>4, <2>5
\* The frames of a stream are read one after the other.
<1>NextFrame. ASSUME NEW fs \in FrameSeq, NEW i \in 0 .. Len(fs) - 1
              PROVE  /\ Cut(Wire(fs), i + 1, Len(fs)) \in Block
                     /\ Cut(Wire(fs), (i + 1) + 1, Len(fs)) \in Block
                     /\ FrameAt(Cut(Wire(fs), i + 1, Len(fs)))
                          = [ok |-> TRUE, type |-> fs[i + 1][1], payload |-> fs[i + 1][2],
                             rest |-> Cut(Wire(fs), (i + 1) + 1, Len(fs))]
  <2>1. PICK n \in Nat : n = Len(fs) /\ DOMAIN fs = 1 .. n
    OBVIOUS
  <2>2. PICK g \in Seq(Block) : g = Wire(fs) /\ Len(g) = n
    BY <2>1, <1>WireTyped
  <2>3. PICK k \in 1 .. n : k = i + 1
    BY <2>1
  <2>4. n \in k .. n /\ k \in 1 .. n + 1 /\ k + 1 \in 1 .. n + 1 /\ n \in k - 1 .. n /\ n \in (k + 1) - 1 .. n
    OBVIOUS
  <2>5. PICK r \in Block : r = Cut(g, k + 1, n)
    BY <2>2, CutTyped
  <2>6. Cut(g, k, n) = g[k] \o r
    BY <2>2, <2>4, <2>5, CutFirst, Zenon
  <2>7. Cut(g, k, n) \in Block
    BY <2>2, CutTyped
  <2>8. g[k] = Frame(fs[k][1], fs[k][2])
    BY <2>2 DEF Wire
  <2>9. FrameAt(g[k] \o r) = [ok |-> TRUE, type |-> fs[k][1], payload |-> fs[k][2], rest |-> r]
    <3>1. PICK t \in Varint, p \in Seq(Octet) : t = fs[k][1] /\ p = fs[k][2] /\ Len(p) \in Varint
      BY <2>1, <1>FrameSeqTyped, Zenon DEF Block
    <3>2. r \in Seq(Octet)
      BY DEF Block
    <3>3. FrameAt(Frame(t, p) \o r) = [ok |-> TRUE, type |-> t, payload |-> p, rest |-> r]
      BY <3>1, <3>2, FramesRead, Zenon
    <3> QED  BY <2>8, <3>1, <3>3, Zenon
  <2> QED  BY <2>1, <2>2, <2>3, <2>5, <2>6, <2>7, <2>9, Zenon
\* h3wsStream.Read returns the payloads of the first k frames, which are the DATA
\* frames it accepts.
<1>DataRead. ASSUME NEW fs \in FrameSeq, NEW k \in 0 .. Len(fs), Readable(fs, k)
             PROVE  h3Read(Frames(fs)) = Joined(SubSeq(Payloads(fs), 1, k))
  <2> USE <1>DataRead
  <2>1. PICK n \in Nat : n = Len(fs) /\ DOMAIN fs = 1 .. n
    OBVIOUS
  <2>2. PICK g \in Seq(Block) : g = Wire(fs) /\ Len(g) = n /\ \A i \in 1 .. n : g[i] # <<>>
    BY <2>1, <1>WireTyped
  <2>3. PICK pp \in Seq(Block) : pp = Payloads(fs) /\ Len(pp) = n /\ \A i \in 1 .. n : pp[i] = fs[i][2]
    BY <2>1, <1>PayloadsTyped, Zenon
  <2>4. Frames(fs) = Cut(g, 1, n)
    BY <2>2, CutAll DEF Frames, Wire
  <2> DEFINE path == [i \in 0 .. k |-> [got |-> Cut(pp, 1, i), rest |-> Cut(g, i + 1, n)]]
  <2>5. k \in Nat /\ k \in 0 .. n /\ k <= n
    BY <2>1
  <2>6. ASSUME NEW i \in 0 .. k PROVE path[i] = [got |-> Cut(pp, 1, i), rest |-> Cut(g, i + 1, n)] /\ path[i] \in Reading
    <3>1. 1 \in 1 .. n + 1 /\ i \in 1 - 1 .. n /\ i + 1 \in 1 .. n + 1 /\ n \in (i + 1) - 1 .. n
      BY <2>5
    <3>2. Cut(pp, 1, i) \in Block /\ Cut(g, i + 1, n) \in Block
      BY <2>2, <2>3, <3>1, CutTyped, Zenon
    <3>3. path[i] = [got |-> Cut(pp, 1, i), rest |-> Cut(g, i + 1, n)]
      OBVIOUS
    <3>4. [got |-> Cut(pp, 1, i), rest |-> Cut(g, i + 1, n)] \in Reading
      BY <3>2 DEF Reading
    <3> QED  BY <3>4
  <2>7. ASSUME NEW s \in Reading, NEW f, f = FrameAt(s.rest)
        PROVE  ReadPass[s] = IF ~f.ok THEN s
                             ELSE IF f.type # DataFrame \/ Len(f.payload) > MaxDataFrame THEN s
                             ELSE [got |-> s.got \o f.payload, rest |-> f.rest]
    BY <2>7 DEF ReadPass, Reading, Block
  <2>8. ASSUME NEW i \in 0 .. n - 1, i \in 0 .. k
        PROVE  /\ Accepted(fs[i + 1]) => ReadPass[path[i]] = [got |-> Cut(pp, 1, i) \o pp[i + 1], rest |-> Cut(g, (i + 1) + 1, n)]
               /\ ~Accepted(fs[i + 1]) => ReadPass[path[i]] = path[i]
    <3>0. i + 1 \in 1 .. n
      OBVIOUS
    <3>1. PICK p \in Block : p = pp[i + 1] /\ p = fs[i + 1][2]
      BY <2>1, <2>3, <3>0, <1>FrameSeqTyped, Zenon
    <3>2. FrameAt(Cut(g, i + 1, n)) = [ok |-> TRUE, type |-> fs[i + 1][1], payload |-> p, rest |-> Cut(g, (i + 1) + 1, n)]
      BY <2>1, <2>2, <3>1, <1>NextFrame, Zenon
    <3>3. path[i].rest = Cut(g, i + 1, n) /\ path[i].got = Cut(pp, 1, i)
      BY <2>8
    <3>4. PICK f : f = FrameAt(path[i].rest) /\ f.ok /\ f.type = fs[i + 1][1] /\ f.payload = p /\ f.rest = Cut(g, (i + 1) + 1, n)
      <4>1. PICK f : f = [ok |-> TRUE, type |-> fs[i + 1][1], payload |-> p, rest |-> Cut(g, (i + 1) + 1, n)]
        OBVIOUS
      <4>2. f.ok /\ f.type = fs[i + 1][1] /\ f.payload = p /\ f.rest = Cut(g, (i + 1) + 1, n)
        BY <4>1
      <4> HIDE DEF path
      <4> QED  BY <3>2, <3>3, <4>1, <4>2, Zenon
    <3>5. ReadPass[path[i]] = IF ~f.ok THEN path[i]
                              ELSE IF f.type # DataFrame \/ Len(f.payload) > MaxDataFrame THEN path[i]
                              ELSE [got |-> path[i].got \o f.payload, rest |-> f.rest]
      <4> HIDE DEF path
      <4>1. path[i] \in Reading
        BY <2>6, <2>8, Zenon
      <4> QED  BY <2>7, <3>4, <4>1, Zenon
    <3>6. Accepted(fs[i + 1]) <=> ~(f.type # DataFrame \/ Len(f.payload) > MaxDataFrame)
      <4>1. Len(p) \in Nat
        BY DEF Block
      <4>2. Len(p) > MaxDataFrame <=> ~(Len(p) <= MaxDataFrame)
        BY DEF MaxDataFrame
      <4> QED  BY <3>1, <3>4, <4>2, Zenon DEF Accepted
    <3> HIDE DEF path
    <3> QED  BY <3>1, <3>3, <3>4, <3>5, <3>6, Zenon
  <2>9. ASSUME NEW i \in 0 .. k - 1 PROVE ReadPass[path[i]] = path[i + 1]
    <3>1. i \in 0 .. n - 1 /\ i \in 0 .. k /\ i + 1 \in 0 .. k /\ i + 1 \in 1 .. k /\ i + 1 \in 1 .. n /\ 1 \in 1 .. n /\ (i + 1) - 1 = i
      BY <2>5
    <3>2. Accepted(fs[i + 1])
      BY DEF Readable
    <3>3. Cut(pp, 1, i + 1) = Cut(pp, 1, i) \o pp[i + 1]
      BY <2>3, <3>1, CutLast, ZenonT(60)
    <3>4. path[i + 1] = [got |-> Cut(pp, 1, i + 1), rest |-> Cut(g, (i + 1) + 1, n)]
      OBVIOUS
    <3> HIDE DEF path
    <3> QED  BY <2>8, <3>1, <3>2, <3>3, <3>4, Zenon
  <2>10. ReadPass[path[k]] = path[k]
    <3>1. k \in 0 .. k /\ path[k] \in Reading
      BY <2>6
    <3>2. CASE k = n
      <4>1. Cut(g, k + 1, n) = <<>>
        BY <3>2, CutEmpty
      <4>2. path[k].rest = <<>>
        BY <4>1
      <4> HIDE DEF path
      <4> QED  BY <2>7, <3>1, <4>2, <1>NoFrame, Zenon
    <3>3. CASE k # n
      <4>1. k \in 0 .. n - 1 /\ k < Len(fs)
        BY <2>1, <3>3
      <4>2. ~Accepted(fs[k + 1])
        BY <4>1 DEF Readable
      <4> HIDE DEF path
      <4> QED  BY <2>8, <3>1, <4>1, <4>2, Zenon
    <3> QED  BY <3>2, <3>3
  <2>11. \A i \in 0 .. k : path[i] \in DOMAIN ReadPass
    <3>1. DOMAIN ReadPass = Reading
      BY Zenon DEF ReadPass, Reading, Block
    <3> QED  BY <2>6, <3>1
  <2>12. PICK l \in Nat : l = Len(Cut(g, 1, n)) /\ k <= l
    <3>1. Cut(g, 1, n) \in Block
      <4>1. 1 \in 1 .. n + 1 /\ n \in 1 - 1 .. n
        OBVIOUS
      <4> QED  BY <2>2, CutTyped
    <3>2. PICK l \in Nat : l = Len(Cut(g, 1, n)) /\ l >= n
      BY <2>2, <3>1, CutLong, LenProperties DEF Block
    <3> QED  BY <2>5, <3>2
  <2>13. path[0] = [got |-> <<>>, rest |-> Cut(g, 1, n)]
    <3>1. 0 \in 0 .. k /\ 0 + 1 = 1
      OBVIOUS
    <3>2. Cut(pp, 1, 0) = <<>>
      BY CutEmpty
    <3> QED  BY <2>6, <3>2
  <2>14. path[k] \in Reading /\ path[k].got = Cut(pp, 1, k)
    <3>1. k \in 0 .. k
      OBVIOUS
    <3> QED  BY <2>6
  <2> HIDE DEF path
  <2>15. Leads(ReadPass, path, k)
    BY <2>9, <2>11 DEF Leads
  <2>16. h3Read(Frames(fs)) = path[k].got
    <3>1. Loop(ReadPass, path[0], l) = path[k]
      BY <2>10, <2>12, <2>15, LoopArrives
    <3> QED  BY <2>4, <2>12, <2>13, <3>1, Zenon DEF h3Read
  <2> QED  BY <2>3, <2>14, <2>16 DEF Cut
\* What is left of the stream is the frames that are left.
<1>FramesOfSlice. ASSUME NEW fs \in FrameSeq, NEW i \in 1 .. Len(fs) + 1
                  PROVE  Frames(SubSeq(fs, i, Len(fs))) = Cut(Wire(fs), i, Len(fs))
  <2>1. PICK n \in Nat : n = Len(fs) /\ DOMAIN fs = 1 .. n
    OBVIOUS
  <2>2. PICK g \in Seq(Block) : g = Wire(fs) /\ Len(g) = n
    BY <2>1, <1>WireTyped
  <2>3. PICK m \in Nat : m = IF i <= n THEN (n - i) + 1 ELSE 0
    BY <2>1
  <2>4. PICK hs : hs = SubSeq(fs, i, n) /\ DOMAIN hs = 1 .. m /\ \A k \in 1 .. m : hs[k] = fs[(i + k) - 1]
    <3>1. fs \in Seq(Varint \X Block)
      BY DEF FrameSeq
    <3>2. \A k \in i .. n : fs[k] \in Varint \X Block
      BY <2>1, <3>1
    <3>3. /\ SubSeq(fs, i, n) \in Seq(Varint \X Block) /\ Len(SubSeq(fs, i, n)) = m
          /\ \A k \in 1 .. (n - i) + 1 : SubSeq(fs, i, n)[k] = fs[(i + k) - 1]
      BY <2>3, <3>2
    <3>4. 1 .. m = 1 .. (n - i) + 1
      BY <2>3
    <3> QED  BY <3>3, <3>4, LenProperties
  <2>5. PICK t : t = SubSeq(g, i, n) /\ DOMAIN t = 1 .. m /\ t \in Seq(Block) /\ \A k \in 1 .. m : t[k] = g[(i + k) - 1]
    <3>2. \A k \in i .. n : g[k] \in Block
      BY <2>2
    <3>3. /\ SubSeq(g, i, n) \in Seq(Block) /\ Len(SubSeq(g, i, n)) = m
          /\ \A k \in 1 .. (n - i) + 1 : SubSeq(g, i, n)[k] = g[(i + k) - 1]
      BY <2>3, <3>2
    <3>4. 1 .. m = 1 .. (n - i) + 1
      BY <2>3
    <3> QED  BY <3>3, <3>4, LenProperties
  <2>6. ASSUME NEW k \in 1 .. m PROVE t[k] = Frame(hs[k][1], hs[k][2])
    <3>1. (i + k) - 1 \in 1 .. n
      BY <2>3
    <3>2. g[(i + k) - 1] = Frame(fs[(i + k) - 1][1], fs[(i + k) - 1][2])
      BY <2>2, <3>1 DEF Wire
    <3> QED  BY <2>4, <2>5, <3>2, Zenon
  <2>7. t = [k \in 1 .. m |-> t[k]]
    BY <2>5, LenProperties, SMTT(30)
  <2>8. t = [k \in DOMAIN hs |-> Frame(hs[k][1], hs[k][2])]
    BY <2>4, <2>6, <2>7, Zenon
  <2> QED  BY <2>1, <2>2, <2>4, <2>5, <2>8, Zenon DEF Frames, Cut
\* h3ReadResponseHeaders takes the block of the first HEADERS frame and leaves what
\* follows it.
<1>AnswerRead. ASSUME NEW fs \in FrameSeq, NEW k \in 1 .. Len(fs), AnswerAt(fs, k)
               PROVE  h3ReadResponseHeaders(Frames(fs))
                        = [ok |-> TRUE, block |-> fs[k][2], rest |-> Frames(SubSeq(fs, k + 1, Len(fs)))]
  <2> USE <1>AnswerRead
  <2>1. PICK n \in Nat : n = Len(fs) /\ DOMAIN fs = 1 .. n
    OBVIOUS
  <2>2. PICK g \in Seq(Block) : g = Wire(fs) /\ Len(g) = n /\ \A i \in 1 .. n : g[i] # <<>>
    BY <2>1, <1>WireTyped
  <2>3. Frames(fs) = Cut(g, 1, n)
    BY <2>2, CutAll DEF Frames, Wire
  <2> DEFINE path == [i \in 0 .. k |-> [found |-> i = k, block |-> IF i = 0 THEN <<>> ELSE fs[i][2],
                                        rest |-> Cut(g, i + 1, n)]]
  <2>4. k \in Nat /\ k \in 1 .. n /\ k <= n
    BY <2>1, SMTT(60)
  <2>5. ASSUME NEW i \in 0 .. k
        PROVE  path[i] \in Answering /\ path[i].rest = Cut(g, i + 1, n) /\ path[i].found = (i = k)
    <3>1. i + 1 \in 1 .. n + 1 /\ n \in (i + 1) - 1 .. n /\ (i # 0 => i \in 1 .. n)
      BY <2>4
    <3>2. Cut(g, i + 1, n) \in Block
      BY <2>2, <3>1, CutTyped
    <3>3. PICK e \in Block : e = IF i = 0 THEN <<>> ELSE fs[i][2]
      <4>1. <<>> \in Block
        BY DEF Block
      <4>2. i # 0 => fs[i][2] \in Block
        BY <2>1, <1>FrameSeqTyped
      <4> QED  BY <4>1, <4>2
    <3>4. path[i] = [found |-> i = k, block |-> e, rest |-> Cut(g, i + 1, n)]
      BY <3>3
    <3>5. [found |-> i = k, block |-> e, rest |-> Cut(g, i + 1, n)] \in Answering
      BY <3>2 DEF Answering
    <3>6. [found |-> i = k, block |-> e, rest |-> Cut(g, i + 1, n)].rest = Cut(g, i + 1, n)
      OBVIOUS
    <3>7. [found |-> i = k, block |-> e, rest |-> Cut(g, i + 1, n)].found = (i = k)
      OBVIOUS
    <3> HIDE DEF path
    <3> QED  BY <3>4, <3>5, <3>6, <3>7
  <2>6. ASSUME NEW s \in Answering
        PROVE  AnswerPass[s] = LET f == FrameAt(s.rest)
                               IN  IF s.found \/ ~f.ok THEN s
                                   ELSE [found |-> f.type = HeadersFrame, block |-> f.payload, rest |-> f.rest]
    BY DEF AnswerPass, Answering, Block
  <2>7. ASSUME NEW i \in 0 .. k - 1 PROVE AnswerPass[path[i]] = path[i + 1]
    <3>1. i \in 0 .. n - 1 /\ i \in 0 .. k /\ i + 1 \in 0 .. k /\ i + 1 \in 1 .. k /\ i # k /\ i + 1 # 0
      BY <2>4
    <3>2. fs[i + 1][1] = HeadersFrame <=> i + 1 = k
      <4>1. i + 1 # k => i + 1 \in 1 .. k - 1
        OBVIOUS
      <4> QED  BY DEF AnswerAt
    <3>3. PICK f : f = FrameAt(path[i].rest) /\ f = [ok |-> TRUE, type |-> fs[i + 1][1], payload |-> fs[i + 1][2],
                                                     rest |-> Cut(g, (i + 1) + 1, n)]
      <4> HIDE DEF path
      <4>1. i \in 0 .. Len(fs) - 1
        BY <2>1, <3>1, Zenon
      <4>2. FrameAt(Cut(Wire(fs), i + 1, Len(fs)))
              = [ok |-> TRUE, type |-> fs[i + 1][1], payload |-> fs[i + 1][2], rest |-> Cut(Wire(fs), (i + 1) + 1, Len(fs))]
        BY <4>1, <1>NextFrame, Zenon
      <4> QED  BY <2>1, <2>2, <2>5, <3>1, <4>2, ZenonT(60)
    <3>4. f.ok /\ f.type = fs[i + 1][1] /\ f.payload = fs[i + 1][2] /\ f.rest = Cut(g, (i + 1) + 1, n)
      BY <3>3, SMTT(60)
    <3>5. path[i + 1] = [found |-> i + 1 = k, block |-> fs[i + 1][2], rest |-> Cut(g, (i + 1) + 1, n)]
      BY SMTT(60)
    <3> HIDE DEF path
    <3>6. path[i] \in Answering /\ ~path[i].found
      BY <2>5, <3>1, Zenon
    <3>7. AnswerPass[path[i]] = [found |-> f.type = HeadersFrame, block |-> f.payload, rest |-> f.rest]
      BY <2>6, <3>3, <3>4, <3>6, Zenon
    <3>8. (f.type = HeadersFrame) = (i + 1 = k)
      BY <3>2, <3>4
    <3> QED  BY <3>4, <3>5, <3>7, <3>8, Zenon
  <2>8. path[k] \in Answering /\ path[k].found /\ path[k].rest = Cut(g, k + 1, n) /\ path[k].block = fs[k][2]
    <3>1. k \in 0 .. k /\ k # 0
      BY SMTT(60)
    <3>2. path[k] = [found |-> k = k, block |-> fs[k][2], rest |-> Cut(g, k + 1, n)]
      OBVIOUS
    <3> HIDE DEF path
    <3>3. PICK p : p = path[k] /\ p = [found |-> k = k, block |-> fs[k][2], rest |-> Cut(g, k + 1, n)]
      BY <3>2, Zenon
    <3>4. p.block = fs[k][2]
      BY <3>3, SMT
    <3> QED  BY <2>5, <3>1, <3>3, <3>4, Zenon
  <2>9. AnswerPass[path[k]] = path[k]
    <3> HIDE DEF path
    <3> QED  BY <2>6, <2>8, Zenon
  <2>10. \A i \in 0 .. k : path[i] \in DOMAIN AnswerPass
    <3>1. DOMAIN AnswerPass = Answering
      BY Zenon DEF AnswerPass, Answering, Block
    <3> QED  BY <2>5, <3>1, SMTT(30)
  <2>11. PICK l \in Nat : l = Len(Cut(g, 1, n)) /\ k <= l
    <3>1. Cut(g, 1, n) \in Block
      <4>1. 1 \in 1 .. n + 1 /\ n \in 1 - 1 .. n
        OBVIOUS
      <4> QED  BY <2>2, CutTyped
    <3>2. PICK l \in Nat : l = Len(Cut(g, 1, n)) /\ l >= n
      BY <2>2, <3>1, CutLong, LenProperties DEF Block
    <3> QED  BY <2>4, <3>2
  <2>12. path[0] = [found |-> FALSE, block |-> <<>>, rest |-> Cut(g, 1, n)]
    <3>1. 0 \in 0 .. k /\ 0 + 1 = 1 /\ (0 = k) = FALSE
      OBVIOUS
    <3> QED  BY <3>1, Zenon
  <2> HIDE DEF path
  <2>13. Leads(AnswerPass, path, k)
    BY <2>7, <2>10 DEF Leads
  <2>14. Loop(AnswerPass, path[0], l) = path[k]
    BY <2>9, <2>11, <2>13, LoopArrives
  <2>15. h3ReadResponseHeaders(Frames(fs)) = [ok |-> TRUE, block |-> path[k].block, rest |-> path[k].rest]
    BY <2>3, <2>8, <2>11, <2>12, <2>14, Zenon DEF h3ReadResponseHeaders
  <2>16. Frames(SubSeq(fs, k + 1, Len(fs))) = Cut(g, k + 1, n)
    <3>1. k + 1 \in 1 .. Len(fs) + 1
      OBVIOUS
    <3> QED  BY <2>1, <2>2, <1>FramesOfSlice
  <2> QED  BY <2>8, <2>15, <2>16, Zenon
<1>1. FrameList \subseteq FrameSeq
  BY H3Assumption, Zenon DEF FrameSeq, Block
<1> QED  BY <1>1, <1>AnswerRead, <1>DataRead, Zenon DEF FramesAgree

-----------------------------------------------------------------------------
(* SETTINGS.                                                               *)

SettingSeq == Seq(Varint \X Varint)

\* The bytes of each setting.
SettingWire(ss) == [i \in DOMAIN ss |-> appendVarint(ss[i][1]) \o appendVarint(ss[i][2])]

\* No setting can be read from t.
CutOff(t) ==
  \/ readVarint(t).n = 0
  \/ readVarint(SubSeq(t, readVarint(t).n + 1, Len(t))).n = 0

\* The bytes b begin with a setting.
SettingFirst(b, id, val, rest) == b = appendVarint(id) \o (appendVarint(val) \o rest)

\* The last setting of CONNECT among the first i enables it.
EnabledBy(ss, i) ==
  \E j \in 1 .. i : ss[j] = <<EnableConnectProtocol, 1>> /\ \A l \in j + 1 .. i : ss[l][1] # EnableConnectProtocol

\* SettingsAgree, from SettingsRead.
THEOREM SettingsReadBack == SettingsAgree
\* The types of their parts.
<1>SettingTyped. ASSUME NEW ss \in SettingSeq
                 PROVE  /\ Len(ss) \in Nat /\ DOMAIN ss = 1 .. Len(ss)
                        /\ \A i \in 1 .. Len(ss) : ss[i][1] \in Varint /\ ss[i][2] \in Varint /\ ss[i] = <<ss[i][1], ss[i][2]>>
  <2>1. Len(ss) \in Nat /\ DOMAIN ss = 1 .. Len(ss)
    BY DEF SettingSeq
  <2>2. ASSUME NEW i \in 1 .. Len(ss) PROVE ss[i] \in Varint \X Varint
    BY DEF SettingSeq
  <2> QED  BY <2>2
\* A setting is written as a block.
<1>SettingWireTyped. ASSUME NEW ss \in SettingSeq
                     PROVE  SettingWire(ss) \in Seq(Block) /\ Len(SettingWire(ss)) = Len(ss)
  <2>1. PICK n \in Nat : n = Len(ss) /\ DOMAIN ss = 1 .. n
    BY <1>SettingTyped
  <2>2. ASSUME NEW i \in 1 .. n PROVE appendVarint(ss[i][1]) \o appendVarint(ss[i][2]) \in Block
    <3>1. PICK a \in Block, b \in Block : a = appendVarint(ss[i][1]) /\ b = appendVarint(ss[i][2])
      BY <2>1, <1>SettingTyped, VarintBytes DEF Block
    <3>2. a \o b \in Block
      BY DEF Block
    <3> QED  BY <3>1, <3>2
  <2>3. PICK g : g = SettingWire(ss)
    OBVIOUS
  <2>4. g \in [1 .. n -> Block]
    BY <2>1, <2>2, <2>3 DEF SettingWire
  <2>5. g \in Seq(Block) /\ Len(g) = n
    BY <2>4
  <2> QED  BY <2>1, <2>3, <2>5
\* A pass of h3ParseSettingsPayload over a whole setting.
<1>SettingStep. ASSUME NEW s \in Enabling, NEW id \in Varint, NEW val \in Varint, NEW rest \in Block,
                       SettingFirst(s.rest, id, val, rest)
                PROVE  SettingsPass[s] = [enabled |-> IF id = EnableConnectProtocol THEN val = 1 ELSE s.enabled, rest |-> rest]
  <2> USE <1>SettingStep
  <2>1. PICK a \in Block, l \in Block : a = appendVarint(id) /\ l = appendVarint(val)
    BY VarintBytes DEF Block
  <2>2. PICK tail \in Block : tail = l \o rest
    BY ConcatProperties, Zenon DEF Block
  <2>3. PICK b \in Block : b = a \o tail
    BY ConcatProperties, Zenon DEF Block
  <2>4. readVarint(b) = [v |-> id, n |-> Len(a)] /\ readVarint(tail) = [v |-> val, n |-> Len(l)]
    <3>1. tail \in Seq(Octet) /\ rest \in Seq(Octet)
      BY DEF Block
    <3> QED  BY <2>1, <2>2, <2>3, <3>1, VarintRead, Zenon
  <2>5. SubSeq(b, Len(a) + 1, Len(b)) = tail /\ SubSeq(tail, Len(l) + 1, Len(tail)) = rest
    BY <2>2, <2>3, BackTaken, Zenon DEF Block
  <2>6. Len(a) # 0 /\ Len(l) # 0
    BY <2>1, VarintSizes
  <2>8. s.rest = b
    BY <2>1, <2>2, <2>3 DEF SettingFirst
  <2>9. readVarint(b).v = id /\ readVarint(b).n = Len(a) /\ readVarint(tail).v = val /\ readVarint(tail).n = Len(l)
    BY <2>4
  <2> QED  BY <2>5, <2>6, <2>8, <2>9, ZenonT(60) DEF SettingsPass, Enabling, Block
\* The loop ends at a setting that is cut off.
<1>SettingsEnd. ASSUME NEW e \in BOOLEAN, NEW t \in Block, CutOff(t)
                PROVE  SettingsPass[[enabled |-> e, rest |-> t]] = [enabled |-> e, rest |-> t]
  <2> USE <1>SettingsEnd
  <2>7. PICK s \in Enabling : s = [enabled |-> e, rest |-> t]
    BY DEF Enabling
  <2>8. s.enabled = e /\ s.rest = t
    BY <2>7
  <2>10. SettingsPass[s] = s
    BY <2>8, ZenonT(60) DEF SettingsPass, Enabling, Block, CutOff
  <2> QED  BY <2>7, <2>10
\* The end of the payload is one.
<1>NothingCutOff. CutOff(<<>>)
  BY NothingRead DEF CutOff
\* So is an identifier without a value.
<1>IntegerCutOff. ASSUME NEW v \in Varint
                  PROVE  CutOff(appendVarint(v))
  <2>1. PICK a \in Block : a = appendVarint(v)
    BY VarintBytes DEF Block
  <2>2. a \o <<>> = a /\ <<>> \in Seq(Octet)
    BY DEF Block
  <2>3. readVarint(a) = [v |-> v, n |-> Len(a)]
    BY <2>1, <2>2, VarintRead, Zenon
  <2>4. readVarint(a).n = Len(a)
    BY <2>3
  <2>5. SubSeq(a, Len(a) + 1, Len(a)) = <<>>
    <3>1. Len(a) \in Nat
      BY DEF Block
    <3>2. Len(a) + 1 \in Int /\ Len(a) \in Int /\ Len(a) < Len(a) + 1
      OBVIOUS
    <3> QED  OBVIOUS
  <2> QED  BY <2>1, <2>4, <2>5, NothingRead, Zenon DEF CutOff
\* One setting more.
<1>EnabledNext. ASSUME NEW ss \in SettingSeq, NEW i \in 0 .. Len(ss) - 1
                PROVE  EnabledBy(ss, i + 1) = IF ss[i + 1][1] = EnableConnectProtocol THEN ss[i + 1][2] = 1 ELSE EnabledBy(ss, i)
  <2>0. i \in Nat /\ i + 1 \in Nat /\ i + 1 \in 1 .. Len(ss)
    OBVIOUS
  <2>1. PICK k \in 1 .. Len(ss) : k = i + 1 /\ ss[k] = <<ss[k][1], ss[k][2]>>
    BY <1>SettingTyped
  <2>2. CASE ss[k][1] = EnableConnectProtocol
    <3>1. CASE ss[k][2] = 1
      <4>1. k \in 1 .. i + 1 /\ k + 1 .. i + 1 = {}
        BY <2>1
      <4>2. EnabledBy(ss, i + 1)
        BY <2>1, <2>2, <3>1, <4>1 DEF EnabledBy
      <4> QED  BY <2>1, <2>2, <3>1, <4>2, Zenon
    <3>2. CASE ss[k][2] # 1
      <4>1. ASSUME NEW j \in 1 .. i + 1, ss[j] = <<EnableConnectProtocol, 1>>,
                   \A l \in j + 1 .. i + 1 : ss[l][1] # EnableConnectProtocol
            PROVE  FALSE
        <5>1. CASE j = k
          <6>1. ss[k][2] = 1
            BY <4>1, <5>1
          <6> QED  BY <3>2, <6>1
        <5>2. CASE j # k
          <6>1. k \in j + 1 .. i + 1
            BY <2>0, <2>1, <5>2
          <6> QED  BY <2>2, <4>1, <6>1
        <5> QED  BY <5>1, <5>2
      <4>2. ~EnabledBy(ss, i + 1)
        BY <4>1, Zenon DEF EnabledBy
      <4> QED  BY <2>1, <2>2, <3>2, <4>2, Zenon DEF EnabledBy
    <3> QED  BY <3>1, <3>2
  <2>3. CASE ss[k][1] # EnableConnectProtocol
    <3>1. ASSUME EnabledBy(ss, i) PROVE EnabledBy(ss, i + 1)
      <4>1. PICK j \in 1 .. i : ss[j] = <<EnableConnectProtocol, 1>> /\ \A l \in j + 1 .. i : ss[l][1] # EnableConnectProtocol
        BY <3>1 DEF EnabledBy
      <4>2. j \in 1 .. i + 1 /\ \A l \in j + 1 .. i + 1 : l \in j + 1 .. i \/ l = k
        BY <2>1
      <4> QED  BY <2>3, <4>1, <4>2, Zenon DEF EnabledBy
    <3>2. ASSUME EnabledBy(ss, i + 1) PROVE EnabledBy(ss, i)
      <4>1. PICK j \in 1 .. i + 1 : /\ ss[j] = <<EnableConnectProtocol, 1>>
                                    /\ \A l \in j + 1 .. i + 1 : ss[l][1] # EnableConnectProtocol
        BY <3>2 DEF EnabledBy
      <4>2. j # k
        <5>1. ss[j][1] = EnableConnectProtocol
          BY <4>1
        <5> QED  BY <2>3, <5>1
      <4>3. j \in 1 .. i /\ \A l \in j + 1 .. i : l \in j + 1 .. i + 1
        BY <2>1, <4>2
      <4> QED  BY <4>1, <4>3, Zenon DEF EnabledBy
    <3> QED  BY <2>1, <2>3, <3>1, <3>2, Zenon DEF EnabledBy
  <2> QED  BY <2>2, <2>3
\* No more than MaxSettings passes are made.
<1>EnablesBy. ASSUME NEW ss \in SettingSeq, NEW m \in Nat, m = IF Len(ss) <= MaxSettings THEN Len(ss) ELSE MaxSettings
              PROVE  EnabledBy(ss, m) <=> Enables(ss)
  <2> USE <1>EnablesBy
  <2>1. PICK n \in Nat : n = Len(ss)
    OBVIOUS
  <2>2. \A i \in 1 .. n : i \in 1 .. m <=> i <= MaxSettings
    BY <2>1 DEF MaxSettings
  <2>3. \A i \in 1 .. n, j \in Int : (j \in i + 1 .. m <=> j \in i + 1 .. n /\ j <= MaxSettings)
    BY <2>1 DEF MaxSettings
  <2>4. \A i \in 1 .. m : i \in 1 .. n
    BY <2>1 DEF MaxSettings
  <2>5. \A i \in Int : \A j \in i + 1 .. n : j \in Int
    OBVIOUS
  <2>6. \A i \in Int : \A j \in i + 1 .. m : j \in Int
    OBVIOUS
  <2>7. \A i \in 1 .. n : i \in Int
    OBVIOUS
  <2>8. ASSUME EnabledBy(ss, m) PROVE Enables(ss)
    <3>1. PICK i \in 1 .. m : ss[i] = <<EnableConnectProtocol, 1>> /\ \A l \in i + 1 .. m : ss[l][1] # EnableConnectProtocol
      BY <2>8 DEF EnabledBy
    <3>2. i \in 1 .. n /\ i <= MaxSettings /\ i \in Int
      BY <2>2, <2>4
    <3>3. ASSUME NEW j \in i + 1 .. n, j <= MaxSettings PROVE ss[j][1] # EnableConnectProtocol
      BY <2>3, <2>5, <3>1, <3>2, <3>3
    <3> QED  BY <2>1, <3>1, <3>2, <3>3, Zenon DEF Enables
  <2>9. ASSUME Enables(ss) PROVE EnabledBy(ss, m)
    <3>1. PICK i \in 1 .. n : /\ i <= MaxSettings /\ ss[i] = <<EnableConnectProtocol, 1>>
                              /\ \A j \in i + 1 .. n : j <= MaxSettings => ss[j][1] # EnableConnectProtocol
      BY <2>1, <2>9 DEF Enables
    <3>2. i \in 1 .. m /\ i \in Int
      BY <2>2, <3>1
    <3>3. ASSUME NEW j \in i + 1 .. m PROVE ss[j][1] # EnableConnectProtocol
      BY <2>3, <2>6, <3>1, <3>2
    <3> QED  BY <3>1, <3>2, <3>3 DEF EnabledBy
  <2> QED  BY <2>8, <2>9
\* h3ParseSettingsPayload finds what the last setting of CONNECT says, whatever is cut
\* off at the end.
<1>SettingsRead. ASSUME NEW ss \in SettingSeq, NEW t \in Block, CutOff(t)
                 PROVE  h3ParseSettingsPayload(Settings(ss) \o t) <=> Enables(ss)
  <2> USE <1>SettingsRead
  <2>1. PICK n \in Nat : n = Len(ss) /\ DOMAIN ss = 1 .. n
    BY <1>SettingTyped
  <2>2. PICK g \in Seq(Block) : g = SettingWire(ss) /\ Len(g) = n
    BY <2>1, <1>SettingWireTyped
  <2>3. Settings(ss) = Cut(g, 1, n)
    BY <2>2, CutAll, Zenon DEF Settings, SettingWire
  <2>4. PICK m \in Nat : m = (IF n <= MaxSettings THEN n ELSE MaxSettings)
    BY DEF MaxSettings
  <2>5. m <= n /\ m <= MaxSettings /\ MaxSettings \in Nat /\ (m = n \/ m = MaxSettings) /\ (m < n => m = MaxSettings)
    BY <2>4, SMTT(60) DEF MaxSettings
  <2> DEFINE path == [i \in 0 .. m |-> [enabled |-> EnabledBy(ss, i), rest |-> Cut(g, i + 1, n) \o t]]
  <2>6. ASSUME NEW i \in 0 .. m PROVE Cut(g, i + 1, n) \in Block /\ path[i] \in Enabling
    <3>1. i + 1 \in 1 .. n + 1 /\ n \in (i + 1) - 1 .. n
      BY <2>5
    <3>2. PICK c \in Block : c = Cut(g, i + 1, n)
      BY <2>2, <3>1, CutTyped
    <3>3. PICK r \in Block : r = c \o t
      BY ConcatProperties, Zenon DEF Block
    <3>4. EnabledBy(ss, i) \in BOOLEAN
      BY DEF EnabledBy
    <3>5. [enabled |-> EnabledBy(ss, i), rest |-> r] \in Enabling
      BY <3>4, SMTT(60) DEF Enabling
    <3>6. path[i] = [enabled |-> EnabledBy(ss, i), rest |-> r]
      BY <3>2, <3>3
    <3> HIDE DEF path
    <3> QED  BY <3>2, <3>5, <3>6
  <2>7. ASSUME NEW i \in 0 .. m - 1 PROVE SettingsPass[path[i]] = path[i + 1]
    <3>1. i \in 0 .. n - 1 /\ i \in 0 .. m /\ i + 1 \in 0 .. m /\ i + 1 \in 1 .. n /\ n \in i + 1 .. n
      BY <2>5
    <3>2. PICK a \in Block, l \in Block : a = appendVarint(ss[i + 1][1]) /\ l = appendVarint(ss[i + 1][2])
      BY <2>1, <3>1, <1>SettingTyped, VarintBytes, Zenon DEF Block
    <3>3. PICK r \in Block : r = Cut(g, (i + 1) + 1, n)
      BY <2>6, <3>1, Zenon
    <3>4. Cut(g, i + 1, n) = (a \o l) \o r
      <4>1. Cut(g, i + 1, n) = g[i + 1] \o r
        <5>1. PICK j \in 1 .. Len(g) : \E h \in j .. Len(g) : j = i + 1 /\ h = n
          BY <2>2, <3>1
        <5>3. PICK h \in j .. Len(g) : j = i + 1 /\ h = n
          BY <5>1
        <5>2. Cut(g, j, h) = g[j] \o Cut(g, j + 1, h)
          BY CutFirst, Zenon
        <5> QED  BY <3>3, <5>2, <5>3, Zenon
      <4>2. g[i + 1] = a \o l
        BY <2>1, <2>2, <3>1, <3>2, Zenon DEF SettingWire
      <4> QED  BY <4>1, <4>2
    <3>5. PICK rt \in Block : rt = r \o t
      BY ConcatProperties, Zenon DEF Block
    <3>6. Cut(g, i + 1, n) \o t = a \o (l \o rt)
      <4> DEFINE Same(w, x, y, z) == ((w \o x) \o y) \o z = w \o (x \o (y \o z))
      <4>1. \A w, x, y, z \in Block : Same(w, x, y, z)
        BY Reassociated, Zenon DEF Block
      <4>2. Same(a, l, r, t)
        <5> HIDE DEF Same
        <5> QED  BY <4>1
      <4> QED  BY <3>4, <3>5, <4>2, Zenon
    <3>7. path[i] = [enabled |-> EnabledBy(ss, i), rest |-> a \o (l \o rt)]
      BY <3>1, <3>6, Zenon
    <3>8. path[i + 1] = [enabled |-> EnabledBy(ss, i + 1), rest |-> rt]
      BY <3>1, <3>3, <3>5
    <3> HIDE DEF path
    <3>9. PICK id \in Varint, val \in Varint : id = ss[i + 1][1] /\ val = ss[i + 1][2]
      BY <2>1, <3>1, <1>SettingTyped, Zenon
    <3>10. EnabledBy(ss, i + 1) = IF id = EnableConnectProtocol THEN val = 1 ELSE EnabledBy(ss, i)
      BY <2>1, <3>1, <3>9, <1>EnabledNext, Zenon
    <3>11. EnabledBy(ss, i) \in BOOLEAN
      BY DEF EnabledBy
    <3>12. PICK s \in Enabling : s = path[i] /\ s.enabled = EnabledBy(ss, i) /\ SettingFirst(s.rest, id, val, rt)
      <4>1. PICK e, r0 : e = EnabledBy(ss, i) /\ r0 = a \o (l \o rt)
        OBVIOUS
      <4>2. path[i] = [enabled |-> e, rest |-> r0]
        BY <3>7, <4>1
      <4>3. path[i].enabled = e /\ path[i].rest = r0
        BY <4>2
      <4> QED  BY <2>6, <3>1, <3>2, <3>9, <4>1, <4>3, Zenon DEF SettingFirst
    <3>13. SettingsPass[s] = [enabled |-> IF id = EnableConnectProtocol THEN val = 1 ELSE s.enabled, rest |-> rt]
      BY <3>12, <1>SettingStep
    <3> QED  BY <3>8, <3>10, <3>12, <3>13, Zenon
  <2>8. SettingsPass[path[m]] = path[m] \/ m = MaxSettings
    <3> SUFFICES ASSUME m # MaxSettings PROVE SettingsPass[path[m]] = path[m]
      OBVIOUS
    <3>1. m = n /\ m \in 0 .. m /\ n + 1 \in Int /\ n \in Int /\ n < n + 1
      BY <2>5
    <3>2. Cut(g, m + 1, n) = <<>>
      BY <3>1, CutEmpty
    <3>3. <<>> \o t = t
      BY DEF Block
    <3>4. path[m] = [enabled |-> EnabledBy(ss, m), rest |-> t]
      BY <3>1, <3>2, <3>3, Zenon
    <3>5. EnabledBy(ss, m) \in BOOLEAN
      BY DEF EnabledBy
    <3> HIDE DEF path
    <3> QED  BY <3>4, <3>5, <1>SettingsEnd
  <2>9. \A i \in 0 .. m : path[i] \in DOMAIN SettingsPass
    <3>1. DOMAIN SettingsPass = Enabling
      BY Zenon DEF SettingsPass, Enabling, Block
    <3> QED  BY <2>6, <3>1
  <2>10. path[0] = [enabled |-> FALSE, rest |-> Settings(ss) \o t]
    <3>1. 0 \in 0 .. m /\ 0 + 1 = 1 /\ 1 .. 0 = {}
      OBVIOUS
    <3>2. EnabledBy(ss, 0) = FALSE
      BY <3>1, Zenon DEF EnabledBy
    <3> QED  BY <2>3, <3>1, <3>2, Zenon
  <2>11. path[m].enabled = EnabledBy(ss, m)
    <3>1. m \in 0 .. m
      OBVIOUS
    <3>2. path[m] = [enabled |-> EnabledBy(ss, m), rest |-> Cut(g, m + 1, n) \o t]
      OBVIOUS
    <3>3. PICK e : e = EnabledBy(ss, m)
      OBVIOUS
    <3>4. PICK r : r = Cut(g, m + 1, n) \o t
      OBVIOUS
    <3>5. [enabled |-> e, rest |-> r].enabled = e
      OBVIOUS
    <3> HIDE DEF path
    <3> QED  BY <3>2, <3>3, <3>4, <3>5, Zenon
  <2> HIDE DEF path
  <2>12. Leads(SettingsPass, path, m)
    BY <2>7, <2>9 DEF Leads
  <2>13. Loop(SettingsPass, path[0], MaxSettings) = path[m]
    BY <2>5, <2>8, <2>12, LoopArrives
  <2>14. h3ParseSettingsPayload(Settings(ss) \o t) = EnabledBy(ss, m)
    BY <2>10, <2>11, <2>13 DEF h3ParseSettingsPayload
  <2>15. EnabledBy(ss, m) <=> Enables(ss)
    BY <2>1, <2>4, <1>EnablesBy
  <2> QED  BY <2>14, <2>15, Zenon
<1> SUFFICES ASSUME NEW ss \in SettingList, NEW v \in Integer
             PROVE  /\ h3ParseSettingsPayload(Settings(ss)) <=> Enables(ss)
                    /\ h3ParseSettingsPayload(Settings(ss) \o appendVarint(v)) <=> Enables(ss)
  BY DEF SettingsAgree
<1>1. ss \in SettingSeq /\ v \in Varint
  BY H3Assumption, Zenon DEF SettingSeq
<1>2. PICK b \in Block : b = Settings(ss)
  <2>1. PICK g \in Seq(Block) : g = SettingWire(ss)
    BY <1>1, <1>SettingWireTyped
  <2>2. PICK n \in Nat : n = Len(g)
    BY LenProperties
  <2>3. 1 \in 1 .. n + 1 /\ n \in 1 - 1 .. n
    OBVIOUS
  <2>4. Joined(g) \in Block
    BY <2>1, <2>2, <2>3, CutAll, CutTyped, Zenon
  <2> QED  BY <2>1, <2>4, Zenon DEF Settings, SettingWire
<1>3. b \o <<>> = b /\ <<>> \in Block
  BY <1>2 DEF Block
<1>4. PICK a \in Block : a = appendVarint(v)
  BY <1>1, VarintBytes, Zenon DEF Block
<1>5. CutOff(a)
  BY <1>1, <1>4, <1>IntegerCutOff, Zenon
<1>6. h3ParseSettingsPayload(b \o <<>>) <=> Enables(ss)
  BY <1>1, <1>2, <1>3, <1>NothingCutOff, <1>SettingsRead, Zenon
<1>7. h3ParseSettingsPayload(b \o a) <=> Enables(ss)
  BY <1>1, <1>2, <1>4, <1>5, <1>SettingsRead, Zenon
<1> QED  BY <1>2, <1>3, <1>4, <1>6, <1>7, Zenon

-----------------------------------------------------------------------------
(* The integers of a header block.                                         *)

\* Facts about blocks, in the form in which the proofs below use them.
LEMMA Single == ASSUME NEW x \in Octet PROVE <<x>> \in Block /\ Len(<<x>>) = 1
BY DEF Block

\* The concatenation of two blocks.
LEMMA JoinTyped ==
  ASSUME NEW s \in Block, NEW t \in Block
  PROVE  s \o t \in Block /\ Len(s \o t) = Len(s) + Len(t) /\ Len(s) \in Nat /\ Len(t) \in Nat
BY ConcatProperties, LenProperties, Zenon DEF Block

\* The concatenation of three.
LEMMA Join3 ==
  ASSUME NEW s \in Block, NEW t \in Block, NEW u \in Block
  PROVE  (s \o t) \o u = s \o (t \o u)
BY Associative, Zenon DEF Block

\* The concatenation with nothing.
LEMMA JoinNothing == ASSUME NEW s \in Block PROVE s \o <<>> = s /\ <<>> \o s = s /\ <<>> \in Block
BY DEF Block

\* The byte in front of a block.
LEMMA FirstByte ==
  ASSUME NEW x \in Octet, NEW s \in Block
  PROVE  /\ <<x>> \o s \in Block /\ Len(<<x>> \o s) = Len(s) + 1
         /\ <<x>> \o s # <<>> /\ Head(<<x>> \o s) = x /\ Tail(<<x>> \o s) = s
<1>1. PICK a \in Block : a = <<x>> /\ Len(a) = 1
  BY Single
<1>2. PICK b \in Block : b = a \o s /\ Len(b) = Len(a) + Len(s)
  BY JoinTyped, Zenon
<1>3. Len(s) \in Nat
  BY DEF Block
<1>4. Len(b) = Len(s) + 1 /\ Len(b) # 0
  BY <1>1, <1>2
<1>5. b # <<>>
  BY <1>4
<1>6. b[1] = x
  <2>1. \A i \in 1 .. Len(a) + Len(s) : (a \o s)[i] = IF i <= Len(a) THEN a[i] ELSE s[i - Len(a)]
    BY DEF Block
  <2>2. b[1] = a[1]
    BY <1>1, <1>2
  <2> QED  BY <1>1, <2>2
<1>7. Head(b) = x
  BY <1>6 DEF Head
<1>8. Tail(b) = s
  <2>1. Tail(b) = SubSeq(b, 2, Len(b))
    BY DEF Block
  <2>2. SubSeq(b, Len(a) + 1, Len(b)) = s
    BY <1>2 DEF Block
  <2>3. Len(a) + 1 = 2
    BY <1>1
  <2> QED  BY <2>2, <2>3
<1> QED  BY <1>1, <1>2, <1>4, <1>7, <1>8

\* The states of the two loops over the groups of an integer.
Emitting  == [v : Nat, out : Block]

Grouping == [more : BOOLEAN, v : Nat, unit : Nat, rest : Block]

\* From v the loop of appendPrefixedInt writes pre and leaves the last group.
Writes(v, pre, last) ==
  \A out \in Block, n \in Nat :
    v <= n => Loop(WriteGroup, [v |-> v, out |-> out], n) = [v |-> last, out |-> out \o pre]

\* From the groups g the loop of readPrefixedIntWithFirst makes v.
ReadsTo(g, v, a, u, r, n) ==
  \E k \in Nat : Loop(ReadGroup, [more |-> TRUE, v |-> a, unit |-> u, rest |-> g \o r], n)
                   = [more |-> FALSE, v |-> a + u * v, unit |-> k, rest |-> r]

\* It does so whatever it has read before, and whatever follows the groups.
Reads(g, v) == \A a \in Nat, u \in Nat, r \in Block, n \in Nat : Len(g) <= n => ReadsTo(g, v, a, u, r, n)

\* What is written of v is read as v.
Grouped(v) == \E pre \in Block, last \in 0 .. 127 : Writes(v, pre, last) /\ Reads(pre \o <<last>>, v)

\* A pass of the reader over the byte x.
BytePass(x, a, u, r, n) ==
  Loop(ReadGroup, [more |-> TRUE, v |-> a, unit |-> u, rest |-> <<x>> \o r], n + 1)
    = Loop(ReadGroup, [more |-> x >= 128, v |-> a + (x % 128) * u, unit |-> 128 * u, rest |-> r], n)

\* The groups of a number are read back, whatever follows them.
LEMMA GroupsRead ==
  \A v \in Nat : Groups(v) \in Block /\ Len(Groups(v)) \in Nat /\ Reads(Groups(v), v)
\* A pass of appendPrefixedInt.
<1>WriteGroupPass. /\ DOMAIN WriteGroup = Emitting
                   /\ \A s \in Emitting :
                        WriteGroup[s] = IF s.v < 128 THEN s ELSE [v |-> s.v \div 128, out |-> Append(s.out, 128 + (s.v % 128))]
  BY Zenon DEF WriteGroup, Emitting, Block
\* A pass of readPrefixedIntWithFirst.
<1>ReadGroupPass. /\ DOMAIN ReadGroup = Grouping
                  /\ \A s \in Grouping :
                       ReadGroup[s] = IF ~s.more \/ s.rest = <<>> THEN s
                                      ELSE [more |-> Head(s.rest) >= 128, v |-> s.v + (Head(s.rest) % 128) * s.unit,
                                            unit |-> 128 * s.unit, rest |-> Tail(s.rest)]
  BY Zenon DEF ReadGroup, Grouping, Block
\* The seven bits that a group holds, and what is left of the integer.
<1>SevenBits. ASSUME NEW v \in Nat, v >= 128
              PROVE  /\ v \div 128 \in Nat /\ v \div 128 < v
                     /\ 128 + (v % 128) \in Octet /\ 128 + (v % 128) >= 128 /\ (128 + (v % 128)) % 128 = v % 128
                     /\ v % 128 \in Nat /\ v = 128 * (v \div 128) + (v % 128)
  <2> USE <1>SevenBits
  <2>1. v % 128 \in 0 .. 127
    OBVIOUS
  <2>2. v = 128 * (v \div 128) + (v % 128)
    OBVIOUS
  <2>4. v \div 128 \in Nat
    OBVIOUS
  <2>5. v \div 128 < v
    <3>1. ASSUME NEW w \in Nat, NEW q \in 0 .. 127, v = 128 * w + q PROVE w < v
      BY <3>1
    <3> QED  BY <2>1, <2>2, <2>4, <3>1, Zenon
  <2>3. ASSUME NEW q \in 0 .. 127 PROVE 128 + q \in Octet /\ 128 + q >= 128 /\ (128 + q) % 128 = q /\ q \in Nat
    BY DEF Octet
  <2>6. PICK q \in 0 .. 127 : q = v % 128
    OBVIOUS
  <2>7. 128 + q \in Octet /\ 128 + q >= 128 /\ (128 + q) % 128 = q /\ q \in Nat
    BY <2>3, Zenon
  <2> QED  BY <2>2, <2>4, <2>5, <2>6, <2>7, Zenon
\* The first pass of the writer.
<1>WriteNext. ASSUME NEW s \in Emitting, NEW n \in Nat
              PROVE  Loop(WriteGroup, s, n + 1) = Loop(WriteGroup, WriteGroup[s], n)
  BY <1>WriteGroupPass, LoopNext, ZenonT(60)
\* Every byte is read as BytePass says.
<1>ReadByte. ASSUME NEW x \in Octet, NEW a \in Nat, NEW u \in Nat, NEW r \in Block, NEW n \in Nat
             PROVE  BytePass(x, a, u, r, n)
  <2>1. PICK b \in Block : b = <<x>> \o r /\ b # <<>> /\ Head(b) = x /\ Tail(b) = r
    BY FirstByte, Zenon
  <2>2. PICK s \in Grouping : s = [more |-> TRUE, v |-> a, unit |-> u, rest |-> b]
    BY DEF Grouping
  <2>3. s.more /\ s.v = a /\ s.unit = u /\ s.rest = b
    BY <2>2
  <2>4. ReadGroup[s] = [more |-> x >= 128, v |-> a + (x % 128) * u, unit |-> 128 * u, rest |-> r]
    BY <2>1, <2>3, <1>ReadGroupPass, ZenonT(60)
  <2>6. Loop(ReadGroup, s, n + 1) = Loop(ReadGroup, ReadGroup[s], n)
    BY <1>ReadGroupPass, LoopNext
  <2> QED  BY <2>1, <2>2, <2>4, <2>6, Zenon DEF BytePass
\* An integer of one group.
<1>OneGroup. ASSUME NEW v \in 0 .. 127 PROVE Grouped(v)
  <2>0. v \in Nat /\ v \in Octet /\ v < 128 /\ ~(v >= 128) /\ v % 128 = v
    BY DEF Octet
  <2>1. Writes(v, <<>>, v)
    <3> SUFFICES ASSUME NEW out \in Block, NEW n \in Nat
                 PROVE  Loop(WriteGroup, [v |-> v, out |-> out], n) = [v |-> v, out |-> out \o <<>>]
      BY DEF Writes
    <3>1. PICK s \in Emitting : s = [v |-> v, out |-> out]
      BY <2>0 DEF Emitting
    <3>2. s.v = v
      BY <3>1
    <3>3. WriteGroup[s] = s
      BY <2>0, <3>2, <1>WriteGroupPass, Zenon
    <3>4. s \in DOMAIN WriteGroup
      BY <1>WriteGroupPass
    <3>5. Loop(WriteGroup, s, n) = s
      BY <3>3, <3>4, LoopStays
    <3>6. out \o <<>> = out
      BY JoinNothing, Zenon
    <3> QED  BY <3>1, <3>5, <3>6, Zenon
  <2>2. Reads(<<v>>, v)
    <3> SUFFICES ASSUME NEW a \in Nat, NEW u \in Nat, NEW r \in Block, NEW n \in Nat, Len(<<v>>) <= n
                 PROVE  ReadsTo(<<v>>, v, a, u, r, n)
      BY DEF Reads
    <3>1. PICK m \in Nat : n = m + 1
      <4>1. n - 1 \in Nat /\ n = (n - 1) + 1
        OBVIOUS
      <4> QED  OBVIOUS
    <3>2. PICK s \in Grouping : /\ s = [more |-> v >= 128, v |-> a + (v % 128) * u, unit |-> 128 * u, rest |-> r]
                                 /\ s = [more |-> FALSE, v |-> a + v * u, unit |-> 128 * u, rest |-> r]
      <4>1. (v >= 128) = FALSE
        OBVIOUS
      <4>2. [more |-> FALSE, v |-> a + v * u, unit |-> 128 * u, rest |-> r] \in Grouping
        <5>1. v * u \in Nat /\ 128 * u \in Nat
          OBVIOUS
        <5>2. a + v * u \in Nat
          BY SMT
        <5> QED  BY <5>1, <5>2, Zenon DEF Grouping
      <4>3. [more |-> v >= 128, v |-> a + (v % 128) * u, unit |-> 128 * u, rest |-> r]
              = [more |-> FALSE, v |-> a + v * u, unit |-> 128 * u, rest |-> r]
        BY <2>0, <4>1, Zenon
      <4> QED  BY <4>2, <4>3
    <3>3. Loop(ReadGroup, [more |-> TRUE, v |-> a, unit |-> u, rest |-> <<v>> \o r], n) = Loop(ReadGroup, s, m)
      <4>1. BytePass(v, a, u, r, m)
        BY <2>0, <1>ReadByte, SMTT(60)
      <4> QED  BY <3>1, <3>2, <4>1 DEF BytePass
    <3>4. ~s.more
      BY <3>2
    <3>5. ReadGroup[s] = s /\ s \in DOMAIN ReadGroup
      BY <3>4, <1>ReadGroupPass
    <3>6. Loop(ReadGroup, s, m) = s
      BY <3>5, LoopStays
    <3>7. v * u = u * v /\ 128 * u \in Nat
      OBVIOUS
    <3> QED  BY <3>2, <3>3, <3>6, <3>7, Zenon DEF ReadsTo
  <2>3. <<>> \o <<v>> = <<v>> /\ <<>> \in Block
    <3>1. <<v>> \in Block
      BY <2>0, Single
    <3> QED  BY <3>1, JoinNothing, Zenon
  <2> QED  BY <2>1, <2>2, <2>3, Zenon DEF Grouped
\* One group more.
<1>MoreGroups. ASSUME NEW v \in Nat, v >= 128, Grouped(v \div 128)
               PROVE  Grouped(v)
  <2> USE <1>MoreGroups
  <2>1. PICK w \in Nat, q \in Nat, x \in Octet :
          /\ w = v \div 128 /\ w < v /\ q = v % 128 /\ x = 128 + q /\ x >= 128 /\ x % 128 = q /\ v = 128 * w + q
    <3>1. /\ v \div 128 \in Nat /\ v \div 128 < v
          /\ 128 + (v % 128) \in Octet /\ 128 + (v % 128) >= 128 /\ (128 + (v % 128)) % 128 = v % 128
          /\ v % 128 \in Nat /\ v = 128 * (v \div 128) + (v % 128)
      BY <1>SevenBits
    <3>2. PICK w \in Nat : w = v \div 128
      OBVIOUS
    <3>3. PICK q \in Nat : q = v % 128
      OBVIOUS
    <3>4. PICK x \in Octet : x = 128 + q
      BY <3>1, <3>3, Zenon
    <3> QED  BY <3>1, <3>2, <3>3, <3>4, Zenon
  <2>2. PICK pre \in Block, last \in 0 .. 127 : Writes(w, pre, last) /\ Reads(pre \o <<last>>, w)
    BY <2>1, Zenon DEF Grouped
  <2>3. PICK more \in Block : more = <<x>> \o pre
    BY FirstByte, Zenon
  <2>4. Writes(v, more, last)
    <3> SUFFICES ASSUME NEW out \in Block, NEW n \in Nat, v <= n
                 PROVE  Loop(WriteGroup, [v |-> v, out |-> out], n) = [v |-> last, out |-> out \o more]
      BY Zenon DEF Writes
    <3>1. PICK m \in Nat : n = m + 1 /\ w <= m
      <4>1. n - 1 \in Nat /\ n = (n - 1) + 1 /\ w <= n - 1
        BY <2>1
      <4> QED  BY <4>1
    <3>2. PICK s \in Emitting : s = [v |-> v, out |-> out]
      BY DEF Emitting
    <3>3. s.v = v /\ s.out = out /\ ~(v < 128)
      BY <3>2
    <3>4. PICK o2 \in Block : o2 = Append(out, x) /\ o2 = out \o <<x>>
      <4>1. Append(out, x) \in Block
        BY DEF Block
      <4>2. Append(out, x) = out \o <<x>>
        BY DEF Block
      <4> QED  BY <4>1, <4>2, Zenon
    <3>5. WriteGroup[s] = [v |-> w, out |-> o2]
      <4>1. WriteGroup[s] = IF s.v < 128 THEN s ELSE [v |-> s.v \div 128, out |-> Append(s.out, 128 + (s.v % 128))]
        BY <1>WriteGroupPass
      <4>2. WriteGroup[s] = [v |-> v \div 128, out |-> Append(out, 128 + (v % 128))]
        BY <3>3, <4>1
      <4> QED  BY <2>1, <3>4, <4>2, Zenon
    <3>6. Loop(WriteGroup, s, m + 1) = Loop(WriteGroup, WriteGroup[s], m)
      BY <1>WriteNext
    <3>7. Loop(WriteGroup, [v |-> w, out |-> o2], m) = [v |-> last, out |-> o2 \o pre]
      BY <2>2, <3>1, Zenon DEF Writes
    <3>8. o2 \o pre = out \o more
      <4>1. <<x>> \in Block
        BY Single
      <4>2. (out \o <<x>>) \o pre = out \o (<<x>> \o pre)
        BY <4>1, Join3, ZenonT(30)
      <4> QED  BY <2>3, <3>4
    <3> QED  BY <3>1, <3>2, <3>5, <3>6, <3>7, <3>8
  <2>5. PICK g \in Block : g = pre \o <<last>>
    <3>1. last \in Octet
      BY DEF Octet
    <3>2. <<last>> \in Block
      BY <3>1, Single
    <3> QED  BY <3>2, JoinTyped, Zenon
  <2>6. PICK g2 \in Block : g2 = more \o <<last>> /\ g2 = <<x>> \o g /\ Len(g2) = Len(g) + 1
    <3>1. last \in Octet
      BY DEF Octet
    <3>2. PICK c \in Block, d \in Block : c = <<last>> /\ d = <<x>>
      BY <3>1, Single, Zenon
    <3>3. (d \o pre) \o c = d \o (pre \o c)
      BY Join3, Zenon
    <3>4. <<x>> \o g \in Block /\ Len(<<x>> \o g) = Len(g) + 1
      BY FirstByte
    <3> QED  BY <2>3, <2>5, <3>2, <3>3, <3>4, Zenon
  <2>7. Reads(g2, v)
    <3> SUFFICES ASSUME NEW a \in Nat, NEW u \in Nat, NEW r \in Block, NEW n \in Nat, Len(g2) <= n
                 PROVE  ReadsTo(g2, v, a, u, r, n)
      BY DEF Reads
    <3>1. PICK m \in Nat : n = m + 1 /\ Len(g) <= m
      <4>0. PICK l \in Nat : l = Len(g)
        BY DEF Block
      <4>1. n - 1 \in Nat /\ n = (n - 1) + 1 /\ l <= n - 1
        BY <2>6, <4>0
      <4> QED  BY <4>0, <4>1
    <3>2. PICK gr \in Block : gr = g \o r
      BY JoinTyped, Zenon
    <3>3. g2 \o r = <<x>> \o gr
      <4>1. <<x>> \in Block
        BY Single
      <4>2. (<<x>> \o g) \o r = <<x>> \o (g \o r)
        BY <4>1, Join3, ZenonT(30)
      <4> QED  BY <2>6, <3>2, <4>2, Zenon
    <3>4. PICK a2 \in Nat, u2 \in Nat : a2 = a + q * u /\ u2 = 128 * u
      OBVIOUS
    <3>5. Loop(ReadGroup, [more |-> TRUE, v |-> a, unit |-> u, rest |-> <<x>> \o gr], m + 1)
            = Loop(ReadGroup, [more |-> TRUE, v |-> a2, unit |-> u2, rest |-> gr], m)
      <4>1. (x >= 128) = TRUE
        BY <2>1
      <4>2. BytePass(x, a, u, gr, m)
        BY <1>ReadByte
      <4>3. [more |-> x >= 128, v |-> a + (x % 128) * u, unit |-> 128 * u, rest |-> gr]
              = [more |-> TRUE, v |-> a2, unit |-> u2, rest |-> gr]
        BY <2>1, <3>4, <4>1, ZenonT(60)
      <4> QED  BY <4>2, <4>3 DEF BytePass
    <3>6. Reads(g, w)
      BY <2>2, <2>5
    <3>7. PICK k \in Nat : Loop(ReadGroup, [more |-> TRUE, v |-> a2, unit |-> u2, rest |-> g \o r], m)
                             = [more |-> FALSE, v |-> a2 + u2 * w, unit |-> k, rest |-> r]
      <4>1. ReadsTo(g, w, a2, u2, r, m)
        BY <3>1, <3>6 DEF Reads
      <4> QED  BY <4>1, Zenon DEF ReadsTo
    <3>8. a2 + u2 * w = a + u * v
      BY <2>1, <3>4, SMTT(60)
    <3> QED  BY <3>1, <3>2, <3>3, <3>5, <3>7, <3>8, Zenon DEF ReadsTo
  <2> QED  BY <2>4, <2>6, <2>7, Zenon DEF Grouped
\* Every integer, by induction on its size.
<1>AllGrouped. \A v \in Nat : Grouped(v)
  <2> DEFINE S == {m \in Nat : \A v \in 0 .. m : Grouped(v)}
  <2>1. 0 \in S
    <3>1. \A v \in 0 .. 0 : v \in 0 .. 127
      OBVIOUS
    <3> QED  BY <1>OneGroup
  <2>2. ASSUME NEW m \in S PROVE m + 1 \in S
    <3>1. m \in Nat /\ m + 1 \in Nat /\ \A v \in 0 .. m : Grouped(v)
      OBVIOUS
    <3>2. ASSUME NEW v \in 0 .. m + 1 PROVE Grouped(v)
      <4>1. v \in Nat
        OBVIOUS
      <4>2. CASE v < 128
        <5>1. v \in 0 .. 127
          BY <4>2
        <5> QED  BY <5>1, <1>OneGroup
      <4>3. CASE ~(v < 128)
        <5>1. v >= 128
          BY <4>3
        <5>2. v \div 128 \in 0 .. m
          BY <1>SevenBits
        <5> QED  BY <3>1, <4>1, <5>1, <5>2, <1>MoreGroups, Zenon
      <4> QED  BY <4>2, <4>3
    <3> QED  BY <3>2
  <2>3. S = Nat
    <3> HIDE DEF S
    <3>1. S \in SUBSET Nat
      BY DEF S
    <3> QED  BY <2>1, <2>2, <3>1, Induction
  <2>4. ASSUME NEW v \in Nat PROVE Grouped(v)
    <3>1. v \in 0 .. v
      OBVIOUS
    <3> QED  BY <2>3
  <2> QED  BY <2>4
<1>GroupsRead. ASSUME NEW v \in Nat
               PROVE  Groups(v) \in Block /\ Len(Groups(v)) \in Nat /\ Reads(Groups(v), v)
  <2>1. PICK pre \in Block, last \in 0 .. 127 : Writes(v, pre, last) /\ Reads(pre \o <<last>>, v)
    BY <1>AllGrouped, Zenon DEF Grouped
  <2>2. v <= v /\ <<>> \in Block
    BY JoinNothing
  <2>3. PICK s : s = Loop(WriteGroup, [v |-> v, out |-> <<>>], v)
    OBVIOUS
  <2>4. s = [v |-> last, out |-> <<>> \o pre]
    BY <2>1, <2>2, <2>3, Zenon DEF Writes
  <2>5. s = [v |-> last, out |-> pre]
    BY <2>4
  <2>6. s.v = last /\ s.out = pre
    BY <2>5
  <2>7. last \in Octet
    BY DEF Octet
  <2>8. Append(pre, last) = pre \o <<last>> /\ Append(pre, last) \in Block
    BY <2>7 DEF Block
  <2>9. Groups(v) = pre \o <<last>> /\ Groups(v) \in Block
    BY <2>3, <2>6, <2>8, Zenon DEF Groups
  <2>10. Len(Groups(v)) \in Nat
    BY DEF Block
  <2> QED  BY <2>1, <2>9
<1> QED  BY <1>GroupsRead, Zenon

\* The first bytes and prefixes that h3EncodeHeaders uses.
KnownPrefix(first, prefix) ==
  \/ first = 0 /\ prefix \in {7, 8}
  \/ first = 32 /\ prefix = 3
  \/ first = 80 /\ prefix = 4
  \/ first = 192 /\ prefix = 6

\* The prefixes in use.
LEMMA Powers == Power(3) = 8 /\ Power(4) = 16 /\ Power(6) = 64 /\ Power(7) = 128 /\ Power(8) = 256
BY SMT DEF Power

\* An integer is written as x in the first byte and the groups t.
IntegerParts(first, prefix, v, x, t) ==
  /\ appendPrefixedInt(first, prefix, v) = <<first + x>> \o t /\ x <= Mask(prefix)
  /\ x # Mask(prefix) => v = x /\ t = <<>>
  /\ x = Mask(prefix) => v - Mask(prefix) \in Nat /\ t = Groups(v - Mask(prefix))

\* The integer v is at the front of b and r follows it.
ReadsInt(b, prefix, v, r) == readPrefixedInt(b, prefix) = [ok |-> TRUE, v |-> v, rest |-> r]

\* The first byte of b has the bits of first before the prefix.
Marked(b, first, prefix) ==
  /\ b # <<>> /\ Head(b) \in Octet /\ first <= Head(b) /\ Head(b) <= first + Mask(prefix)
  /\ Head(b) \div Power(prefix) = first \div Power(prefix)

\* readPrefixedInt takes from the front of a block the integer that appendPrefixedInt
\* put there, whatever follows, and the first byte still says which kind of line it is.
LEMMA IntegerRead ==
  \A first, prefix : KnownPrefix(first, prefix) => \A v \in Nat, r \in Block :
    /\ appendPrefixedInt(first, prefix, v) \in Block
    /\ ReadsInt(appendPrefixedInt(first, prefix, v) \o r, prefix, v, r)
    /\ Marked(appendPrefixedInt(first, prefix, v) \o r, first, prefix)
\* The bits before the prefix and those in it do not disturb each other.
<1>PrefixBits. ASSUME NEW first, NEW prefix, KnownPrefix(first, prefix), NEW x \in Nat, x <= Mask(prefix)
               PROVE  /\ first \in Nat /\ first + x \in Octet /\ (first + x) % Power(prefix) = x /\ Mask(prefix) \in Nat
                      /\ first <= first + x /\ (first + x) \div Power(prefix) = first \div Power(prefix)
  <2> USE <1>PrefixBits
  <2>1. CASE first = 0 /\ prefix = 7
    <3>1. Power(prefix) = 128 /\ Mask(prefix) = 127
      BY <2>1, Powers, SMT DEF Mask
    <3> QED  BY <2>1, <3>1 DEF Octet
  <2>2. CASE first = 0 /\ prefix = 8
    <3>1. Power(prefix) = 256 /\ Mask(prefix) = 255
      BY <2>2, Powers, SMT DEF Mask
    <3> QED  BY <2>2, <3>1 DEF Octet
  <2>3. CASE first = 32 /\ prefix = 3
    <3>1. Power(prefix) = 8 /\ Mask(prefix) = 7
      BY <2>3, Powers DEF Mask
    <3> QED  BY <2>3, <3>1 DEF Octet
  <2>4. CASE first = 80 /\ prefix = 4
    <3>1. Power(prefix) = 16 /\ Mask(prefix) = 15
      BY <2>4, Powers, SMT DEF Mask
    <3> QED  BY <2>4, <3>1, SMT DEF Octet
  <2>5. CASE first = 192 /\ prefix = 6
    <3>1. Power(prefix) = 64 /\ Mask(prefix) = 63
      BY <2>5, Powers, SMT DEF Mask
    <3> QED  BY <2>5, <3>1 DEF Octet
  <2> QED  BY <2>1, <2>2, <2>3, <2>4, <2>5, SMT DEF KnownPrefix
\* The greatest value of a prefix.
<1>MaskNat. ASSUME NEW first, NEW prefix, KnownPrefix(first, prefix) PROVE Mask(prefix) \in Nat
  BY <1>MaskNat, Powers, SMT DEF Mask, KnownPrefix
\* Every integer is written in this form.
<1>IntegerWritten. ASSUME NEW first, NEW prefix, KnownPrefix(first, prefix), NEW v \in Nat
                   PROVE  \E x \in Nat, t \in Block : IntegerParts(first, prefix, v, x, t)
  <2> USE <1>IntegerWritten
  <2>1. PICK m \in Nat : m = Mask(prefix)
    BY <1>MaskNat
  <2>2. CASE v < m
    <3>1. v <= m /\ v # m
      BY <2>2
    <3>2. first + v \in Octet
      BY <2>1, <3>1, <1>PrefixBits
    <3>3. <<first + v>> \in Block
      BY <3>2, Single
    <3>4. <<first + v>> \o <<>> = <<first + v>> /\ <<>> \in Block
      BY <3>3, JoinNothing, Zenon
    <3>5. appendPrefixedInt(first, prefix, v) = <<first + v>>
      BY <2>1, <2>2, Zenon DEF appendPrefixedInt
    <3>6. IntegerParts(first, prefix, v, v, <<>>)
      BY <2>1, <3>1, <3>4, <3>5, Zenon DEF IntegerParts
    <3> QED  BY <3>4, <3>6
  <2>3. CASE ~(v < m)
    <3>1. v - m \in Nat /\ m <= m
      BY <2>3
    <3>2. PICK t \in Block : t = Groups(v - m)
      BY <3>1, GroupsRead
    <3>3. appendPrefixedInt(first, prefix, v) = <<first + m>> \o t
      BY <2>1, <2>3, <3>2 DEF appendPrefixedInt
    <3>4. IntegerParts(first, prefix, v, m, t)
      BY <2>1, <3>1, <3>2, <3>3, Zenon DEF IntegerParts
    <3> QED  BY <3>4
  <2> QED  BY <2>2, <2>3
<1>IntegerRead. ASSUME NEW first, NEW prefix, KnownPrefix(first, prefix), NEW v \in Nat, NEW r \in Block
                PROVE  /\ appendPrefixedInt(first, prefix, v) \in Block
                       /\ ReadsInt(appendPrefixedInt(first, prefix, v) \o r, prefix, v, r)
                       /\ Marked(appendPrefixedInt(first, prefix, v) \o r, first, prefix)
  <2> USE <1>IntegerRead
  <2>1. PICK m \in Nat : m = Mask(prefix)
    BY <1>MaskNat
  <2>2. PICK x \in Nat, t \in Block : IntegerParts(first, prefix, v, x, t)
    BY <1>IntegerWritten
  <2>3. /\ appendPrefixedInt(first, prefix, v) = <<first + x>> \o t /\ x <= m
        /\ x # m => v = x /\ t = <<>>
        /\ x = m => v - m \in Nat /\ t = Groups(v - m)
    BY <2>1, <2>2, Zenon DEF IntegerParts
  <2>4. PICK h \in Octet : /\ h = first + x /\ h % Power(prefix) = x /\ first \in Nat /\ first <= h
                           /\ h \div Power(prefix) = first \div Power(prefix)
    BY <2>1, <2>3, <1>PrefixBits, Zenon
  <2>5. PICK a \in Block : a = appendPrefixedInt(first, prefix, v) /\ a = <<h>> \o t
    BY <2>3, <2>4, FirstByte, Zenon
  <2>6. PICK tr \in Block : tr = t \o r /\ Len(tr) = Len(t) + Len(r) /\ Len(t) \in Nat /\ Len(r) \in Nat
    BY JoinTyped, Zenon
  <2>7. PICK b \in Block : b = a \o r /\ b = <<h>> \o tr /\ b # <<>> /\ Head(b) = h /\ Tail(b) = tr /\ Len(b) = Len(tr) + 1
    <3>1. <<h>> \in Block
      BY Single
    <3>2. (<<h>> \o t) \o r = <<h>> \o (t \o r)
      OBVIOUS
    <3>3. PICK b \in Block : b = <<h>> \o tr /\ b # <<>> /\ Head(b) = h /\ Tail(b) = tr /\ Len(b) = Len(tr) + 1
      BY FirstByte, Zenon
    <3> QED  BY <2>5, <2>6, <3>2, <3>3, Zenon
  <2>8. Marked(b, first, prefix)
    <3>1. h <= first + m
      BY <2>3, <2>4
    <3> QED  BY <2>1, <2>4, <2>7, <3>1 DEF Marked
  <2>9. CASE x # m
    <3>1. v = x /\ tr = r
      BY <2>3, <2>6, <2>9, JoinNothing, Zenon
    <3>2. readPrefixedInt(b, prefix) = [ok |-> TRUE, v |-> x, rest |-> tr]
      BY <2>1, <2>4, <2>7, <2>9, Zenon DEF readPrefixedInt
    <3> QED  BY <2>5, <2>7, <2>8, <3>1, <3>2 DEF ReadsInt
  <2>10. CASE x = m
    <3>1. PICK w \in Nat : w = v - m /\ t = Groups(w)
      BY <2>3, <2>10
    <3>2. Reads(t, w)
      BY <3>1, GroupsRead
    <3>3. PICK n \in Nat : n = Len(b) /\ Len(t) <= n
      BY <2>6, <2>7
    <3>4. ReadsTo(t, w, m, 1, r, n)
      <4>1. 1 \in Nat
        OBVIOUS
      <4> QED  BY <3>2, <3>3 DEF Reads
    <3>5. m + 1 * w = v
      BY <3>1
    <3>6. PICK k \in Nat : Loop(ReadGroup, [more |-> TRUE, v |-> m, unit |-> 1, rest |-> tr], n)
                             = [more |-> FALSE, v |-> v, unit |-> k, rest |-> r]
      BY <2>6, <3>4, <3>5, Zenon DEF ReadsTo
    <3>7. PICK s : s = Loop(ReadGroup, [more |-> TRUE, v |-> m, unit |-> 1, rest |-> tr], n)
      OBVIOUS
    <3>8. s = [more |-> FALSE, v |-> v, unit |-> k, rest |-> r]
      BY <3>6, <3>7, Zenon
    <3>9. ~s.more /\ s.v = v /\ s.rest = r
      BY <3>8
    <3>10. readPrefixedInt(b, prefix) = [ok |-> TRUE, v |-> v, rest |-> r]
      BY <2>1, <2>4, <2>7, <2>10, <3>3, <3>7, <3>9, Zenon DEF readPrefixedInt
    <3> QED  BY <2>5, <2>7, <2>8, <3>10, Zenon DEF ReadsInt
  <2> QED  BY <2>9, <2>10
<1> QED  BY <1>IntegerRead, Zenon

-----------------------------------------------------------------------------
(* The strings of a header block.                                          *)

\* The string s is at the front of b and r follows it.
ReadsString(b, prefix, s, r) == readPrefixedString(b, prefix) = [ok |-> TRUE, rest |-> r, v |-> s]

\* The first bytes that h3EncodeHeaders uses: no string has the Huffman bit.
LEMMA Flags ==
  /\ KnownPrefix(192, 6) /\ KnownPrefix(80, 4) /\ KnownPrefix(32, 3) /\ KnownPrefix(0, 7) /\ KnownPrefix(0, 8)
  /\ (32 \div Power(3)) % 2 = 0 /\ (0 \div Power(7)) % 2 = 0
BY Powers DEF KnownPrefix

-----------------------------------------------------------------------------
(* The lines of a header block.                                            *)

\* The static table.
TableOk(table) == DOMAIN table \subseteq Nat /\ table \in [DOMAIN table -> Block \X Block]

\* The line at the front of b has the field kv and r follows it.
LineIs(table, b, kv, r) == Line(table, b).ok /\ Line(table, b).v = kv /\ Line(table, b).rest = r

\* What is read of a name: v[1] is it, and r follows.
NameIs(name, v, r) == name.ok /\ name.v = v /\ name.rest = r

\* The entries of the table with the name of a field, and those with its value too.
Named(table, kv) == {i \in DOMAIN table : table[i][1] = kv[1]}

Whole(table, kv) == {i \in Named(table, kv) : table[i][2] = kv[2]}

\* The encodings end the same way; f is what is written of a field.
FieldRead(table, kv, f, r) ==
  /\ f \in Block /\ f \o r # <<>>
  /\ Whole(table, kv) # {} \/ kv[2] \o r # <<>> => LineIs(table, f \o r, kv, r)
  /\ ~(Whole(table, kv) # {} \/ kv[2] \o r # <<>>) => ~Line(table, f \o r).ok

\* A field is its name and its value.
LEMMA PairParts == ASSUME NEW kv \in Block \X Block PROVE kv[1] \in Block /\ kv[2] \in Block /\ kv = <<kv[1], kv[2]>>
OBVIOUS

\* A field that h3EncodeHeaders writes is read by h3DecodeHeaders, unless it is a
\* literal with an empty value at the end of the block.
LEMMA FieldsRead ==
  \A table : TableOk(table) => \A kv \in Block \X Block, r \in Block :
    FieldRead(table, kv, EncodeField(table, kv), r)
\* A string is read back unless it is empty and nothing follows it.
<1>StringRead. ASSUME NEW first, NEW prefix, KnownPrefix(first, prefix), (first \div Power(prefix)) % 2 = 0,
                      NEW s \in Block, NEW r \in Block
               PROVE  /\ appendPrefixedString(first, prefix, s) \in Block
                      /\ s \o r # <<>> => ReadsString(appendPrefixedString(first, prefix, s) \o r, prefix, s, r)
                      /\ s \o r = <<>> => readPrefixedString(appendPrefixedString(first, prefix, s) \o r, prefix) = Failed
                      /\ Marked(appendPrefixedString(first, prefix, s) \o r, first, prefix)
  <2> USE <1>StringRead
  <2>1. PICK l \in Nat : l = Len(s)
    BY DEF Block
  <2>2. PICK sr \in Block : sr = s \o r /\ Len(sr) = l + Len(r) /\ Len(r) \in Nat
    BY <2>1, JoinTyped, Zenon
  <2>3. PICK a \in Block : a = appendPrefixedInt(first, prefix, l)
    BY IntegerRead
  <2>4. PICK c \in Block : c = a \o s /\ c = appendPrefixedString(first, prefix, s)
    BY <2>1, <2>3, JoinTyped, Zenon DEF appendPrefixedString
  <2>5. PICK b \in Block : b = c \o r /\ b = a \o sr
    <3>1. (a \o s) \o r = a \o (s \o r)
      BY Join3, ZenonT(60)
    <3>2. c \o r \in Block
      BY JoinTyped
    <3> QED  BY <2>2, <2>4, <3>1, <3>2, Zenon
  <2>6. ReadsInt(b, prefix, l, sr) /\ Marked(b, first, prefix)
    BY <2>3, <2>5, IntegerRead
  <2>7. PICK n : n = readPrefixedInt(b, prefix) /\ n = [ok |-> TRUE, v |-> l, rest |-> sr]
    BY <2>6 DEF ReadsInt
  <2>8. n.ok /\ n.v = l /\ n.rest = sr
    BY <2>7
  <2>9. (Head(b) \div Power(prefix)) % 2 = 0
    BY <2>6 DEF Marked
  <2>10. [k \in 1 .. l |-> IF k <= Len(sr) THEN sr[k] ELSE 0] = s
    <3>1. \A k \in 1 .. l + Len(r) : (s \o r)[k] = IF k <= Len(s) THEN s[k] ELSE r[k - Len(s)]
      BY <2>1, ConcatProperties, Zenon DEF Block
    <3>2. \A k \in 1 .. l : k \in 1 .. l + Len(r) /\ k <= l /\ k <= l + Len(r)
      OBVIOUS
    <3>3. \A k \in 1 .. l : sr[k] = s[k]
      BY <2>1, <2>2, <3>1, <3>2, Zenon
    <3>4. s = [k \in 1 .. l |-> s[k]]
      BY <2>1 DEF Block
    <3>5. [k \in 1 .. l |-> IF k <= Len(sr) THEN sr[k] ELSE 0] = [k \in 1 .. l |-> s[k]]
      BY <2>2, <3>2, <3>3, Zenon
    <3> QED  BY <3>4, <3>5
  <2>11. SubSeq(sr, l + 1, Len(sr)) = r
    BY <2>1, <2>2, BackTaken, Zenon DEF Block
  <2>12. CASE sr # <<>>
    <3>1. ~((Head(b) \div Power(prefix)) % 2 = 1)
      BY <2>9
    <3>2. readPrefixedString(b, prefix) = [ok |-> TRUE, rest |-> r, v |-> s]
      BY <2>7, <2>8, <2>10, <2>11, <2>12, <3>1, Zenon DEF readPrefixedString, TakeString
    <3> QED  BY <2>2, <2>4, <2>5, <2>6, <2>12, <3>2, Zenon DEF ReadsString
  <2>13. CASE sr = <<>>
    <3>1. readPrefixedString(b, prefix) = Failed
      BY <2>7, <2>8, <2>13, Zenon DEF readPrefixedString, TakeString
    <3> QED  BY <2>2, <2>4, <2>5, <2>6, <2>13, <3>1, Zenon
  <2> QED  BY <2>12, <2>13
\* The least index is one.
<1>FirstIn. ASSUME NEW S \in SUBSET Nat, S # {} PROVE First(S) \in S
  <2> USE <1>FirstIn
  <2> DEFINE R == OpToRel(<, Nat)
  <2>1. IsWellFoundedOn(R, Nat)
    BY NatLessThanWellFounded, Zenon
  <2>2. PICK x \in S : \A y \in S : ~(<<y, x>> \in R)
    <3> HIDE DEF R
    <3> QED  BY <2>1, WFMin, ZenonT(60)
  <2>3. ASSUME NEW y \in S PROVE x <= y
    <3>1. ~(y < x)
      BY <2>2 DEF OpToRel
    <3> QED  BY <3>1
  <2> QED  BY <2>3, Zenon DEF First
\* h3DecodeHeaders tells the three kinds of lines apart.
<1>Kinds. ASSUME NEW b
          PROVE  /\ Marked(b, 192, 6) => Head(b) >= 128
                 /\ Marked(b, 80, 4) => ~(Head(b) >= 128) /\ Head(b) \div 16 = 5
                 /\ Marked(b, 32, 3) => ~(Head(b) >= 128) /\ ~(Head(b) \div 16 = 5) /\ Head(b) \div 32 = 1
  <2>1. Mask(6) = 63 /\ Mask(4) = 15 /\ Mask(3) = 7
    BY Powers DEF Mask
  <2> DEFINE h == Head(b)
  <2>2. Marked(b, 192, 6) => h \in Octet /\ 192 <= h
    BY DEF Marked
  <2>3. Marked(b, 80, 4) => h \in Octet /\ 80 <= h /\ h <= 80 + 15
    BY <2>1, Zenon DEF Marked
  <2>4. Marked(b, 32, 3) => h \in Octet /\ 32 <= h /\ h <= 32 + 7
    BY <2>1, Zenon DEF Marked
  <2> HIDE DEF h
  <2>5. h \in Octet /\ 192 <= h => h >= 128
    BY DEF Octet
  <2>6. h \in Octet /\ 80 <= h /\ h <= 80 + 15 => ~(h >= 128) /\ h \div 16 = 5
    BY DEF Octet
  <2>7. h \in Octet /\ 32 <= h /\ h <= 32 + 7 => ~(h >= 128) /\ ~(h \div 16 = 5) /\ h \div 32 = 1
    BY DEF Octet
  <2> QED  BY <2>2, <2>3, <2>4, <2>5, <2>6, <2>7, Zenon DEF h
\* The name with what it stands for.
<1>WithValue. ASSUME NEW n, NEW v, NEW w, NEW r, n = [ok |-> TRUE, v |-> v, rest |-> r]
              PROVE  NameIs([n EXCEPT !.v = w], w, r)
  <2> USE <1>WithValue
  <2>1. DOMAIN n = {"ok", "v", "rest"} /\ n.ok /\ n.rest = r
    OBVIOUS
  <2>2. PICK x : x = [n EXCEPT !.v = w]
    OBVIOUS
  <2>3. x.v = w
    BY <2>2
  <2>4. x.ok = n.ok
    BY <2>2
  <2>5. x.rest = n.rest
    BY <2>2
  <2> QED  BY <2>1, <2>2, <2>3, <2>4, <2>5, Zenon DEF NameIs
\* A name from the table.
<1>IndexedName. ASSUME NEW table, TableOk(table), NEW i \in DOMAIN table, NEW r \in Block, NEW b,
                       \/ Head(b) >= 128 /\ ReadsInt(b, 6, i, r)
                       \/ ~(Head(b) >= 128) /\ Head(b) \div 16 = 5 /\ ReadsInt(b, 4, i, r)
                PROVE  NameIs(LineName(table, b), table[i], r)
  <2> USE <1>IndexedName
  <2>1. PICK n : n = [ok |-> TRUE, v |-> i, rest |-> r]
    OBVIOUS
  <2>2. n.ok /\ n.v = i
    BY <2>1
  <2>3. NameIs([n EXCEPT !.v = table[i]], table[i], r)
    BY <2>1, <1>WithValue
  <2>4. CASE Head(b) >= 128 /\ ReadsInt(b, 6, i, r)
    <3>1. readPrefixedInt(b, 6) = n
      BY <2>1, <2>4, Zenon DEF ReadsInt
    <3>2. LineName(table, b) = [n EXCEPT !.v = table[i]]
      BY <2>2, <2>4, <3>1, Zenon DEF LineName
    <3> QED  BY <2>3, <3>2
  <2>5. CASE ~(Head(b) >= 128) /\ Head(b) \div 16 = 5 /\ ReadsInt(b, 4, i, r)
    <3>1. readPrefixedInt(b, 4) = n
      BY <2>1, <2>5, Zenon DEF ReadsInt
    <3>2. LineName(table, b) = [n EXCEPT !.v = table[i]]
      BY <2>2, <2>5, <3>1, Zenon DEF LineName
    <3> QED  BY <2>3, <3>2
  <2> QED  BY <2>4, <2>5
\* A name in full.
<1>LiteralName. ASSUME NEW table, NEW b, NEW s \in Block, NEW r \in Block,
                       ~(Head(b) >= 128), ~(Head(b) \div 16 = 5), Head(b) \div 32 = 1, ReadsString(b, 3, s, r)
                PROVE  NameIs(LineName(table, b), <<s, <<>>>>, r)
  <2> USE <1>LiteralName
  <2>1. PICK n : n = readPrefixedString(b, 3) /\ n = [ok |-> TRUE, v |-> s, rest |-> r]
    BY DEF ReadsString
  <2>2. n.ok /\ n.v = s
    BY <2>1
  <2>3. NameIs([n EXCEPT !.v = <<s, <<>>>>], <<s, <<>>>>, r)
    BY <2>1, <1>WithValue
  <2>4. LineName(table, b) = [n EXCEPT !.v = <<n.v, <<>>>>]
    BY <2>1 DEF LineName
  <2> QED  BY <2>2, <2>3, <2>4, Zenon
\* The value after the name.
<1>ValueAfter. ASSUME NEW table, NEW b, NEW v, NEW s \in Block, NEW r \in Block, ~(Head(b) >= 128),
                      NameIs(LineName(table, b), v, appendPrefixedString(0, 7, s) \o r)
               PROVE  /\ s \o r # <<>> => LineIs(table, b, <<v[1], s>>, r)
                      /\ s \o r = <<>> => ~Line(table, b).ok
  <2> USE <1>ValueAfter
  <2>1. PICK name : name = LineName(table, b) /\ name.ok /\ name.v = v /\ name.rest = appendPrefixedString(0, 7, s) \o r
    BY DEF NameIs
  <2>2. CASE s \o r # <<>>
    <3>1. ReadsString(appendPrefixedString(0, 7, s) \o r, 7, s, r)
      BY <2>2, Flags, <1>StringRead, Zenon
    <3>2. PICK n : n = readPrefixedString(name.rest, 7) /\ n = [ok |-> TRUE, v |-> s, rest |-> r]
      BY <2>1, <3>1 DEF ReadsString
    <3>3. n.ok /\ n.v = s
      BY <3>2
    <3>4. NameIs([n EXCEPT !.v = <<v[1], s>>], <<v[1], s>>, r)
      BY <3>2, <1>WithValue
    <3>5. Line(table, b) = [n EXCEPT !.v = <<v[1], n.v>>]
      BY <2>1, <3>2, <3>3, Zenon DEF Line
    <3> QED  BY <2>2, <3>3, <3>4, <3>5 DEF LineIs, NameIs
  <2>3. CASE s \o r = <<>>
    <3>1. readPrefixedString(appendPrefixedString(0, 7, s) \o r, 7) = Failed
      BY <2>3, Flags, <1>StringRead, Zenon
    <3>2. ~Failed.ok
      BY DEF Failed
    <3>3. Line(table, b) = Failed
      BY <2>1, <3>1, <3>2 DEF Line
    <3> QED  BY <2>3, <3>2, <3>3, Zenon
  <2> QED  BY <2>2, <2>3
\* The index of a line.
<1>IndexRead. ASSUME NEW i \in Nat, NEW r \in Block
              PROVE  /\ ReadsInt(appendPrefixedInt(192, 6, i) \o r, 6, i, r)
                     /\ Marked(appendPrefixedInt(192, 6, i) \o r, 192, 6)
  <2>1. KnownPrefix(192, 6)
    BY Flags, Zenon
  <2> QED  BY <2>1, IntegerRead, ZenonT(60)
\* A field that the table has.
<1>WholeRead. ASSUME NEW table, TableOk(table), NEW kv \in Block \X Block, NEW r \in Block, Whole(table, kv) # {}
              PROVE  FieldRead(table, kv, EncodeField(table, kv), r)
  <2> USE <1>WholeRead
  <2>1. PICK i \in DOMAIN table : i \in Nat /\ i = First(Whole(table, kv)) /\ i \in Whole(table, kv)
    <3>1. Whole(table, kv) \in SUBSET DOMAIN table /\ Whole(table, kv) \in SUBSET Nat
      BY DEF Whole, Named, TableOk
    <3>2. First(Whole(table, kv)) \in Whole(table, kv)
      BY <3>1, <1>FirstIn, Zenon
    <3> QED  BY <3>1, <3>2
  <2>2. table[i] = kv
    <3>1. table[i] \in Block \X Block
      BY DEF TableOk
    <3>2. table[i][1] = kv[1] /\ table[i][2] = kv[2]
      BY <2>1 DEF Whole, Named
    <3> QED  BY <3>1, <3>2
  <2>3. EncodeField(table, kv) = appendPrefixedInt(192, 6, i)
    BY <2>1, ZenonT(60) DEF EncodeField, Whole, Named
  <2>4. PICK f \in Block : f = EncodeField(table, kv) /\ f = appendPrefixedInt(192, 6, i)
    BY <2>1, <2>3, Flags, IntegerRead, ZenonT(60)
  <2>5. ReadsInt(f \o r, 6, i, r) /\ Marked(f \o r, 192, 6)
    <3> DEFINE Q(c) == ReadsInt(c \o r, 6, i, r) /\ Marked(c \o r, 192, 6)
    <3>1. Q(appendPrefixedInt(192, 6, i))
      BY <2>1, <1>IndexRead
    <3>2. Q(f)
      <4> HIDE DEF Q
      <4> QED  BY <2>4, <3>1, Zenon
    <3> QED  BY <3>2
  <2>6. Head(f \o r) >= 128 /\ f \o r # <<>>
    BY <2>5, <1>Kinds, ZenonT(60) DEF Marked
  <2>7. NameIs(LineName(table, f \o r), kv, r)
    BY <2>2, <2>5, <2>6, <1>IndexedName, Zenon
  <2>8. Line(table, f \o r) = LineName(table, f \o r)
    BY <2>6 DEF Line
  <2> QED  BY <2>4, <2>6, <2>7, <2>8, Zenon DEF FieldRead, LineIs, NameIs
\* A field of a name that is written as c and its value.
<1>PartsRead. ASSUME NEW table, NEW kv \in Block \X Block, NEW r \in Block, Whole(table, kv) = {}, NEW c \in Block,
                     NEW v, v[1] = kv[1],
                     \A y \in Block : y # <<>> => c \o y # <<>> /\ ~(Head(c \o y) >= 128) /\ NameIs(LineName(table, c \o y), v, y)
              PROVE  FieldRead(table, kv, c \o appendPrefixedString(0, 7, kv[2]), r)
  <2> USE <1>PartsRead
  <2>1. kv[1] \in Block /\ kv[2] \in Block /\ kv = <<kv[1], kv[2]>>
    BY PairParts, Zenon
  <2>2. PICK e \in Block : e = appendPrefixedString(0, 7, kv[2])
    BY <2>1, Flags, <1>StringRead, Zenon
  <2>3. PICK y \in Block : y = e \o r
    BY JoinTyped, Zenon
  <2>4. y # <<>>
    BY <2>1, <2>2, <2>3, Flags, <1>StringRead, ZenonT(60) DEF Marked
  <2>5. PICK f \in Block : f = c \o e
    BY JoinTyped, Zenon
  <2>6. f \o r = c \o y
    <3> DEFINE Same(s, t, u) == (s \o t) \o u = s \o (t \o u)
    <3>1. \A s, t, u \in Block : Same(s, t, u)
      BY Join3, Zenon
    <3>2. Same(c, e, r)
      <4> HIDE DEF Same
      <4> QED  BY <3>1
    <3> QED  BY <2>3, <2>5, <3>2
  <2>7. f \o r # <<>> /\ ~(Head(f \o r) >= 128) /\ NameIs(LineName(table, f \o r), v, appendPrefixedString(0, 7, kv[2]) \o r)
    BY <2>2, <2>3, <2>4, <2>6, Zenon
  <2>8. /\ kv[2] \o r # <<>> => LineIs(table, f \o r, <<v[1], kv[2]>>, r)
        /\ kv[2] \o r = <<>> => ~Line(table, f \o r).ok
    BY <2>1, <2>7, <1>ValueAfter, Zenon
  <2>9. FieldRead(table, kv, f, r)
    BY <2>1, <2>7, <2>8, Zenon DEF FieldRead
  <2> QED  BY <2>2, <2>5, <2>9, Zenon
\* A field whose name the table has.
<1>NamedRead. ASSUME NEW table, TableOk(table), NEW kv \in Block \X Block, NEW r \in Block,
                     Whole(table, kv) = {}, Named(table, kv) # {}
              PROVE  FieldRead(table, kv, EncodeField(table, kv), r)
  <2> USE <1>NamedRead
  <2>1. PICK i \in DOMAIN table : i \in Nat /\ i = First(Named(table, kv)) /\ i \in Named(table, kv)
    <3>1. Named(table, kv) \in SUBSET DOMAIN table /\ Named(table, kv) \in SUBSET Nat
      BY DEF Named, TableOk
    <3>2. First(Named(table, kv)) \in Named(table, kv)
      BY <3>1, <1>FirstIn, Zenon
    <3> QED  BY <3>1, <3>2
  <2>2. table[i][1] = kv[1]
    BY <2>1 DEF Named
  <2>3. PICK c \in Block : c = appendPrefixedInt(80, 4, i)
    BY <2>1, Flags, IntegerRead, Zenon
  <2>4. EncodeField(table, kv) = c \o appendPrefixedString(0, 7, kv[2])
    BY <2>1, <2>3, Zenon DEF EncodeField, Whole, Named
  <2>5. ASSUME NEW y \in Block
        PROVE  c \o y # <<>> /\ ~(Head(c \o y) >= 128) /\ NameIs(LineName(table, c \o y), table[i], y)
    <3>1. ReadsInt(c \o y, 4, i, y) /\ Marked(c \o y, 80, 4)
      BY <2>1, <2>3, Flags, IntegerRead, Zenon
    <3>2. c \o y # <<>> /\ ~(Head(c \o y) >= 128) /\ Head(c \o y) \div 16 = 5
      BY <3>1, <1>Kinds, ZenonT(60) DEF Marked
    <3>3. NameIs(LineName(table, c \o y), table[i], y)
      BY <3>1, <3>2, <1>IndexedName, Zenon
    <3> QED  BY <3>2, <3>3, Zenon
  <2> QED  BY <2>2, <2>4, <2>5, <1>PartsRead, Zenon
\* A field whose name the table does not have.
<1>LiteralRead. ASSUME NEW table, TableOk(table), NEW kv \in Block \X Block, NEW r \in Block, Named(table, kv) = {}
                PROVE  FieldRead(table, kv, EncodeField(table, kv), r)
  <2> USE <1>LiteralRead
  <2>0. Whole(table, kv) = {}
    BY DEF Whole
  <2>1. PICK k \in Block : k = kv[1]
    OBVIOUS
  <2>2. PICK v : v = <<k, <<>>>> /\ v[1] = kv[1]
    <3>1. ASSUME NEW e PROVE <<k, e>>[1] = k
      OBVIOUS
    <3>2. <<k, <<>>>>[1] = k
      OBVIOUS
    <3> QED  BY <2>1, <3>2, Zenon
  <2>3. PICK c \in Block : c = appendPrefixedString(32, 3, k)
    BY Flags, <1>StringRead, Zenon
  <2>4. EncodeField(table, kv) = c \o appendPrefixedString(0, 7, kv[2])
    BY <2>1, <2>3, Zenon DEF EncodeField, Whole, Named
  <2>5. ASSUME NEW y \in Block, y # <<>>
        PROVE  c \o y # <<>> /\ ~(Head(c \o y) >= 128) /\ NameIs(LineName(table, c \o y), v, y)
    <3>0. k \o y # <<>>
      <4>1. Len(k \o y) = Len(k) + Len(y) /\ Len(k) \in Nat
        OBVIOUS
      <4>2. Len(y) \in Nat \ {0}
        BY <2>5 DEF Block
      <4>3. Len(k) + Len(y) # 0
        BY <4>2
      <4> QED  BY <4>1, <4>3
    <3>1. ReadsString(c \o y, 3, k, y) /\ Marked(c \o y, 32, 3)
      BY <2>3, <3>0, Flags, <1>StringRead, SMTT(60)
    <3>2. c \o y # <<>> /\ ~(Head(c \o y) >= 128) /\ ~(Head(c \o y) \div 16 = 5) /\ Head(c \o y) \div 32 = 1
      BY <3>1, <1>Kinds DEF Marked
    <3>3. NameIs(LineName(table, c \o y), <<k, <<>>>>, y)
      BY <3>1, <3>2, <1>LiteralName, Zenon
    <3> QED  BY <2>2, <3>2, <3>3, Zenon
  <2> QED  BY <2>0, <2>2, <2>4, <2>5, <1>PartsRead, Zenon
<1>FieldsRead. ASSUME NEW table, TableOk(table), NEW kv \in Block \X Block, NEW r \in Block
               PROVE  FieldRead(table, kv, EncodeField(table, kv), r)
  <2> USE <1>FieldsRead
  <2>1. CASE Whole(table, kv) # {}
    BY <2>1, <1>WholeRead, Zenon
  <2>2. CASE Whole(table, kv) = {} /\ Named(table, kv) # {}
    BY <2>2, <1>NamedRead, Zenon
  <2>3. CASE Named(table, kv) = {}
    BY <2>3, <1>LiteralRead, SMTT(60)
  <2> QED  BY <2>1, <2>2, <2>3
<1> QED  BY <1>FieldsRead, Zenon

-----------------------------------------------------------------------------
(* A header block.                                                         *)

\* The fields, and the bytes of each.
FieldSeq == Seq(Block \X Block)

FieldWire(table, fs) == [k \in DOMAIN fs |-> EncodeField(table, fs[k])]

\* The types of their parts.
LEMMA FieldSeqTyped ==
  ASSUME NEW fs \in FieldSeq
  PROVE  Len(fs) \in Nat /\ DOMAIN fs = 1 .. Len(fs) /\ \A i \in 1 .. Len(fs) : fs[i] \in Block \X Block
<1>1. Len(fs) \in Nat /\ DOMAIN fs = 1 .. Len(fs)
  BY DEF FieldSeq
<1>2. ASSUME NEW i \in 1 .. Len(fs) PROVE fs[i] \in Block \X Block
  BY DEF FieldSeq
<1> QED  BY <1>2

\* A field is written as a block that is not empty.
LEMMA FieldWireTyped ==
  ASSUME NEW table, TableOk(table), NEW fs \in FieldSeq
  PROVE  /\ FieldWire(table, fs) \in Seq(Block) /\ Len(FieldWire(table, fs)) = Len(fs)
         /\ \A i \in 1 .. Len(fs) : FieldWire(table, fs)[i] = EncodeField(table, fs[i]) /\ FieldWire(table, fs)[i] # <<>>
<1>1. PICK n \in Nat : n = Len(fs) /\ DOMAIN fs = 1 .. n
  BY FieldSeqTyped
<1>2. ASSUME NEW i \in 1 .. n PROVE EncodeField(table, fs[i]) \in Block /\ EncodeField(table, fs[i]) # <<>>
  <2>1. fs[i] \in Block \X Block /\ <<>> \in Block
    BY <1>1, FieldSeqTyped, JoinNothing
  <2>2. FieldRead(table, fs[i], EncodeField(table, fs[i]), <<>>)
    BY <2>1, FieldsRead, Zenon
  <2>3. PICK f \in Block : f = EncodeField(table, fs[i]) /\ f \o <<>> # <<>>
    BY <2>2, Zenon DEF FieldRead
  <2>4. f \o <<>> = f
    OBVIOUS
  <2> QED  BY <2>3
<1>3. PICK g : g = FieldWire(table, fs)
  OBVIOUS
<1>4. g \in [1 .. n -> Block] /\ \A i \in 1 .. n : g[i] = EncodeField(table, fs[i]) /\ g[i] # <<>>
  BY <1>1, <1>2, <1>3, Zenon DEF FieldWire
<1>5. g \in Seq(Block) /\ Len(g) = n
  BY <1>4
<1> QED  BY <1>1, <1>3, <1>4, <1>5

\* The states of the loop of h3DecodeHeaders.
Decoding == [ok : BOOLEAN, fields : Seq(Field), rest : Block]

\* The last field cannot be read.
Ends(table, fs) == fs # <<>> /\ Whole(table, fs[Len(fs)]) = {} /\ fs[Len(fs)][2] = <<>>

\* Where the loop over the fields has to end.
DecodedTo(table, fs, s) == IF Ends(table, fs) THEN ~s.ok ELSE s.ok /\ s.fields = fs

\* The loop of h3DecodeHeaders over what h3EncodeHeaders writes of the fields.
LEMMA LinesRead ==
  \A table, fs, f, l, s :
    /\ TableOk(table) /\ fs \in FieldSeq /\ f = Joined(FieldWire(table, fs)) /\ l \in Nat /\ l = Len(f) + 2
    /\ s = Loop(DecodePass(table), [ok |-> TRUE, fields |-> <<>>, rest |-> f], l)
    => DecodedTo(table, fs, s)
\* A pass of it.
<1>DecodePasses. ASSUME NEW table
                 PROVE  /\ DOMAIN DecodePass(table) = Decoding
                        /\ \A s \in Decoding :
                             DecodePass(table)[s] = IF ~s.ok \/ s.rest = <<>> THEN s
                                                    ELSE IF Line(table, s.rest).ok
                                                         THEN [ok |-> TRUE, fields |-> Append(s.fields, Line(table, s.rest).v),
                                                               rest |-> Line(table, s.rest).rest]
                                                    ELSE [s EXCEPT !.ok = FALSE]
  BY Zenon DEF DecodePass, Decoding, Block
\* The fields that have been read.
<1>PrefixFields. ASSUME NEW fs \in FieldSeq, NEW i \in 0 .. Len(fs)
                 PROVE  SubSeq(fs, 1, i) \in Seq(Field)
  <2>1. \A j \in 1 .. i : fs[j] \in Field
    <3>1. ASSUME NEW j \in 1 .. i PROVE fs[j] \in Block \X Block
      BY FieldSeqTyped
    <3>2. \A s \in Block : s \in Seq(Nat)
      <4>1. Octet \subseteq Nat
        BY DEF Octet
      <4>2. ASSUME NEW S, NEW T, NEW s \in Seq(S), S \subseteq T PROVE s \in Seq(T)
        BY <4>2
      <4> QED  BY <4>1, <4>2, Zenon DEF Block
    <3> QED  BY <3>1, <3>2 DEF Field
  <2> QED  BY <2>1
\* One field more.
<1>PrefixNext. ASSUME NEW fs \in FieldSeq, NEW i \in 0 .. Len(fs) - 1
               PROVE  Append(SubSeq(fs, 1, i), fs[i + 1]) = SubSeq(fs, 1, i + 1)
  <2>1. Len(fs) \in Nat
    OBVIOUS
  <2>2. PICK j \in 1 .. Len(fs) : j = i + 1 /\ j - 1 = i /\ 1 \in 1 .. Len(fs) /\ i \in Nat
    OBVIOUS
  <2>3. SubSeq(fs, 1, j) = SubSeq(fs, 1, j - 1) \o <<fs[j]>>
    BY <2>2 DEF FieldSeq
  <2>4. SubSeq(fs, 1, i) \in FieldSeq
    <3>1. \A k \in 1 .. i : fs[k] \in Block \X Block
      BY <2>1, <2>2, FieldSeqTyped
    <3> QED  BY <3>1 DEF FieldSeq
  <2>5. fs[j] \in Block \X Block
    BY FieldSeqTyped
  <2>6. Append(SubSeq(fs, 1, i), fs[j]) = SubSeq(fs, 1, i) \o <<fs[j]>>
    <3>1. ASSUME NEW S, NEW q \in Seq(S), NEW x \in S PROVE Append(q, x) = q \o <<x>>
      OBVIOUS
    <3> QED  BY <2>4, <2>5, <3>1, Zenon DEF FieldSeq
  <2> QED  BY <2>2, <2>3, <2>6, Zenon
\* Field i + 1 is read from the block, and what it leaves.
<1>NextField. ASSUME NEW table, TableOk(table), NEW fs \in FieldSeq, NEW i \in 0 .. Len(fs) - 1, NEW b, NEW r,
                     b = Cut(FieldWire(table, fs), i + 1, Len(fs)), r = Cut(FieldWire(table, fs), (i + 1) + 1, Len(fs))
              PROVE  /\ b \in Block /\ r \in Block /\ b # <<>>
                     /\ i + 1 < Len(fs) => r # <<>>
                     /\ i + 1 = Len(fs) => r = <<>>
                     /\ Whole(table, fs[i + 1]) # {} \/ fs[i + 1][2] \o r # <<>> => LineIs(table, b, fs[i + 1], r)
                     /\ ~(Whole(table, fs[i + 1]) # {} \/ fs[i + 1][2] \o r # <<>>) => ~Line(table, b).ok
  <2> USE <1>NextField
  <2>1. PICK n \in Nat : n = Len(fs) /\ DOMAIN fs = 1 .. n
    OBVIOUS
  <2>2. PICK g \in Seq(Block) : g = FieldWire(table, fs) /\ Len(g) = n /\ \A k \in 1 .. n : g[k] = EncodeField(table, fs[k])
    BY <2>1, FieldWireTyped, Zenon
  <2>3. PICK k \in 1 .. n : k = i + 1
    BY <2>1
  <2>4. n \in k .. n /\ k \in 1 .. n + 1 /\ k + 1 \in 1 .. n + 1 /\ n \in k - 1 .. n /\ n \in (k + 1) - 1 .. n
    OBVIOUS
  <2>5. r \in Block /\ r = Cut(g, k + 1, n)
    BY <2>1, <2>2, <2>3, CutTyped
  <2>6. Cut(g, k, n) = g[k] \o r
    BY <2>2, <2>4, <2>5, CutFirst, Zenon
  <2>7. b = g[k] \o r /\ b \in Block
    <3>1. Cut(g, k, n) \in Block
      BY <2>2, <2>4, CutTyped, Zenon
    <3> QED  BY <2>1, <2>2, <2>3, <2>6, <3>1, Zenon
  <2>8. FieldRead(table, fs[k], g[k], r)
    <3>1. fs[k] \in Block \X Block
      BY <2>1, FieldSeqTyped, Zenon
    <3> QED  BY <2>2, <2>5, <3>1, FieldsRead, Zenon
  <2>9. ASSUME k < n PROVE r # <<>>
    <3>1. PICK j \in 1 .. n : j = k + 1 /\ n \in j .. n /\ j + 1 \in 1 .. n + 1 /\ n \in (j + 1) - 1 .. n
      BY <2>9
    <3>2. PICK t \in Block : t = Cut(g, j + 1, n)
      BY <2>2, <3>1, CutTyped
    <3>3. Cut(g, j, n) = g[j] \o t
      BY <2>2, <3>1, <3>2, CutFirst, Zenon
    <3>4. fs[j] \in Block \X Block
      BY <2>1, FieldSeqTyped, Zenon
    <3>5. FieldRead(table, fs[j], g[j], t)
      BY <2>2, <3>4, FieldsRead, Zenon
    <3>6. g[j] \o t # <<>>
      BY <3>5, Zenon DEF FieldRead
    <3> QED  BY <2>5, <3>1, <3>3, <3>6, Zenon
  <2>10. ASSUME k = n PROVE r = <<>>
    BY <2>5, <2>10, CutEmpty
  <2> QED  BY <2>1, <2>3, <2>5, <2>7, <2>8, <2>9, <2>10, Zenon DEF FieldRead
\* A concatenation of nothing.
<1>JoinEmpty. ASSUME NEW a \in Block, NEW b \in Block
              PROVE  a \o b = <<>> <=> a = <<>> /\ b = <<>>
  BY DEF Block
<1>LinesRead. ASSUME NEW table, TableOk(table), NEW fs \in FieldSeq, NEW f, f = Joined(FieldWire(table, fs)),
                     NEW l \in Nat, l = Len(f) + 2, NEW s,
                     s = Loop(DecodePass(table), [ok |-> TRUE, fields |-> <<>>, rest |-> f], l)
              PROVE  DecodedTo(table, fs, s)
  <2> USE <1>LinesRead
  <2>1. PICK n \in Nat : n = Len(fs) /\ DOMAIN fs = 1 .. n
    BY FieldSeqTyped, SMTT(60)
  <2>2. PICK g \in Seq(Block) : g = FieldWire(table, fs) /\ Len(g) = n /\ \A i \in 1 .. n : g[i] # <<>>
    BY <2>1, FieldWireTyped
  <2>3. f = Cut(g, 1, n) /\ f \in Block
    <3>1. 1 \in 1 .. n + 1 /\ n \in 1 - 1 .. n
      OBVIOUS
    <3> QED  BY <2>2, <3>1, CutAll, CutTyped, Zenon
  <2>4. n <= l
    <3>1. Len(f) >= n
      BY <2>2, <2>3, CutLong
    <3>2. Len(f) \in Nat
      BY DEF Block
    <3> QED  BY <3>1, <3>2, SMTT(60)
  <2> DEFINE At(i) == [ok |-> TRUE, fields |-> SubSeq(fs, 1, i), rest |-> Cut(g, i + 1, n)]
  <2>5. ASSUME NEW i \in 0 .. n PROVE At(i) \in Decoding
    <3>1. i + 1 \in 1 .. n + 1 /\ n \in (i + 1) - 1 .. n
      OBVIOUS
    <3>2. Cut(g, i + 1, n) \in Block
      BY <2>2, <3>1, CutTyped, Zenon
    <3>3. SubSeq(fs, 1, i) \in Seq(Field)
      BY <2>1, <1>PrefixFields, Zenon
    <3> QED  BY <3>2, <3>3, Zenon DEF Decoding
  <2>6. ASSUME NEW i \in 0 .. n
        PROVE  At(i).ok /\ At(i).fields = SubSeq(fs, 1, i) /\ At(i).rest = Cut(g, i + 1, n)
    <3>1. PICK x, y : x = SubSeq(fs, 1, i) /\ y = Cut(g, i + 1, n)
      OBVIOUS
    <3>2. [ok |-> TRUE, fields |-> x, rest |-> y].ok /\ [ok |-> TRUE, fields |-> x, rest |-> y].fields = x
          /\ [ok |-> TRUE, fields |-> x, rest |-> y].rest = y
      OBVIOUS
    <3> QED  BY <3>1, <3>2, Zenon
  <2>7. ASSUME NEW i \in 0 .. n - 1
        PROVE  IF i + 1 = n /\ Ends(table, fs) THEN DecodePass(table)[At(i)] = [At(i) EXCEPT !.ok = FALSE]
               ELSE DecodePass(table)[At(i)] = At(i + 1)
    <3>1. i \in 0 .. n /\ i + 1 \in 1 .. n
      OBVIOUS
    <3>2. PICK b, r : b = Cut(g, i + 1, n) /\ r = Cut(g, (i + 1) + 1, n)
      OBVIOUS
    <3>3. PICK kv \in Block \X Block : kv = fs[i + 1]
      BY <2>1, <3>1, FieldSeqTyped, Zenon
    <3>4. /\ b \in Block /\ r \in Block /\ b # <<>>
          /\ i + 1 < n => r # <<>>
          /\ i + 1 = n => r = <<>>
          /\ Whole(table, kv) # {} \/ kv[2] \o r # <<>> => LineIs(table, b, kv, r)
          /\ ~(Whole(table, kv) # {} \/ kv[2] \o r # <<>>) => ~Line(table, b).ok
      <4>1. i \in 0 .. Len(fs) - 1
        BY <2>1
      <4>2. b = Cut(FieldWire(table, fs), i + 1, Len(fs)) /\ r = Cut(FieldWire(table, fs), (i + 1) + 1, Len(fs))
        BY <2>1, <2>2, <3>2
      <4> QED  BY <2>1, <3>3, <4>2, <1>NextField, Zenon
    <3>5. kv[2] \in Block
      BY Zenon
    <3>6. kv[2] \o r = <<>> <=> kv[2] = <<>> /\ r = <<>>
      BY <3>4, <1>JoinEmpty, Zenon
    <3>7. (Whole(table, kv) # {} \/ kv[2] \o r # <<>>) <=> ~(i + 1 = n /\ Ends(table, fs))
      <4>1. CASE i + 1 = n
        <5>1. fs # <<>> /\ fs[Len(fs)] = kv
          BY <2>1, <3>1, <3>3, <4>1
        <5> QED  BY <3>4, <3>6, <5>1 DEF Ends
      <4>2. CASE i + 1 # n
        <5>1. i + 1 < n
          BY <4>2
        <5> QED  BY <3>4, <3>6, <4>2, <5>1, Zenon
      <4> QED  BY <4>1, <4>2, SMTT(60)
    <3>8. DecodePass(table)[At(i)] = IF Line(table, b).ok
                                     THEN [ok |-> TRUE, fields |-> Append(SubSeq(fs, 1, i), Line(table, b).v),
                                           rest |-> Line(table, b).rest]
                                     ELSE [At(i) EXCEPT !.ok = FALSE]
      <4> HIDE DEF At
      <4>1. PICK x \in Decoding : x = At(i) /\ x.ok /\ x.fields = SubSeq(fs, 1, i) /\ x.rest = b
        BY <2>5, <2>6, <3>1, <3>2, Zenon
      <4>2. DecodePass(table)[x] = IF ~x.ok \/ x.rest = <<>> THEN x
                                   ELSE IF Line(table, x.rest).ok
                                        THEN [ok |-> TRUE, fields |-> Append(x.fields, Line(table, x.rest).v),
                                              rest |-> Line(table, x.rest).rest]
                                   ELSE [x EXCEPT !.ok = FALSE]
        BY <1>DecodePasses, Zenon
      <4> QED  BY <3>4, <4>1, <4>2
    <3>9. CASE i + 1 = n /\ Ends(table, fs)
      <4> HIDE DEF At
      <4> QED  BY <3>4, <3>7, <3>8, <3>9
    <3>10. CASE ~(i + 1 = n /\ Ends(table, fs))
      <4>1. Line(table, b).ok /\ Line(table, b).v = kv /\ Line(table, b).rest = r
        BY <3>4, <3>7, <3>10, Zenon DEF LineIs
      <4>2. Append(SubSeq(fs, 1, i), kv) = SubSeq(fs, 1, i + 1)
        BY <2>1, <3>3, <1>PrefixNext, Zenon
      <4>3. [ok |-> TRUE, fields |-> Append(SubSeq(fs, 1, i), Line(table, b).v), rest |-> Line(table, b).rest] = At(i + 1)
        BY <3>2, <4>1, <4>2, Zenon
      <4> HIDE DEF At
      <4> QED  BY <3>8, <3>10, <4>1, <4>3, Zenon
    <3> QED  BY <3>9, <3>10
  <2>8. At(0) = [ok |-> TRUE, fields |-> <<>>, rest |-> f]
    <3>1. SubSeq(fs, 1, 0) = <<>>
      OBVIOUS
    <3>2. 0 + 1 = 1
      OBVIOUS
    <3> QED  BY <2>3, <3>1, <3>2, Zenon
  <2>9. CASE ~Ends(table, fs)
    <3> DEFINE path == [i \in 0 .. n |-> At(i)]
    <3>1. \A i \in 0 .. n : path[i] = At(i)
      OBVIOUS
    <3> HIDE DEF At, path
    <3>2. ASSUME NEW i \in 0 .. n PROVE path[i] \in DOMAIN DecodePass(table)
      BY <2>5, <3>1, <1>DecodePasses, Zenon
    <3>3. ASSUME NEW i \in 0 .. n - 1 PROVE DecodePass(table)[path[i]] = path[i + 1]
      <4>1. i \in 0 .. n /\ i + 1 \in 0 .. n
        OBVIOUS
      <4> QED  BY <2>7, <2>9, <3>1, <4>1, Zenon
    <3>4. n \in 0 .. n /\ 0 \in 0 .. n
      OBVIOUS
    <3>5. DecodePass(table)[path[n]] = path[n]
      <4>1. Cut(g, n + 1, n) = <<>>
        BY CutEmpty, SMTT(60)
      <4>2. PICK x \in Decoding : x = path[n] /\ x.rest = <<>>
        BY <2>5, <2>6, <3>1, <3>4, <4>1
      <4> QED  BY <4>2, <1>DecodePasses, Zenon
    <3>6. Leads(DecodePass(table), path, n)
      BY <3>2, <3>3, Zenon DEF Leads
    <3>7. Loop(DecodePass(table), path[0], l) = path[n]
      BY <2>4, <3>5, <3>6, LoopArrives
    <3>8. s = At(n)
      BY <2>8, <3>1, <3>4, <3>7, Zenon
    <3>9. SubSeq(fs, 1, n) = fs
      BY <2>1 DEF FieldSeq
    <3> QED  BY <2>6, <2>9, <3>4, <3>8, <3>9, Zenon DEF DecodedTo
  <2>10. CASE Ends(table, fs)
    <3>0. n - 1 \in 0 .. n - 1 /\ n - 1 \in 0 .. n /\ (n - 1) + 1 = n /\ n # 0
      <4>1. n # 0
        BY <2>1, <2>10 DEF Ends, FieldSeq
      <4> QED  BY <4>1, SMTT(60)
    <3> DEFINE end == [At(n - 1) EXCEPT !.ok = FALSE]
               path == [i \in 0 .. n |-> IF i = n THEN end ELSE At(i)]
    <3>1. \A i \in 0 .. n : path[i] = IF i = n THEN end ELSE At(i)
      OBVIOUS
    <3>2. end \in Decoding /\ ~end.ok
      <4> HIDE DEF At
      <4>1. PICK x \in Decoding : x = At(n - 1)
        BY <2>5, <3>0, Zenon
      <4>2. [x EXCEPT !.ok = FALSE] \in Decoding /\ ~[x EXCEPT !.ok = FALSE].ok
        BY DEF Decoding
      <4> QED  BY <4>1, <4>2, Zenon
    <3>3. ASSUME NEW i \in 0 .. n - 1
          PROVE  DecodePass(table)[At(i)] = IF i + 1 = n THEN end ELSE At(i + 1)
      <4>1. i + 1 = n => i = n - 1
        OBVIOUS
      <4> HIDE DEF At
      <4> QED  BY <2>7, <2>10, <4>1, Zenon
    <3> HIDE DEF At, path, end
    <3>4. ASSUME NEW i \in 0 .. n PROVE path[i] \in DOMAIN DecodePass(table)
      BY <2>5, <3>1, <3>2, <1>DecodePasses, Zenon
    <3>5. ASSUME NEW i \in 0 .. n - 1 PROVE DecodePass(table)[path[i]] = path[i + 1]
      <4>1. i \in 0 .. n /\ i + 1 \in 0 .. n /\ i # n
        OBVIOUS
      <4> QED  BY <3>1, <3>3, <4>1, Zenon
    <3>6. n \in 0 .. n /\ 0 \in 0 .. n /\ 0 # n
      BY <3>0
    <3>7. path[n] = end /\ path[0] = At(0)
      BY <3>1, <3>6
    <3>8. DecodePass(table)[path[n]] = path[n]
      BY <3>2, <3>7, <1>DecodePasses, Zenon
    <3>9. Leads(DecodePass(table), path, n)
      BY <3>4, <3>5 DEF Leads
    <3>10. Loop(DecodePass(table), path[0], l) = path[n]
      BY <2>4, <3>8, <3>9, LoopArrives
    <3>11. s = end
      BY <2>8, <3>7, <3>10, Zenon
    <3> QED  BY <2>10, <3>2, <3>11, Zenon DEF DecodedTo
  <2> QED  BY <2>9, <2>10, SMTT(60)
<1> QED  BY <1>LinesRead, Zenon

-----------------------------------------------------------------------------
(* What is read is what was written.                                       *)

\* HeadersAgree, from BlockRead and MapRead.
THEOREM HeadersRead == HeadersAgree
\* The map of the fields: a later one replaces an earlier one.
<1>MapRead. ASSUME NEW fs \in FieldSeq
            PROVE  /\ DOMAIN MapOf(fs) = {fs[i][1] : i \in DOMAIN fs}
                   /\ \A i \in DOMAIN fs :
                        (\A j \in i + 1 .. Len(fs) : fs[j][1] # fs[i][1]) => MapOf(fs)[fs[i][1]] = fs[i][2]
  <2>1. PICK n \in Nat : n = Len(fs) /\ DOMAIN fs = 1 .. n
    BY FieldSeqTyped
  <2>2. DOMAIN MapOf(fs) = {fs[i][1] : i \in DOMAIN fs}
    BY DEF MapOf
  <2>3. ASSUME NEW i \in DOMAIN fs, \A j \in i + 1 .. n : fs[j][1] # fs[i][1]
        PROVE  MapOf(fs)[fs[i][1]] = fs[i][2]
    <3>1. PICK k : k = CHOOSE c \in DOMAIN fs : fs[c][1] = fs[i][1] /\ \A j \in c + 1 .. Len(fs) : fs[j][1] # fs[i][1]
      OBVIOUS
    <3>2. k \in DOMAIN fs /\ fs[k][1] = fs[i][1] /\ \A j \in k + 1 .. n : fs[j][1] # fs[i][1]
      BY <2>1, <2>3, <3>1, Zenon
    <3>3. k = i
      <4>1. k \in 1 .. n /\ i \in 1 .. n /\ ~(i \in k + 1 .. n) /\ ~(k \in i + 1 .. n)
        BY <2>1, <2>3, <3>2, Zenon
      <4> QED  BY <4>1
    <3>4. MapOf(fs)[fs[i][1]] = fs[k][2]
      BY <3>1, Zenon DEF MapOf
    <3> QED  BY <3>3, <3>4
  <2> QED  BY <2>1, <2>2, <2>3, Zenon
\* Two integers of 0 are before the fields.
<1>BlockStart. ASSUME NEW f \in Block
               PROVE  /\ <<0, 0>> \o f \in Block /\ Len(<<0, 0>> \o f) = Len(f) + 2
                      /\ ReadsInt(<<0, 0>> \o f, 8, 0, <<0>> \o f) /\ ReadsInt(<<0>> \o f, 7, 0, f)
  <2>1. 0 \in Octet /\ 0 + 0 = 0 /\ 0 \in Nat
    BY DEF Octet
  <2>2. PICK z \in Block : z = <<0>> /\ Len(z) = 1
    BY <2>1, Single
  <2>3. appendPrefixedInt(0, 7, 0) = z /\ appendPrefixedInt(0, 8, 0) = z
    <3>1. Mask(7) = 127 /\ Mask(8) = 255
      BY Powers DEF Mask
    <3>2. 0 < Mask(7) /\ 0 < Mask(8)
      BY <3>1
    <3> QED  BY <2>1, <2>2, <3>2 DEF appendPrefixedInt
  <2>4. PICK t \in Block : t = z \o f /\ Len(t) = Len(f) + 1
    BY <2>1, <2>2, FirstByte, Zenon
  <2>5. <<0, 0>> \o f = z \o t
    <3>1. <<0, 0>> = z \o z
      BY <2>2
    <3>2. (z \o z) \o f = z \o (z \o f)
      BY Join3, Zenon
    <3> QED  BY <2>4, <3>1, <3>2, Zenon
  <2>6. z \o t \in Block /\ Len(z \o t) = Len(t) + 1
    BY <2>1, <2>2, FirstByte, Zenon
  <2>7. ReadsInt(appendPrefixedInt(0, 8, 0) \o t, 8, 0, t)
    BY Flags, IntegerRead, Zenon
  <2>8. ReadsInt(appendPrefixedInt(0, 7, 0) \o f, 7, 0, f)
    BY <2>1, Flags, IntegerRead, Zenon
  <2>9. Len(f) \in Nat /\ (Len(f) + 1) + 1 = Len(f) + 2
    BY DEF Block
  <2> QED  BY <2>2, <2>3, <2>4, <2>5, <2>6, <2>7, <2>8, <2>9, Zenon
\* EndsEmpty, as the lemmas about a field say it.
<1>EndsAre. ASSUME TableOk(Table), NEW fs \in FieldSeq
            PROVE  Ends(Table, fs) <=> EndsEmpty(fs)
  <2> USE <1>EndsAre
  <2>1. PICK n \in Nat : n = Len(fs) /\ DOMAIN fs = 1 .. n
    BY FieldSeqTyped
  <2>2. CASE n = 0
    <3>1. fs = <<>>
      BY <2>1, <2>2 DEF FieldSeq
    <3> QED  BY <3>1 DEF Ends, EndsEmpty
  <2>3. CASE n # 0
    <3>1. n \in 1 .. n
      BY <2>3
    <3>2. PICK kv \in Block \X Block : kv = fs[n]
      BY <2>1, <3>1, FieldSeqTyped
    <3>3. ASSUME NEW i \in DOMAIN Table PROVE Table[i] = kv <=> Table[i][1] = kv[1] /\ Table[i][2] = kv[2]
      <4>1. PICK e \in Block \X Block : e = Table[i]
        BY DEF TableOk
      <4>2. e = <<e[1], e[2]>> /\ kv = <<kv[1], kv[2]>>
        BY PairParts, Zenon
      <4> QED  BY <4>1, <4>2, Zenon
    <3>4. Whole(Table, kv) = {} <=> \A i \in DOMAIN Table : Table[i] # kv
      BY <3>3, Zenon DEF Whole, Named
    <3> QED  BY <2>1, <3>2, <3>4, Zenon DEF Ends, EndsEmpty
  <2> QED  BY <2>2, <2>3
\* h3DecodeHeaders returns the map of the fields, or refuses the block that ends in an
\* empty string.
<1>BlockRead. ASSUME TableOk(Table), NEW fs \in FieldSeq, NEW d, d = h3DecodeHeaders(Table, h3EncodeHeaders(Table, fs))
              PROVE  IF EndsEmpty(fs) THEN ~d.ok ELSE d.ok /\ d.h = MapOf(fs)
  <2> USE <1>BlockRead
  <2>1. PICK f : f = Joined(FieldWire(Table, fs))
    OBVIOUS
  <2>2. PICK b, z : b = <<0, 0>> \o f /\ z = <<0>> \o f
    OBVIOUS
  <2>3. h3EncodeHeaders(Table, fs) = b
    BY <2>1, <2>2 DEF h3EncodeHeaders, FieldWire
  <2>4. f \in Block
    <3>1. Len(fs) \in Nat
      BY FieldSeqTyped
    <3>2. PICK g \in Seq(Block) : g = FieldWire(Table, fs)
      BY FieldWireTyped, Zenon
    <3>3. PICK n \in Nat : n = Len(g)
      BY <3>2, LenProperties
    <3>4. 1 \in 1 .. n + 1 /\ n \in 1 - 1 .. n
      OBVIOUS
    <3> QED  BY <2>1, <3>2, <3>3, <3>4, CutAll, CutTyped, Zenon
  <2>5. PICK l \in Nat : l = Len(b) /\ l = Len(f) + 2
    <3>1. Len(f) \in Nat
      BY LenProperties DEF Block
    <3> QED  BY <2>2, <2>4, <3>1, <1>BlockStart
  <2>6. ReadsInt(b, 8, 0, z) /\ ReadsInt(z, 7, 0, f)
    BY <2>2, <2>4, <1>BlockStart, Zenon
  <2>7. PICK count : count = readPrefixedInt(b, 8) /\ count.ok /\ count.rest = z
    <3>1. PICK count : count = readPrefixedInt(b, 8) /\ count = [ok |-> TRUE, v |-> 0, rest |-> z]
      BY <2>6, Zenon DEF ReadsInt
    <3>2. count.ok /\ count.rest = z
      BY <3>1
    <3> QED  BY <3>1, <3>2, Zenon
  <2>8. PICK base : base = readPrefixedInt(z, 7) /\ base.ok /\ base.rest = f
    <3>1. PICK base : base = readPrefixedInt(z, 7) /\ base = [ok |-> TRUE, v |-> 0, rest |-> f]
      BY <2>6, Zenon DEF ReadsInt
    <3>2. base.ok /\ base.rest = f
      BY <3>1
    <3> QED  BY <3>1
  <2>9. PICK s : s = Loop(DecodePass(Table), [ok |-> TRUE, fields |-> <<>>, rest |-> f], l)
    OBVIOUS
  <2>10. d = IF s.ok THEN [ok |-> TRUE, h |-> MapOf(s.fields)] ELSE Failed
    BY <2>3, <2>5, <2>7, <2>8, <2>9, Zenon DEF h3DecodeHeaders
  <2>11. DecodedTo(Table, fs, s)
    BY <2>1, <2>5, <2>9, LinesRead, Zenon
  <2>12. Failed.ok = FALSE
    BY DEF Failed
  <2>13. CASE EndsEmpty(fs)
    <3>1. ~s.ok
      BY <2>11, <2>13, <1>EndsAre, Zenon DEF DecodedTo
    <3>2. d = Failed
      BY <2>10, <3>1, Zenon
    <3> QED  BY <2>12, <2>13, <3>2, Zenon
  <2>14. CASE ~EndsEmpty(fs)
    <3>1. s.ok /\ s.fields = fs
      BY <2>11, <2>14, <1>EndsAre, Zenon DEF DecodedTo
    <3>2. PICK m : m = MapOf(fs)
      OBVIOUS
    <3>3. d = [ok |-> TRUE, h |-> m]
      BY <2>10, <3>1, <3>2, Zenon
    <3>4. d.ok /\ d.h = m
      BY <3>3
    <3> QED  BY <2>14, <3>2, <3>4, Zenon
  <2> QED  BY <2>13, <2>14
<1>1. TableOk(Table) /\ FieldList \subseteq FieldSeq
  BY H3Assumption, Zenon DEF TableOk, FieldSeq, Block
<1> SUFFICES ASSUME NEW fs \in FieldList, NEW d, d = h3DecodeHeaders(Table, h3EncodeHeaders(Table, fs))
             PROVE  IF EndsEmpty(fs) THEN ~d.ok
                    ELSE /\ d.ok
                         /\ DOMAIN d.h = {fs[i][1] : i \in DOMAIN fs}
                         /\ \A i \in DOMAIN fs :
                              (\A j \in i + 1 .. Len(fs) : fs[j][1] # fs[i][1]) => d.h[fs[i][1]] = fs[i][2]
  BY DEF HeadersAgree, Decodes
<1>2. fs \in FieldSeq
  BY <1>1, Zenon
<1>3. IF EndsEmpty(fs) THEN ~d.ok ELSE d.ok /\ d.h = MapOf(fs)
  BY <1>1, <1>2, <1>BlockRead, Zenon
<1> QED  BY <1>2, <1>3, <1>MapRead, Zenon
=============================================================================
