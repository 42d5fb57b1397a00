------------------------ MODULE SerialFramingProofs ------------------------
(***************************************************************************)
(* Theorems about SerialFraming, for any messages, any number of them, any *)
(* lengths of the buffers, and every way the reader cuts the bytes.        *)
(***************************************************************************)
EXTENDS SerialFraming, SequenceTheorems, WellFoundedInduction, TLAPS

-----------------------------------------------------------------------------
(***************************************************************************)
(* Recursive functions over sequences.                                     *)
(***************************************************************************)
LEMMA Least ==
  ASSUME NEW T \in SUBSET Nat, T # {}
  PROVE  \E n \in T : \A m \in T : n <= m
<1> DEFINE R == OpToRel(<, Nat)
<1>1. IsWellFoundedOn(R, Nat)
  BY NatLessThanWellFounded
<1>2. \A m, n \in Nat : m < n => <<m, n>> \in R
  BY DEF OpToRel
<1> HIDE DEF R
<1>3. PICK n \in T : \A m \in T : ~ (<<m, n>> \in R)
  BY <1>1, WFMin
<1>4. \A m \in T : ~ (m < n)
  BY <1>2, <1>3
<1>5. QED
  BY <1>4

LEMMA Induct ==
  ASSUME NEW S, 0 \in S, \A n \in Nat : n \in S => n + 1 \in S
  PROVE  \A n \in Nat : n \in S
<1> SUFFICES ASSUME { n \in Nat : n \notin S } # {}  PROVE FALSE
  OBVIOUS
<1>1. PICK n \in { n \in Nat : n \notin S } : \A m \in { i \in Nat : i \notin S } : n <= m
  BY Least
<1>2. n - 1 \in Nat /\ n - 1 \in S
  BY <1>1
<1>3. QED
  BY <1>1, <1>2

\* The values of a recursion stay in V if its steps do.
LEMMA Stays ==
  ASSUME NEW V, NEW N \in Nat, NEW f, f[0] \in V,
         \A i \in 1 .. N : f[i - 1] \in V => f[i] \in V
  PROVE  \A i \in 0 .. N : f[i] \in V
<1> DEFINE S == { n \in Nat : n <= N => f[n] \in V }
<1>1. 0 \in S
  OBVIOUS
<1>2. ASSUME NEW n \in Nat, n \in S  PROVE n + 1 \in S
  <2>1. ASSUME n + 1 <= N  PROVE f[n + 1] \in V
    <3>1. PICK k \in 1 .. N : k = n + 1
      BY <2>1
    <3>2. k - 1 = n /\ f[n] \in V
      BY <1>2, <3>1
    <3>3. QED
      BY <3>1, <3>2
  <2>2. QED
    BY <2>1
<1> HIDE DEF S
<1>3. \A n \in Nat : n \in S
  BY <1>1, <1>2, Induct
<1>4. QED
  BY <1>3 DEF S

\* f takes the first m elements of s, one after the other, from base on.
Takes(f, V, op, base, s, m) ==
  /\ f \in [0 .. m -> V] /\ f[0] = base
  /\ \A i \in 1 .. m : f[i] = op[<<f[i - 1], s[i]>>]

LEMMA TakesMore ==
  ASSUME NEW V, NEW E, NEW op \in [V \X E -> V], NEW base \in V, NEW s \in Seq(E),
         NEW m \in Nat, m + 1 <= Len(s), NEW f, Takes(f, V, op, base, s, m)
  PROVE  \E g : Takes(g, V, op, base, s, m + 1)
<1>1. m + 1 \in 1 .. Len(s)
  BY LenProperties
<1>2. PICK x \in E : x = s[m + 1]
  BY <1>1, ElementOfSeq
<1>3. PICK v \in V : v = f[m]
  BY DEF Takes
<1>4. PICK w \in V : w = op[<<v, x>>]
  OBVIOUS
<1> DEFINE g == [n \in 0 .. m + 1 |-> IF n = m + 1 THEN w ELSE f[n]]
<1>5. g \in [0 .. m + 1 -> V] /\ g[0] = base
  BY DEF Takes
<1>6. ASSUME NEW n \in 1 .. m + 1  PROVE g[n] = op[<<g[n - 1], s[n]>>]
  <2>1. CASE n = m + 1
    <3>1. g[n] = w /\ g[n - 1] = v /\ s[n] = x
      BY <1>2, <1>3, <2>1
    <3>2. QED
      BY <1>4, <3>1
  <2>2. CASE n # m + 1
    <3>1. n \in 1 .. m /\ g[n] = f[n] /\ g[n - 1] = f[n - 1]
      BY <2>2
    <3>2. QED
      BY <3>1 DEF Takes
  <2>3. QED
    BY <2>1, <2>2
<1> HIDE DEF g
<1>7. QED
  BY <1>5, <1>6 DEF Takes

LEMMA TakesAll ==
  ASSUME NEW V, NEW E, NEW op \in [V \X E -> V], NEW base \in V, NEW s \in Seq(E)
  PROVE  \E f : Takes(f, V, op, base, s, Len(s))
<1> DEFINE S == { m \in Nat : m <= Len(s) => \E f : Takes(f, V, op, base, s, m) }
<1>1. 0 \in S
  <2>1. Takes([n \in 0 .. 0 |-> base], V, op, base, s, 0)
    BY DEF Takes
  <2>2. QED
    BY <2>1
<1>2. ASSUME NEW m \in Nat, m \in S  PROVE m + 1 \in S
  <2>1. ASSUME m + 1 <= Len(s)  PROVE \E g : Takes(g, V, op, base, s, m + 1)
    <3>1. m <= Len(s)
      BY <2>1, LenProperties
    <3>2. PICK f : Takes(f, V, op, base, s, m)
      BY <1>2, <3>1
    <3>3. QED
      BY <2>1, <3>2, TakesMore
  <2>2. QED
    BY <2>1
<1> HIDE DEF S
<1>3. \A m \in Nat : m \in S
  BY <1>1, <1>2, Induct
<1>4. Len(s) \in Nat
  BY LenProperties
<1>5. Len(s) \in S
  BY <1>3, <1>4
<1>6. QED
  BY <1>4, <1>5 DEF S

\* What begins alike is taken alike.
Alike(s, t, k) == \A i \in 1 .. k : s[i] = t[i]

LEMMA TakesAlike ==
  ASSUME NEW V, NEW op, NEW base, NEW s, NEW t, NEW m \in Nat, NEW n \in Nat, NEW f, NEW g,
         NEW k \in Nat, k <= m, k <= n,
         Takes(f, V, op, base, s, m), Takes(g, V, op, base, t, n),
         Alike(s, t, k)
  PROVE  f[k] = g[k]
<1> DEFINE S == { j \in Nat : j <= k => f[j] = g[j] }
<1>1. 0 \in S
  BY DEF Takes
<1>2. ASSUME NEW j \in Nat, j \in S  PROVE j + 1 \in S
  <2>1. ASSUME j + 1 <= k  PROVE f[j + 1] = g[j + 1]
    <3>1. PICK i \in 1 .. k : i = j + 1
      BY <2>1
    <3>2. i \in 1 .. m /\ i \in 1 .. n /\ i - 1 = j /\ f[j] = g[j] /\ s[i] = t[i]
      BY <1>2, <3>1 DEF Alike
    <3>3. f[i] = op[<<f[i - 1], s[i]>>] /\ g[i] = op[<<g[i - 1], t[i]>>]
      BY <3>2 DEF Takes
    <3>4. QED
      BY <3>1, <3>2, <3>3
  <2>2. QED
    BY <2>1
<1> HIDE DEF S
<1>3. \A j \in Nat : j \in S
  BY <1>1, <1>2, Induct
<1>4. QED
  BY <1>3 DEF S
-----------------------------------------------------------------------------
(***************************************************************************)
(* Bytes and checksums.                                                    *)
(***************************************************************************)
LEMMA ByteIs == \A x : x \in Byte <=> x \in Nat /\ x <= 255
BY DEF Byte

LEMMA ZeroIsByte == {0} \subseteq Byte
<1>1. 0 \in Byte
  BY ByteIs
<1>2. QED
  BY <1>1, Zenon

LEMMA ZerosAreBytes ==
  ASSUME NEW z \in Seq({0})
  PROVE  z \in Seq(Byte)
BY ZeroIsByte, SeqMonotonic

LEMMA WordIs ==
  ASSUME NEW n \in Word
  PROVE  \E a, b \in Byte : n \div 256 = a /\ n % 256 = b /\ n = a * 256 + b
<1>1. n \in Nat /\ n \div 256 \in Byte
  BY DEF Word
<1>2. PICK q \in Nat : q = n \div 256
  BY <1>1, ByteIs
<1>3. PICK r \in Nat : r = n % 256 /\ r <= 255
  BY <1>1
<1>4. n = q * 256 + r
  BY <1>1, <1>2, <1>3
<1>5. r \in Byte
  BY <1>3, ByteIs
<1>6. q \in Byte
  BY <1>1, <1>2
<1>7. QED
  BY <1>2, <1>3, <1>4, <1>5, <1>6

LEMMA TwoBytes ==
  ASSUME NEW a \in Byte, NEW b \in Byte
  PROVE  a * 256 \in Word /\ a * 256 + b \in Word
<1>1. a \in Nat /\ b \in Nat /\ b <= 255
  BY ByteIs
<1>2. ASSUME NEW n \in Nat, NEW k \in Nat, n = a * 256 + k, k <= 255
      PROVE  n \in Word
  <2>1. PICK q \in Nat : q = n \div 256
    OBVIOUS
  <2>2. 256 * q <= n /\ n < 256 * q + 256
    BY <2>1
  <2>3. q = a
    BY <1>1, <1>2, <2>2
  <2>4. QED
    BY <2>1, <2>3 DEF Word
<1>3. a * 256 \in Nat /\ a * 256 + b \in Nat /\ a * 256 = a * 256 + 0
  BY <1>1
<1>4. a * 256 \in Word
  BY <1>2, <1>3
<1>5. a * 256 + b \in Word
  BY <1>1, <1>2, <1>3
<1>6. QED
  BY <1>4, <1>5

LEMMA BitIs ==
  ASSUME NEW b \in Byte, NEW w \in Nat \ {0}
  PROVE  Bit(b, w) \in {0, 1}
<1>1. b \div w \in Nat
  BY ByteIs
<1>2. QED
  BY <1>1 DEF Bit

LEMMA XorIsByte ==
  ASSUME NEW a \in Byte, NEW b \in Byte
  PROVE  Xor(a, b) \in Byte
<1> DEFINE x(w) == (Bit(a, w) + Bit(b, w)) % 2
<1>1. \A w \in Nat \ {0} : x(w) \in {0, 1}
  BY BitIs
<1>2. Xor(a, b) = 1 * x(1) + 2 * x(2) + 4 * x(4) + 8 * x(8) + 16 * x(16) + 32 * x(32)
                  + 64 * x(64) + 128 * x(128)
  BY DEF Xor
<1>3. /\ x(1) \in {0, 1} /\ x(2) \in {0, 1} /\ x(4) \in {0, 1} /\ x(8) \in {0, 1}
      /\ x(16) \in {0, 1} /\ x(32) \in {0, 1} /\ x(64) \in {0, 1} /\ x(128) \in {0, 1}
  BY <1>1
<1> HIDE DEF x
<1>4. PICK low \in 0 .. 15 : low = 1 * x(1) + 2 * x(2) + 4 * x(4) + 8 * x(8)
  BY <1>3
<1>5. PICK high \in 0 .. 15 : high = 1 * x(16) + 2 * x(32) + 4 * x(64) + 8 * x(128)
  BY <1>3
<1>6. Xor(a, b) = low + 16 * high
  BY <1>2, <1>3, <1>4, <1>5
<1>7. Xor(a, b) \in Nat /\ Xor(a, b) <= 255
  BY <1>6
<1>8. QED
  BY <1>7, ByteIs

\* A byte that has to be escaped is sent as one that has not, and is found again.
LEMMA EscapeIs ==
  ASSUME NEW b \in Byte, b < 16
  PROVE  Xor(b, 16) = b + 16 /\ Xor(b + 16, 16) = b
<1>1. b \in Nat
  BY ByteIs
<1>2. /\ Bit(16, 1) = 0 /\ Bit(16, 2) = 0 /\ Bit(16, 4) = 0 /\ Bit(16, 8) = 0 /\ Bit(16, 16) = 1
      /\ Bit(16, 32) = 0 /\ Bit(16, 64) = 0 /\ Bit(16, 128) = 0
  BY DEF Bit
<1>3. /\ Bit(b, 16) = 0 /\ Bit(b, 32) = 0 /\ Bit(b, 64) = 0 /\ Bit(b, 128) = 0
  BY <1>1 DEF Bit
<1>4. /\ Bit(b + 16, 16) = 1 /\ Bit(b + 16, 32) = 0 /\ Bit(b + 16, 64) = 0 /\ Bit(b + 16, 128) = 0
  BY <1>1 DEF Bit
<1>5. /\ Bit(b + 16, 1) = Bit(b, 1) /\ Bit(b + 16, 2) = Bit(b, 2) /\ Bit(b + 16, 4) = Bit(b, 4)
      /\ Bit(b + 16, 8) = Bit(b, 8)
  BY <1>1 DEF Bit
<1>6. /\ Bit(b, 1) \in {0, 1} /\ Bit(b, 2) \in {0, 1} /\ Bit(b, 4) \in {0, 1} /\ Bit(b, 8) \in {0, 1}
      /\ b = Bit(b, 1) + 2 * Bit(b, 2) + 4 * Bit(b, 4) + 8 * Bit(b, 8)
  BY <1>1 DEF Bit
<1> DEFINE x(a, w) == (Bit(a, w) + Bit(16, w)) % 2
<1>7. \A a : Xor(a, 16) = 1 * x(a, 1) + 2 * x(a, 2) + 4 * x(a, 4) + 8 * x(a, 8) + 16 * x(a, 16)
                          + 32 * x(a, 32) + 64 * x(a, 64) + 128 * x(a, 128)
  BY DEF Xor
<1>8. /\ x(b, 1) = Bit(b, 1) /\ x(b, 2) = Bit(b, 2) /\ x(b, 4) = Bit(b, 4) /\ x(b, 8) = Bit(b, 8)
      /\ x(b, 16) = 1 /\ x(b, 32) = 0 /\ x(b, 64) = 0 /\ x(b, 128) = 0
  BY <1>2, <1>3, <1>6
<1>9. /\ x(b + 16, 1) = Bit(b, 1) /\ x(b + 16, 2) = Bit(b, 2) /\ x(b + 16, 4) = Bit(b, 4)
      /\ x(b + 16, 8) = Bit(b, 8) /\ x(b + 16, 16) = 0 /\ x(b + 16, 32) = 0
      /\ x(b + 16, 64) = 0 /\ x(b + 16, 128) = 0
  BY <1>2, <1>4, <1>5, <1>6
<1> HIDE DEF x
<1>10. Xor(b, 16) = b + 16
  BY <1>1, <1>6, <1>7, <1>8
<1>11. Xor(b + 16, 16) = b
  BY <1>1, <1>6, <1>7, <1>9
<1>12. QED
  BY <1>10, <1>11

LEMMA HeaderIs ==
  ASSUME NEW type \in Word, NEW len \in Word
  PROVE  \E a, b, c, e \in Byte : /\ Header(type, len) = <<a, b, c, e>>
                                  /\ a * 256 + b = type /\ c * 256 + e = len
<1>1. PICK a, b \in Byte : type \div 256 = a /\ type % 256 = b /\ type = a * 256 + b
  BY WordIs
<1>2. PICK c, e \in Byte : len \div 256 = c /\ len % 256 = e /\ len = c * 256 + e
  BY WordIs
<1>3. Header(type, len) = <<a, b, c, e>>
  BY <1>1, <1>2 DEF Header
<1>4. QED
  BY <1>1, <1>2, <1>3

LEMMA ChecksumIsByte ==
  ASSUME NEW bytes \in Seq(Byte)
  PROVE  Checksum(bytes) \in Byte
<1> DEFINE N == Len(bytes)
           p == CHOOSE f : f = [i \in 0 .. N |-> IF i = 0 THEN 0 ELSE Xor(f[i - 1], bytes[i])]
           op == [x \in Byte \X Byte |-> Xor(x[1], x[2])]
<1>1. N \in Nat
  BY LenProperties
<1>2. Checksum(bytes) = p[N]
  BY DEF Checksum
<1>3. 0 \in Byte /\ op \in [Byte \X Byte -> Byte]
  BY XorIsByte, ByteIs
<1>4. \A a, b \in Byte : op[<<a, b>>] = Xor(a, b)
  OBVIOUS
<1> HIDE DEF op
<1>5. PICK f : Takes(f, Byte, op, 0, bytes, N)
  BY <1>3, TakesAll
<1>6. \A i \in 1 .. N : bytes[i] \in Byte
  BY ElementOfSeq
<1> HIDE DEF N
<1>7. f = [i \in 0 .. N |-> IF i = 0 THEN 0 ELSE Xor(f[i - 1], bytes[i])]
  <2>1. f \in [0 .. N -> Byte] /\ f[0] = 0
    BY <1>5 DEF Takes
  <2>2. ASSUME NEW i \in 1 .. N  PROVE f[i] = Xor(f[i - 1], bytes[i])
    <3>1. f[i - 1] \in Byte /\ bytes[i] \in Byte
      BY <1>1, <1>6, <2>1
    <3>2. f[i] = op[<<f[i - 1], bytes[i]>>]
      BY <1>5 DEF Takes
    <3>3. QED
      BY <1>4, <3>1, <3>2
  <2>3. QED
    BY <1>1, <2>1, <2>2
<1>8. p = [i \in 0 .. N |-> IF i = 0 THEN 0 ELSE Xor(p[i - 1], bytes[i])]
  BY <1>7
<1> HIDE DEF p
<1>9. p[0] = 0 /\ \A i \in 1 .. N : p[i] = Xor(p[i - 1], bytes[i])
  BY <1>1, <1>8
<1>10. \A i \in 1 .. N : p[i - 1] \in Byte => p[i] \in Byte
  BY <1>6, <1>9, XorIsByte
<1>11. \A i \in 0 .. N : p[i] \in Byte
  BY <1>1, <1>3, <1>9, <1>10, Stays
<1>12. QED
  BY <1>1, <1>2, <1>11

LEMMA CrcIsByte ==
  ASSUME NEW type \in Word, NEW len \in Word, NEW data, SubSeq(data, 1, len) \in Seq(Byte)
  PROVE  calculate_crc(type, len, data) \in Byte
<1>1. PICK h, d \in Seq(Byte) : h = Header(type, len) /\ d = SubSeq(data, 1, len)
  <2>1. PICK a, b, c, e \in Byte : Header(type, len) = <<a, b, c, e>>
    BY HeaderIs
  <2>2. <<a, b, c, e>> \in Seq(Byte)
    OBVIOUS
  <2>3. QED
    BY <2>1, <2>2
<1>2. h \o d \in Seq(Byte)
  BY <1>1, ConcatProperties
<1>3. QED
  BY <1>1, <1>2, ChecksumIsByte DEF calculate_crc

\* What has to be escaped, and what is on the line for it.
LEMMA PushIs ==
  ASSUME NEW b \in Byte
  PROVE  /\ push_byte(b) \in Seq(Byte)
         /\ \A i \in 1 .. Len(push_byte(b)) : push_byte(b)[i] \notin {START, END}
<1>1. b \in Nat /\ b <= 255
  BY ByteIs
<1>2. CASE b < 16
  <2>1. Xor(b, 16) = b + 16 /\ b + 16 \in Byte /\ ESC \in Byte
    BY <1>1, <1>2, EscapeIs, ByteIs DEF ESC
  <2>2. push_byte(b) = <<ESC, b + 16>>
    BY <1>2, <2>1 DEF push_byte
  <2>3. QED
    BY <1>1, <2>1, <2>2 DEF START, ESC, END
<1>3. CASE ~ (b < 16)
  BY <1>1, <1>3 DEF push_byte, START, END
<1>4. QED
  BY <1>2, <1>3
-----------------------------------------------------------------------------
(***************************************************************************)
(* Sequences that are joined.                                              *)
(***************************************************************************)
Joined(E) == [x \in Seq(E) \X Seq(E) |-> x[1] \o x[2]]

LEMMA FlattenTakes ==
  ASSUME NEW E, NEW ss \in Seq(Seq(E))
  PROVE  \E f : /\ Takes(f, Seq(E), Joined(E), <<>>, ss, Len(ss))
                /\ FlattenSeq(ss) = f[Len(ss)]
<1> DEFINE N == Len(ss)
           p == CHOOSE f : f = [i \in 1 .. N |-> IF i = 1 THEN ss[i] ELSE f[i - 1] \o ss[i]]
<1>1. N \in Nat /\ <<>> \in Seq(E)
  BY LenProperties, EmptySeq
<1>2. Joined(E) \in [Seq(E) \X Seq(E) -> Seq(E)]
  BY ConcatProperties DEF Joined
<1>3. \A a, b \in Seq(E) : Joined(E)[<<a, b>>] = a \o b
  BY DEF Joined
<1>4. PICK f : Takes(f, Seq(E), Joined(E), <<>>, ss, N)
  BY <1>1, <1>2, TakesAll
<1>5. \A i \in 1 .. N : ss[i] \in Seq(E)
  BY ElementOfSeq
<1>6. CASE N = 0
  <2>1. ss = <<>>
    BY <1>6, EmptySeq
  <2>2. FlattenSeq(ss) = <<>>
    BY <1>6, <2>1 DEF FlattenSeq
  <2>3. f[N] = <<>>
    BY <1>4, <1>6 DEF Takes
  <2>4. QED
    BY <1>4, <2>2, <2>3
<1>7. CASE N # 0
  <2>1. FlattenSeq(ss) = p[N]
    BY <1>7 DEF FlattenSeq
  <2> HIDE DEF N
  <2>2. /\ f[0] = <<>>
        /\ \A i \in 1 .. N : f[i] = f[i - 1] \o ss[i] /\ f[i] \in Seq(E)
    <3>1. f \in [0 .. N -> Seq(E)] /\ f[0] = <<>>
      BY <1>4 DEF Takes
    <3>2. ASSUME NEW i \in 1 .. N  PROVE f[i] = f[i - 1] \o ss[i] /\ f[i] \in Seq(E)
      <4>1. f[i - 1] \in Seq(E) /\ ss[i] \in Seq(E) /\ f[i] \in Seq(E)
        BY <1>1, <1>5, <3>1
      <4>2. f[i] = Joined(E)[<<f[i - 1], ss[i]>>]
        BY <1>4 DEF Takes
      <4>3. QED
        BY <1>3, <4>1, <4>2
    <3>3. QED
      BY <3>1, <3>2
  <2> DEFINE g == [i \in 1 .. N |-> f[i]]
  <2>3. g = [i \in 1 .. N |-> IF i = 1 THEN ss[i] ELSE g[i - 1] \o ss[i]]
    <3>1. ASSUME NEW i \in 1 .. N  PROVE g[i] = IF i = 1 THEN ss[i] ELSE g[i - 1] \o ss[i]
      <4>1. CASE i = 1
        <5>1. i - 1 = 0 /\ ss[i] \in Seq(E)
          BY <1>5, <4>1
        <5>2. f[i] = <<>> \o ss[i]
          BY <2>2, <5>1
        <5>3. <<>> \o ss[i] = ss[i]
          BY <5>1, ConcatEmptySeq
        <5>4. QED
          BY <4>1, <5>2, <5>3
      <4>2. CASE i # 1
        <5>1. i - 1 \in 1 .. N
          BY <1>1, <4>2
        <5>2. QED
          BY <2>2, <4>2, <5>1
      <4>3. QED
        BY <4>1, <4>2
    <3>2. QED
      BY <3>1
  <2> HIDE DEF g
  <2>4. p = [i \in 1 .. N |-> IF i = 1 THEN ss[i] ELSE p[i - 1] \o ss[i]]
    BY <2>3
  <2> HIDE DEF p
  <2> DEFINE S == { n \in Nat : n \in 1 .. N => p[n] = f[n] }
  <2>5. 0 \in S
    OBVIOUS
  <2>6. ASSUME NEW n \in Nat, n \in S  PROVE n + 1 \in S
    <3>1. ASSUME n + 1 \in 1 .. N  PROVE p[n + 1] = f[n + 1]
      <4>1. PICK k \in 1 .. N : k = n + 1
        BY <3>1
      <4>2. CASE k = 1
        <5>1. k - 1 = 0 /\ ss[k] \in Seq(E)
          BY <1>5, <4>2
        <5>2. f[k] = <<>> \o ss[k]
          BY <2>2, <5>1
        <5>3. <<>> \o ss[k] = ss[k]
          BY <5>1, ConcatEmptySeq
        <5>4. p[k] = ss[k]
          BY <2>4, <4>2
        <5>5. QED
          BY <4>1, <5>2, <5>3, <5>4
      <4>3. CASE k # 1
        <5>1. n \in 1 .. N /\ k - 1 = n
          BY <1>1, <4>1, <4>3
        <5>2. p[k] = p[n] \o ss[k] /\ f[k] = f[n] \o ss[k] /\ p[n] = f[n]
          BY <2>2, <2>4, <2>6, <4>3, <5>1
        <5>3. QED
          BY <4>1, <5>2
      <4>4. QED
        BY <4>2, <4>3
    <3>2. QED
      BY <3>1
  <2> HIDE DEF S
  <2>7. \A n \in Nat : n \in S
    BY <2>5, <2>6, Induct
  <2>8. p[N] = f[N]
    <3>1. N \in S /\ N \in 1 .. N
      BY <1>1, <1>7, <2>7
    <3>2. QED
      BY <3>1 DEF S
  <2>9. QED
    BY <1>4, <2>1, <2>8 DEF N
<1>8. QED
  BY <1>6, <1>7

LEMMA FlattenIs ==
  ASSUME NEW E, NEW ss \in Seq(Seq(E))
  PROVE  FlattenSeq(ss) \in Seq(E)
<1>1. PICK f : Takes(f, Seq(E), Joined(E), <<>>, ss, Len(ss)) /\ FlattenSeq(ss) = f[Len(ss)]
  BY FlattenTakes
<1>2. Len(ss) \in Nat
  BY LenProperties
<1>3. QED
  BY <1>1, <1>2 DEF Takes

LEMMA FlattenMore ==
  ASSUME NEW E, NEW ss \in Seq(Seq(E)), NEW x \in Seq(E)
  PROVE  FlattenSeq(Append(ss, x)) = FlattenSeq(ss) \o x
<1> DEFINE tt == Append(ss, x)  N == Len(ss)
<1>1. tt \in Seq(Seq(E)) /\ Len(tt) = N + 1 /\ N \in Nat /\ tt[N + 1] = x
      /\ \A i \in 1 .. N : ss[i] = tt[i]
  BY AppendProperties, LenProperties
<1> HIDE DEF tt, N
<1>2. PICK f : Takes(f, Seq(E), Joined(E), <<>>, ss, N) /\ FlattenSeq(ss) = f[N]
  BY FlattenTakes DEF N
<1>3. PICK g : Takes(g, Seq(E), Joined(E), <<>>, tt, N + 1) /\ FlattenSeq(tt) = g[N + 1]
  BY <1>1, FlattenTakes
<1>4. f[N] = g[N]
  <2>1. PICK n \in Nat : n = N + 1 /\ N <= n /\ N <= N
    BY <1>1
  <2> DEFINE V == Seq(E)  op == Joined(E)  base == <<>>
  <2>2. Takes(f, V, op, base, ss, N)
    BY <1>2
  <2>3. Takes(g, V, op, base, tt, n)
    BY <1>3, <2>1
  <2> HIDE DEF V, op, base
  <2>4. Alike(ss, tt, N)
    BY <1>1 DEF Alike
  <2>5. QED
    BY <1>1, <2>1, <2>2, <2>3, <2>4, TakesAlike
<1>5. g[N + 1] = Joined(E)[<<g[N], x>>]
  <2>1. PICK i \in 1 .. N + 1 : i = N + 1 /\ i - 1 = N
    BY <1>1
  <2>2. g[i] = Joined(E)[<<g[i - 1], tt[i]>>]
    BY <1>3 DEF Takes
  <2>3. QED
    BY <1>1, <2>1, <2>2
<1>6. g[N] \in Seq(E)
  BY <1>1, <1>3 DEF Takes
<1>7. Joined(E)[<<g[N], x>>] = g[N] \o x
  BY <1>6 DEF Joined
<1>8. QED
  BY <1>2, <1>3, <1>4, <1>5, <1>7 DEF tt

LEMMA FlattenNone == FlattenSeq(<<>>) = <<>>
BY DEF FlattenSeq
-----------------------------------------------------------------------------
(***************************************************************************)
(* The bytes of messages.                                                  *)
(***************************************************************************)
\* The bytes between the two ends of a frame.
Inner == Byte \ {START, END}

LEMMA InnerIs == Inner \subseteq Byte
BY DEF Inner

LEMMA PushIsInner ==
  ASSUME NEW b \in Byte
  PROVE  push_byte(b) \in Seq(Inner)
<1>1. push_byte(b) \in Seq(Byte) /\ \A i \in 1 .. Len(push_byte(b)) : push_byte(b)[i] \notin {START, END}
  BY PushIs
<1>2. \A i \in 1 .. Len(push_byte(b)) : push_byte(b)[i] \in Inner
  BY <1>1, ElementOfSeq DEF Inner
<1>3. QED
  BY <1>1, <1>2

LEMMA PushedIs ==
  ASSUME NEW bytes \in Seq(Byte)
  PROVE  [i \in DOMAIN bytes |-> push_byte(bytes[i])] \in Seq(Seq(Inner))
<1>1. Len(bytes) \in Nat /\ DOMAIN bytes = 1 .. Len(bytes)
  BY LenProperties
<1>2. \A i \in 1 .. Len(bytes) : push_byte(bytes[i]) \in Seq(Inner)
  BY ElementOfSeq, PushIsInner
<1>3. QED
  BY <1>1, <1>2

LEMMA EscapedIs ==
  ASSUME NEW bytes \in Seq(Byte)
  PROVE  Escaped(bytes) \in Seq(Inner)
BY PushedIs, FlattenIs DEF Escaped

LEMMA EscapedNone == Escaped(<<>>) = <<>>
<1>1. [i \in DOMAIN <<>> |-> push_byte(<<>>[i])] = <<>>
  OBVIOUS
<1>2. QED
  BY <1>1, FlattenNone DEF Escaped

LEMMA EscapedMore ==
  ASSUME NEW bytes \in Seq(Byte), NEW b \in Byte
  PROVE  Escaped(Append(bytes, b)) = Escaped(bytes) \o push_byte(b)
<1> DEFINE more == Append(bytes, b)
           ss == [i \in DOMAIN bytes |-> push_byte(bytes[i])]
           tt == [i \in DOMAIN more |-> push_byte(more[i])]
<1>1. /\ more \in Seq(Byte) /\ Len(more) = Len(bytes) + 1 /\ more[Len(bytes) + 1] = b
      /\ \A i \in 1 .. Len(bytes) : more[i] = bytes[i]
  BY AppendProperties
<1>2. ss \in Seq(Seq(Inner)) /\ tt \in Seq(Seq(Inner)) /\ push_byte(b) \in Seq(Inner)
  BY <1>1, PushedIs, PushIsInner
<1>3. /\ Len(bytes) \in Nat /\ Len(ss) = Len(bytes) /\ Len(tt) = Len(bytes) + 1
      /\ DOMAIN bytes = 1 .. Len(bytes) /\ DOMAIN more = 1 .. Len(bytes) + 1
  BY <1>1, LenProperties
<1>4. \A i \in 1 .. Len(bytes) : ss[i] = tt[i]
  BY <1>1, <1>3
<1>5. tt[Len(bytes) + 1] = push_byte(b)
  BY <1>1, <1>3
<1> HIDE DEF ss, tt
<1> DEFINE uu == Append(ss, push_byte(b))
<1>6. /\ uu \in Seq(Seq(Inner)) /\ Len(uu) = Len(ss) + 1 /\ uu[Len(ss) + 1] = push_byte(b)
      /\ \A i \in 1 .. Len(ss) : uu[i] = ss[i]
  BY <1>2, AppendProperties
<1> HIDE DEF uu
<1>7. tt = uu
  <2>1. Len(tt) = Len(uu)
    BY <1>3, <1>6
  <2>2. ASSUME NEW i \in 1 .. Len(tt)  PROVE tt[i] = uu[i]
    <3>1. CASE i = Len(bytes) + 1
      BY <1>3, <1>5, <1>6, <3>1
    <3>2. CASE i # Len(bytes) + 1
      <4>1. i \in 1 .. Len(bytes) /\ i \in 1 .. Len(ss)
        BY <1>3, <2>2, <3>2
      <4>2. QED
        BY <1>4, <1>6, <4>1
    <3>3. QED
      BY <3>1, <3>2
  <2> DEFINE S == Seq(Inner)
  <2>3. tt \in Seq(S) /\ uu \in Seq(S)
    BY <1>2, <1>6
  <2> HIDE DEF S
  <2>4. QED
    BY <2>1, <2>2, <2>3, SeqEqual
<1>8. FlattenSeq(uu) = FlattenSeq(ss) \o push_byte(b)
  BY <1>2, FlattenMore DEF uu
<1>9. QED
  BY <1>7, <1>8 DEF Escaped, ss, tt

LEMMA BodyIs ==
  ASSUME NEW m \in Message
  PROVE  /\ m.type \in Word /\ m.data \in Seq(Byte) /\ Len(m.data) \in Word
         /\ Len(m.data) <= MaxMessageLen
         /\ calculate_crc(m.type, Len(m.data), m.data) \in Byte
         /\ Body(m) \in Seq(Byte)
<1>1. m.type \in Word /\ m.data \in Seq(Byte) /\ Len(m.data) <= MaxMessageLen /\ MaxMessageLen \in Word
  BY FramingAssumption
<1>2. PICK len \in Nat : len = Len(m.data)
  BY <1>1, LenProperties
<1>3. len \in Word
  <2>1. PICK n \in Nat : n = MaxMessageLen /\ n \div 256 \in Byte
    BY <1>1 DEF Word
  <2>2. n \div 256 <= 255 /\ len <= n
    BY <1>1, <1>2, <2>1, ByteIs
  <2>3. PICK q \in Nat : q = len \div 256
    OBVIOUS
  <2>4. q <= n \div 256
    BY <2>2, <2>3
  <2>5. q \in Byte
    BY <2>1, <2>2, <2>4, ByteIs
  <2>6. QED
    BY <2>3, <2>5 DEF Word
<1>4. SubSeq(m.data, 1, len) \in Seq(Byte)
  BY <1>1, <1>2, SubSeqFull
<1>5. calculate_crc(m.type, len, m.data) \in Byte
  BY <1>1, <1>3, <1>4, CrcIsByte
<1>6. PICK crc \in Byte : crc = calculate_crc(m.type, len, m.data)
  BY <1>5
<1>7. PICK a, b, c, e \in Byte : Header(m.type, len) = <<a, b, c, e>>
  <2>1. PICK type \in Word : type = m.type
    BY <1>1
  <2>2. QED
    BY <1>3, <2>1, HeaderIs
<1>8. Body(m) = <<a, b, c, e>> \o <<crc>> \o m.data
  BY <1>2, <1>6, <1>7 DEF Body
<1>9. <<a, b, c, e>> \in Seq(Byte) /\ <<crc>> \in Seq(Byte)
  OBVIOUS
<1>10. Body(m) \in Seq(Byte)
  BY <1>1, <1>8, <1>9, ConcatProperties
<1>11. QED
  BY <1>1, <1>2, <1>3, <1>5, <1>10

\* A frame has one start, at its first byte, and one end, at its last.
Framed(f) ==
  /\ f \in Seq(Byte) /\ Len(f) >= 2 /\ f[1] = START /\ f[Len(f)] = END
  /\ \A i \in 2 .. Len(f) : f[i] # START
  /\ \A i \in 1 .. Len(f) - 1 : f[i] # END

LEMMA FrameIs ==
  ASSUME NEW m \in Message
  PROVE  Framed(Frame(m))
<1>1. PICK e \in Seq(Inner) : e = Escaped(Body(m))
  BY BodyIs, EscapedIs
<1>2. START \in Byte /\ END \in Byte /\ START # END
  BY ByteIs DEF START, END
<1>3. e \in Seq(Byte) /\ Len(e) \in Nat /\ \A i \in 1 .. Len(e) : e[i] # START /\ e[i] # END
  <2>1. e \in Seq(Byte)
    BY InnerIs, SeqMonotonic
  <2>2. \A i \in 1 .. Len(e) : e[i] \in Inner
    BY ElementOfSeq
  <2>3. QED
    BY <2>1, <2>2, LenProperties DEF Inner
<1>4. PICK s \in Seq(Byte) : s = <<START>> /\ Len(s) = 1 /\ s[1] = START
  <2>1. <<START>> \in Seq(Byte) /\ Len(<<START>>) = 1 /\ <<START>>[1] = START
    BY <1>2
  <2>2. QED
    BY <2>1
<1>5. PICK t \in Seq(Byte) : t = <<END>> /\ Len(t) = 1 /\ t[1] = END
  <2>1. <<END>> \in Seq(Byte) /\ Len(<<END>>) = 1 /\ <<END>>[1] = END
    BY <1>2
  <2>2. QED
    BY <2>1
<1>6. PICK n \in Nat : n = Len(e)
  BY <1>3
<1>7. PICK h \in Seq(Byte) : h = s \o e
  BY <1>3, ConcatProperties
<1>8. /\ Len(h) = 1 + n /\ h[1] = START
      /\ \A i \in 2 .. 1 + n : h[i] = e[i - 1]
  BY <1>3, <1>4, <1>6, <1>7, ConcatProperties
<1>9. PICK f \in Seq(Byte) : f = h \o t
  BY ConcatProperties
<1>10. Len(f) = 2 + n /\ f[2 + n] = END /\ \A i \in 1 .. 1 + n : f[i] = h[i]
  <2>1. Len(f) = 1 + n + 1 /\ \A i \in 1 .. 2 + n : f[i] = IF i <= 1 + n THEN h[i] ELSE t[i - (1 + n)]
    BY <1>5, <1>8, <1>9, ConcatProperties
  <2>2. QED
    BY <1>5, <2>1
<1>11. \A i \in 2 .. 1 + n : f[i] # START /\ f[i] # END
  <2>1. ASSUME NEW i \in 2 .. 1 + n  PROVE f[i] # START /\ f[i] # END
    <3>1. f[i] = e[i - 1] /\ i - 1 \in 1 .. n
      BY <1>8, <1>10
    <3>2. QED
      BY <1>3, <1>6, <3>1
  <2>2. QED
    BY <2>1
<1>12. f[1] = START
  BY <1>8, <1>10
<1>13. Framed(f)
  <2>1. \A i \in 2 .. 2 + n : f[i] # START
    BY <1>2, <1>10, <1>11
  <2>2. \A i \in 1 .. 1 + n : f[i] # END
    BY <1>2, <1>11, <1>12
  <2>3. QED
    BY <1>10, <1>12, <2>1, <2>2 DEF Framed
<1>14. Frame(m) = f
  BY <1>1, <1>4, <1>5, <1>7, <1>9 DEF Frame
<1>15. QED
  BY <1>13, <1>14
-----------------------------------------------------------------------------
\* Concatenation, for the steps that are about its laws only.
Cat(a, b) == a \o b

LEMMA Regroup ==
  ASSUME NEW E, NEW a \in Seq(E), NEW b \in Seq(E), NEW c \in Seq(E)
  PROVE  Cat(Cat(a, b), c) = Cat(a, Cat(b, c))
BY ConcatAssociative DEF Cat

LEMMA SeqInduct ==
  ASSUME NEW E, NEW S, <<>> \in S,
         \A s \in Seq(E), e \in E : s \in S => Append(s, e) \in S
  PROVE  \A s \in Seq(E) : s \in S
<1> DEFINE T == { n \in Nat : \A s \in Seq(E) : Len(s) = n => s \in S }
<1>1. 0 \in T
  <2>1. ASSUME NEW s \in Seq(E), Len(s) = 0  PROVE s \in S
    <3>1. s = <<>>
      BY <2>1, EmptySeq
    <3>2. QED
      BY <3>1
  <2>2. QED
    BY <2>1
<1>2. ASSUME NEW n \in Nat, n \in T  PROVE n + 1 \in T
  <2>1. ASSUME NEW s \in Seq(E), Len(s) = n + 1  PROVE s \in S
    <3>1. s # <<>>
      BY <2>1, EmptySeq
    <3>2. PICK t \in Seq(E), e \in E : s = Append(t, e)
      BY <3>1, SequenceEmptyOrAppend
    <3>3. Len(t) = n
      <4>1. Len(Append(t, e)) = Len(t) + 1 /\ Len(t) \in Nat
        BY AppendProperties, LenProperties
      <4>2. QED
        BY <2>1, <3>2, <4>1
    <3>4. t \in S
      BY <1>2, <3>3
    <3>5. QED
      BY <3>2, <3>4
  <2>2. QED
    BY <2>1
<1> HIDE DEF T
<1>3. \A n \in Nat : n \in T
  BY <1>1, <1>2, Induct
<1>4. ASSUME NEW s \in Seq(E)  PROVE s \in S
  <2>1. Len(s) \in T
    BY <1>3, LenProperties
  <2>2. QED
    BY <2>1 DEF T
<1>5. QED
  BY <1>4

LEMMA AppendOver ==
  ASSUME NEW E, NEW s \in Seq(E), NEW t \in Seq(E), NEW e \in E
  PROVE  Append(Cat(s, t), e) = Cat(s, Append(t, e))
<1>1. PICK u \in Seq(E) : u = <<e>>
  <2>1. <<e>> \in Seq(E)
    OBVIOUS
  <2>2. QED
    BY <2>1
<1>2. PICK st \in Seq(E) : st = s \o t
  BY ConcatProperties
<1>3. Append(st, e) = st \o u /\ Append(t, e) = t \o u
  BY <1>1, AppendIsConcat
<1>4. Cat(Cat(s, t), u) = Cat(s, Cat(t, u))
  BY Regroup
<1>5. QED
  BY <1>2, <1>3, <1>4 DEF Cat

\* Where two concatenations are the same and are cut at the same place.
LEMMA Cancel ==
  ASSUME NEW E, NEW a \in Seq(E), NEW b \in Seq(E), NEW c \in Seq(E), NEW d \in Seq(E),
         a \o b = c \o d, Len(a) = Len(c)
  PROVE  a = c /\ b = d
<1>1. PICK n \in Nat : n = Len(a) /\ n = Len(c)
  BY LenProperties
<1>2. PICK k \in Nat : k = Len(b)
  BY LenProperties
<1>3. PICK l \in Nat : l = Len(d)
  BY LenProperties
<1>4. /\ Len(a \o b) = n + k
      /\ \A i \in 1 .. n + k : (a \o b)[i] = IF i <= n THEN a[i] ELSE b[i - n]
  <2>1. /\ Len(a \o b) = Len(a) + Len(b)
        /\ \A i \in 1 .. Len(a) + Len(b) : (a \o b)[i] = IF i <= Len(a) THEN a[i] ELSE b[i - Len(a)]
    BY ConcatProperties
  <2>2. Len(a) = n /\ Len(b) = k
    BY <1>1, <1>2
  <2>3. QED
    BY <2>1, <2>2
<1>5. /\ Len(c \o d) = n + l
      /\ \A i \in 1 .. n + l : (c \o d)[i] = IF i <= n THEN c[i] ELSE d[i - n]
  <2>1. /\ Len(c \o d) = Len(c) + Len(d)
        /\ \A i \in 1 .. Len(c) + Len(d) : (c \o d)[i] = IF i <= Len(c) THEN c[i] ELSE d[i - Len(c)]
    BY ConcatProperties
  <2>2. Len(c) = n /\ Len(d) = l
    BY <1>1, <1>3
  <2>3. QED
    BY <2>1, <2>2
<1>6. k = l
  BY <1>4, <1>5
<1>7. ASSUME NEW i \in 1 .. n  PROVE a[i] = c[i]
  <2>1. i \in 1 .. n + k /\ i \in 1 .. n + l /\ i <= n
    OBVIOUS
  <2>2. (a \o b)[i] = a[i] /\ (c \o d)[i] = c[i]
    BY <1>4, <1>5, <2>1
  <2>3. QED
    BY <2>2
<1>8. ASSUME NEW i \in 1 .. k  PROVE b[i] = d[i]
  <2>1. PICK j \in 1 .. n + k : j = n + i /\ j \in 1 .. n + l /\ ~ (j <= n) /\ j - n = i
    BY <1>6
  <2>2. (a \o b)[j] = b[i] /\ (c \o d)[j] = d[i]
    BY <1>4, <1>5, <2>1
  <2>3. QED
    BY <2>2
<1>9. a = c
  BY <1>1, <1>7, SeqEqual
<1>10. b = d
  BY <1>2, <1>3, <1>6, <1>8, SeqEqual
<1>11. QED
  BY <1>9, <1>10

LEMMA FramesNone == Frames(<<>>) = <<>>
<1>1. [i \in DOMAIN <<>> |-> Frame(<<>>[i])] = <<>>
  OBVIOUS
<1>2. QED
  BY <1>1, FlattenNone DEF Frames

LEMMA FramedOnes ==
  ASSUME NEW ms \in Seq(Message)
  PROVE  [i \in DOMAIN ms |-> Frame(ms[i])] \in Seq(Seq(Byte))
<1>1. Len(ms) \in Nat /\ DOMAIN ms = 1 .. Len(ms)
  BY LenProperties
<1>2. \A i \in 1 .. Len(ms) : Frame(ms[i]) \in Seq(Byte)
  BY ElementOfSeq, FrameIs DEF Framed
<1>3. QED
  BY <1>1, <1>2

LEMMA FramesAre ==
  ASSUME NEW ms \in Seq(Message)
  PROVE  Frames(ms) \in Seq(Byte)
BY FramedOnes, FlattenIs DEF Frames

LEMMA FramesMore ==
  ASSUME NEW ms \in Seq(Message), NEW m \in Message
  PROVE  Frames(Append(ms, m)) = Frames(ms) \o Frame(m)
<1> DEFINE more == Append(ms, m)
           ss == [i \in DOMAIN ms |-> Frame(ms[i])]
           tt == [i \in DOMAIN more |-> Frame(more[i])]
<1>1. /\ more \in Seq(Message) /\ Len(more) = Len(ms) + 1 /\ more[Len(ms) + 1] = m
      /\ \A i \in 1 .. Len(ms) : more[i] = ms[i]
  BY AppendProperties
<1>2. ss \in Seq(Seq(Byte)) /\ tt \in Seq(Seq(Byte)) /\ Frame(m) \in Seq(Byte)
  BY <1>1, FramedOnes, FrameIs DEF Framed
<1>3. /\ Len(ms) \in Nat /\ Len(ss) = Len(ms) /\ Len(tt) = Len(ms) + 1
      /\ DOMAIN ms = 1 .. Len(ms) /\ DOMAIN more = 1 .. Len(ms) + 1
  BY <1>1, LenProperties
<1>4. \A i \in 1 .. Len(ms) : ss[i] = tt[i]
  BY <1>1, <1>3
<1>5. tt[Len(ms) + 1] = Frame(m)
  BY <1>1, <1>3
<1> HIDE DEF ss, tt
<1> DEFINE uu == Append(ss, Frame(m))
<1>6. /\ uu \in Seq(Seq(Byte)) /\ Len(uu) = Len(ss) + 1 /\ uu[Len(ss) + 1] = Frame(m)
      /\ \A i \in 1 .. Len(ss) : uu[i] = ss[i]
  BY <1>2, AppendProperties
<1> HIDE DEF uu
<1>7. tt = uu
  <2>1. Len(tt) = Len(uu)
    BY <1>3, <1>6
  <2>2. ASSUME NEW i \in 1 .. Len(tt)  PROVE tt[i] = uu[i]
    <3>1. CASE i = Len(ms) + 1
      BY <1>3, <1>5, <1>6, <3>1
    <3>2. CASE i # Len(ms) + 1
      <4>1. i \in 1 .. Len(ms) /\ i \in 1 .. Len(ss)
        BY <1>3, <2>2, <3>2
      <4>2. QED
        BY <1>4, <1>6, <4>1
    <3>3. QED
      BY <3>1, <3>2
  <2> DEFINE S == Seq(Byte)
  <2>3. tt \in Seq(S) /\ uu \in Seq(S)
    BY <1>2, <1>6
  <2> HIDE DEF S
  <2>4. QED
    BY <2>1, <2>2, <2>3, SeqEqual
<1>8. FlattenSeq(uu) = FlattenSeq(ss) \o Frame(m)
  BY <1>2, FlattenMore DEF uu
<1>9. QED
  BY <1>7, <1>8 DEF Frames, ss, tt

LEMMA FramesOver ==
  ASSUME NEW a \in Seq(Message), NEW b \in Seq(Message)
  PROVE  Frames(a \o b) = Frames(a) \o Frames(b)
<1> DEFINE S == { s \in Seq(Message) : Frames(a \o s) = Frames(a) \o Frames(s) }
<1>1. <<>> \in S
  <2>1. a \o <<>> = a /\ Frames(a) \o <<>> = Frames(a)
    BY FramesAre, ConcatEmptySeq
  <2>2. QED
    BY <2>1, EmptySeq, FramesNone
<1>2. ASSUME NEW s \in Seq(Message), NEW m \in Message, s \in S  PROVE Append(s, m) \in S
  <2>1. PICK t \in Seq(Message) : t = Append(s, m)
    BY AppendProperties
  <2>2. PICK as \in Seq(Message) : as = a \o s
    BY ConcatProperties
  <2>3. PICK at \in Seq(Message) : at = a \o t
    BY ConcatProperties
  <2>4. at = Append(as, m)
    <3>1. Append(Cat(a, s), m) = Cat(a, Append(s, m))
      BY AppendOver
    <3>2. QED
      BY <2>1, <2>2, <2>3, <3>1 DEF Cat
  <2>5. Frames(at) = Frames(as) \o Frame(m) /\ Frames(t) = Frames(s) \o Frame(m)
    BY <2>1, <2>4, FramesMore
  <2>6. PICK fa, fs, fm \in Seq(Byte) : fa = Frames(a) /\ fs = Frames(s) /\ fm = Frame(m)
    <3>1. Frames(a) \in Seq(Byte) /\ Frames(s) \in Seq(Byte)
      BY FramesAre
    <3>2. Frame(m) \in Seq(Byte)
      BY FrameIs DEF Framed
    <3>3. QED
      BY <3>1, <3>2
  <2>7. (fa \o fs) \o fm = fa \o (fs \o fm)
    <3>1. Cat(Cat(fa, fs), fm) = Cat(fa, Cat(fs, fm))
      BY Regroup
    <3>2. QED
      BY <3>1 DEF Cat
  <2>8. Frames(as) = fa \o fs
    BY <1>2, <2>2, <2>6
  <2>9. Frames(at) = Frames(a) \o Frames(t)
    BY <2>5, <2>6, <2>7, <2>8
  <2>10. QED
    BY <2>1, <2>3, <2>9
<1> HIDE DEF S
<1>3. \A s \in Seq(Message) : s \in S
  BY <1>1, <1>2, SeqInduct
<1>4. QED
  BY <1>3 DEF S
-----------------------------------------------------------------------------
(***************************************************************************)
(* Where frames can be told apart.                                         *)
(***************************************************************************)
\* Between two of the messages ms, p bytes are before.
Between(ms, p) == \E a, b \in Seq(Message) : ms = a \o b /\ Len(Frames(a)) = p

\* Behind each end, and before each start, a message begins.
Told(ms) ==
  \A p \in 1 .. Len(Frames(ms)) :
    /\ Frames(ms)[p] = END => Between(ms, p)
    /\ Frames(ms)[p] = START => Between(ms, p - 1)

LEMMA BetweenMore ==
  ASSUME NEW ms \in Seq(Message), NEW m \in Message, NEW p, Between(ms, p)
  PROVE  Between(Append(ms, m), p)
<1>1. PICK a, b \in Seq(Message) : ms = a \o b /\ Len(Frames(a)) = p
  BY DEF Between
<1>2. Append(Cat(a, b), m) = Cat(a, Append(b, m))
  BY <1>1, AppendOver
<1>3. PICK c \in Seq(Message) : c = Append(b, m)
  BY <1>1, AppendProperties
<1>4. Append(ms, m) = a \o c
  BY <1>1, <1>2, <1>3 DEF Cat
<1>5. QED
  BY <1>1, <1>4 DEF Between

LEMMA BetweenAll ==
  ASSUME NEW ms \in Seq(Message)
  PROVE  Between(ms, Len(Frames(ms)))
<1>1. ms = ms \o <<>> /\ <<>> \in Seq(Message)
  BY ConcatEmptySeq, EmptySeq
<1>2. QED
  BY <1>1 DEF Between

LEMMA FramesTold ==
  ASSUME NEW ms \in Seq(Message)
  PROVE  Told(ms)
<1> DEFINE S == { s \in Seq(Message) : Told(s) }
<1>1. <<>> \in S
  BY FramesNone, EmptySeq DEF Told
<1>2. ASSUME NEW s \in Seq(Message), NEW m \in Message, s \in S  PROVE Append(s, m) \in S
  <2>1. PICK t \in Seq(Message) : t = Append(s, m)
    BY AppendProperties
  <2>2. PICK f \in Seq(Byte) : f = Frames(s)
    BY FramesAre
  <2>3. PICK g \in Seq(Byte) : g = Frame(m) /\ Framed(g)
    BY FrameIs DEF Framed
  <2>4. PICK n, k \in Nat : n = Len(f) /\ k = Len(g)
    BY LenProperties
  <2>5. PICK h \in Seq(Byte) : h = Frames(t) /\ h = f \o g
    <3>1. Frames(t) = f \o g
      BY <2>1, <2>2, <2>3, FramesMore
    <3>2. Frames(t) \in Seq(Byte)
      BY FramesAre
    <3>3. QED
      BY <3>1, <3>2
  <2>6. /\ Len(h) = n + k
        /\ \A i \in 1 .. n + k : h[i] = IF i <= n THEN f[i] ELSE g[i - n]
    <3>1. /\ Len(f \o g) = Len(f) + Len(g)
          /\ \A i \in 1 .. Len(f) + Len(g) : (f \o g)[i] = IF i <= Len(f) THEN f[i] ELSE g[i - Len(f)]
      BY <2>2, <2>3, ConcatProperties
    <3>2. QED
      BY <2>4, <2>5, <3>1
  <2>7. k >= 2 /\ (\A i \in 2 .. k : g[i] # START) /\ (\A i \in 1 .. k - 1 : g[i] # END)
    BY <2>3, <2>4 DEF Framed
  <2>8. ASSUME NEW p \in 1 .. n + k
        PROVE  (h[p] = END => Between(t, p)) /\ (h[p] = START => Between(t, p - 1))
    <3>1. CASE p <= n
      <4>1. h[p] = f[p] /\ p \in 1 .. n
        BY <2>4, <2>6, <3>1
      <4>2. (f[p] = END => Between(s, p)) /\ (f[p] = START => Between(s, p - 1))
        BY <1>2, <2>2, <2>4, <4>1 DEF Told
      <4>3. QED
        BY <2>1, <4>1, <4>2, BetweenMore
    <3>2. CASE p > n
      <4>1. PICK j \in 1 .. k : j = p - n /\ h[p] = g[j] /\ p = n + j
        <5>1. p - n \in 1 .. k /\ p = n + (p - n) /\ ~ (p <= n)
          BY <2>4, <3>2
        <5>2. h[p] = g[p - n]
          BY <2>6, <5>1
        <5>3. QED
          BY <5>1, <5>2
      <4>2. ASSUME h[p] = END  PROVE Between(t, p)
        <5>1. j \notin 1 .. k - 1
          BY <2>7, <4>1, <4>2
        <5>2. j = k
          BY <2>4, <5>1
        <5>3. p = Len(Frames(t))
          BY <2>5, <2>6, <4>1, <5>2
        <5>4. QED
          BY <5>3, BetweenAll
      <4>3. ASSUME h[p] = START  PROVE Between(t, p - 1)
        <5>1. j \notin 2 .. k
          BY <2>7, <4>1, <4>3
        <5>2. j = 1
          BY <2>4, <5>1
        <5>3. p - 1 = Len(Frames(s))
          BY <2>2, <2>4, <4>1, <5>2
        <5>4. QED
          BY <2>1, <5>3, BetweenAll, BetweenMore
      <4>4. QED
        BY <4>2, <4>3
    <3>3. QED
      BY <2>4, <3>1, <3>2
  <2>9. Told(t)
    BY <2>5, <2>6, <2>8 DEF Told
  <2>10. QED
    BY <2>1, <2>9
<1> HIDE DEF S
<1>3. \A s \in Seq(Message) : s \in S
  BY <1>1, <1>2, SeqInduct
<1>4. QED
  BY <1>3 DEF S

\* The bytes a and b are those of messages each.
Apart(a, b, ms) ==
  \E x, y \in Seq(Message) : ms = x \o y /\ a = Frames(x) /\ b = Frames(y)

LEMMA CutBetween ==
  ASSUME NEW ms \in Seq(Message), NEW a \in Seq(Byte), NEW b \in Seq(Byte),
         a \o b = Frames(ms), Between(ms, Len(a))
  PROVE  Apart(a, b, ms)
<1>1. PICK x, y \in Seq(Message) : ms = x \o y /\ Len(Frames(x)) = Len(a)
  BY DEF Between
<1>2. PICK c, d \in Seq(Byte) : c = Frames(x) /\ d = Frames(y)
  <2>1. Frames(x) \in Seq(Byte) /\ Frames(y) \in Seq(Byte)
    BY <1>1, FramesAre
  <2>2. QED
    BY <2>1
<1>3. a \o b = c \o d /\ Len(a) = Len(c)
  BY <1>1, <1>2, FramesOver
<1>4. a = c /\ b = d
  BY <1>2, <1>3, Cancel
<1>5. QED
  BY <1>1, <1>2, <1>4 DEF Apart

LEMMA CutBehindEnd ==
  ASSUME NEW ms \in Seq(Message), NEW a \in Seq(Byte), NEW b \in Seq(Byte),
         a \o b = Frames(ms), a # <<>>, a[Len(a)] = END
  PROVE  Apart(a, b, ms)
<1>1. Len(a) \in Nat \ {0} /\ Len(b) \in Nat
  BY LenProperties, EmptySeq
<1>2. /\ Len(a \o b) = Len(a) + Len(b)
      /\ \A i \in 1 .. Len(a) + Len(b) : (a \o b)[i] = IF i <= Len(a) THEN a[i] ELSE b[i - Len(a)]
  BY ConcatProperties
<1>3. Len(a) \in 1 .. Len(Frames(ms)) /\ Frames(ms)[Len(a)] = END
  BY <1>1, <1>2
<1>4. Between(ms, Len(a))
  BY <1>3, FramesTold DEF Told
<1>5. QED
  BY <1>4, CutBetween

LEMMA CutBeforeStart ==
  ASSUME NEW ms \in Seq(Message), NEW a \in Seq(Byte), NEW b \in Seq(Byte),
         a \o b = Frames(ms), b # <<>>, b[1] = START
  PROVE  Apart(a, b, ms)
<1>1. PICK n, k \in Nat : n = Len(a) /\ k = Len(b) /\ k >= 1
  BY LenProperties, EmptySeq
<1>2. /\ Len(a \o b) = Len(a) + Len(b)
      /\ \A i \in 1 .. Len(a) + Len(b) : (a \o b)[i] = IF i <= Len(a) THEN a[i] ELSE b[i - Len(a)]
  BY ConcatProperties
<1>3. PICK p \in 1 .. n + k : p = n + 1 /\ ~ (p <= n) /\ p - n = 1 /\ p - 1 = n
  BY <1>1
<1>4. p \in 1 .. Len(Frames(ms)) /\ Frames(ms)[p] = START
  <2>1. (a \o b)[p] = IF p <= n THEN a[p] ELSE b[p - n]
    BY <1>1, <1>2
  <2>2. QED
    BY <1>1, <1>2, <1>3, <2>1
<1>5. Between(ms, p - 1)
  BY <1>4, FramesTold DEF Told
<1>6. QED
  BY <1>1, <1>3, <1>5, CutBetween

\* The bytes of messages begin with a start and end with an end.
LEMMA FramesEnds ==
  ASSUME NEW ms \in Seq(Message), Frames(ms) # <<>>
  PROVE  Frames(ms)[1] = START /\ Frames(ms)[Len(Frames(ms))] = END /\ Len(Frames(ms)) >= 2
<1> DEFINE Good(s) == s # <<>> => s[1] = START /\ s[Len(s)] = END /\ Len(s) >= 2
           S == { s \in Seq(Message) : Good(Frames(s)) }
<1>1. <<>> \in S
  BY FramesNone, EmptySeq
<1>2. ASSUME NEW s \in Seq(Message), NEW m \in Message, s \in S  PROVE Append(s, m) \in S
  <2>1. PICK t \in Seq(Message) : t = Append(s, m)
    BY AppendProperties
  <2>2. PICK f \in Seq(Byte) : f = Frames(s)
    BY FramesAre
  <2>3. PICK g \in Seq(Byte) : g = Frame(m) /\ Framed(g)
    BY FrameIs DEF Framed
  <2>4. PICK n, k \in Nat : n = Len(f) /\ k = Len(g)
    BY LenProperties
  <2>5. PICK h \in Seq(Byte) : h = Frames(t) /\ h = f \o g
    <3>1. Frames(t) = f \o g
      BY <2>1, <2>2, <2>3, FramesMore
    <3>2. Frames(t) \in Seq(Byte)
      BY FramesAre
    <3>3. QED
      BY <3>1, <3>2
  <2>6. /\ Len(h) = n + k
        /\ \A i \in 1 .. n + k : h[i] = IF i <= n THEN f[i] ELSE g[i - n]
    <3>1. /\ Len(f \o g) = Len(f) + Len(g)
          /\ \A i \in 1 .. Len(f) + Len(g) : (f \o g)[i] = IF i <= Len(f) THEN f[i] ELSE g[i - Len(f)]
      BY <2>2, <2>3, ConcatProperties
    <3>2. QED
      BY <2>4, <2>5, <3>1
  <2>7. k >= 2 /\ g[1] = START /\ g[k] = END
    BY <2>3, <2>4 DEF Framed
  <2>8. h[n + k] = END
    <3>1. n + k \in 1 .. n + k /\ ~ (n + k <= n) /\ (n + k) - n = k
      BY <2>4, <2>7
    <3>2. h[n + k] = g[(n + k) - n]
      BY <2>6, <3>1
    <3>3. QED
      BY <2>7, <3>1, <3>2
  <2>9. h[1] = START
    <3>1. CASE n = 0
      <4>1. PICK p \in 1 .. n + k : p = 1 /\ ~ (p <= n) /\ p - n = 1
        BY <2>4, <2>7, <3>1
      <4>2. QED
        BY <2>6, <2>7, <4>1
    <3>2. CASE n # 0
      <4>1. PICK p \in 1 .. n + k : p = 1 /\ p <= n
        BY <2>4, <2>7, <3>2
      <4>2. f # <<>> /\ f[1] = START
        BY <1>2, <2>2, <2>4, <3>2, EmptySeq
      <4>3. QED
        BY <2>6, <4>1, <4>2
    <3>3. QED
      BY <3>1, <3>2
  <2>10. Good(h)
    BY <2>4, <2>6, <2>7, <2>8, <2>9
  <2>11. QED
    BY <2>1, <2>5, <2>10
<1> HIDE DEF S
<1>3. \A s \in Seq(Message) : s \in S
  BY <1>1, <1>2, SeqInduct
<1>4. QED
  BY <1>3 DEF S

LEMMA FramesSome ==
  ASSUME NEW ms \in Seq(Message), Frames(ms) = <<>>
  PROVE  ms = <<>>
<1> SUFFICES ASSUME ms # <<>>  PROVE FALSE
  OBVIOUS
<1>1. PICK s \in Seq(Message), m \in Message : ms = Append(s, m)
  BY SequenceEmptyOrAppend
<1>2. PICK f, g \in Seq(Byte) : f = Frames(s) /\ g = Frame(m) /\ Len(g) >= 2
  <2>1. Frames(s) \in Seq(Byte) /\ Frame(m) \in Seq(Byte) /\ Len(Frame(m)) >= 2
    BY <1>1, FramesAre, FrameIs DEF Framed
  <2>2. QED
    BY <2>1
<1>3. f \o g = <<>>
  BY <1>1, <1>2, FramesMore
<1>4. Len(f \o g) = Len(f) + Len(g) /\ Len(f) \in Nat /\ Len(g) \in Nat
  BY <1>2, ConcatProperties, LenProperties
<1>5. Len(f \o g) = 0
  BY <1>3
<1>6. QED
  BY <1>2, <1>4, <1>5
-----------------------------------------------------------------------------
(***************************************************************************)
(* The receiver, and what it makes of any bytes.                           *)
(***************************************************************************)
States == {"WAIT_START", "WAIT_TYPEMSB", "WAIT_TYPELSB", "WAIT_LENMSB", "WAIT_LENLSB", "WAIT_CRC",
           "WAIT_DATA"}
Parsed == [type : Word, data : Seq(Byte)]
Fields == [eRxState : States, bInEsc : BOOLEAN, u16Bytes : 0 .. MaxMessageLen,
           pu16Type : Word, pu16Length : Word, u8CRC : Byte,
           message : [1 .. MaxMessageLen -> Byte], parsed : Seq(Parsed)]

High(n) == \E b \in Byte : n = b * 256

\* Behind a high byte there is room for the low one, and data is only taken
\* when all of it fits.
Receiver ==
  { r \in Fields : /\ r.eRxState = "WAIT_TYPELSB" => High(r.pu16Type)
                   /\ r.eRxState = "WAIT_LENLSB" => High(r.pu16Length)
                   /\ r.eRxState \in {"WAIT_CRC", "WAIT_DATA"} => r.pu16Length <= MaxMessageLen }

LEMMA MaxIs == MaxMessageLen \in Nat \ {0} /\ MaxMessageLen \in Word
BY FramingAssumption DEF Word

LEMMA LowIs ==
  ASSUME NEW n, High(n), NEW b \in Byte
  PROVE  n + b \in Word
BY TwoBytes DEF High

LEMMA HighIs ==
  ASSUME NEW b \in Byte
  PROVE  b * 256 \in Word /\ High(b * 256)
BY TwoBytes DEF High

LEMMA WordIsNat == Word \subseteq Nat
BY DEF Word

LEMMA StartCharIs ==
  ASSUME NEW r \in Receiver
  PROVE  StartChar(r) \in Receiver
<1>1. 0 \in 0 .. MaxMessageLen /\ "WAIT_TYPEMSB" \in States
  BY MaxIs DEF States
<1>2. StartChar(r) \in Fields /\ StartChar(r).eRxState = "WAIT_TYPEMSB"
  BY <1>1 DEF Receiver, Fields, StartChar
<1>3. QED
  BY <1>2 DEF Receiver

LEMMA EscCharIs ==
  ASSUME NEW r \in Receiver, NEW e \in BOOLEAN
  PROVE  [r EXCEPT !.bInEsc = e] \in Receiver
BY DEF Receiver, Fields

LEMMA EndCharIs ==
  ASSUME NEW r \in Receiver
  PROVE  EndChar(r) \in Receiver
<1> DEFINE d == SubSeq(r.message, 1, r.pu16Length)  m == [type |-> r.pu16Type, data |-> d]
           p == IF Accepts(r) THEN Append(r.parsed, m) ELSE r.parsed
<1>1. r \in Fields
  BY DEF Receiver
<1>2. ASSUME Accepts(r)  PROVE d \in Seq(Byte)
  <2>1. PICK n \in Nat : n = r.pu16Length /\ n <= MaxMessageLen
    BY <1>1, <1>2, WordIsNat DEF Accepts, Fields
  <2>2. r.message \in [1 .. MaxMessageLen -> Byte]
    BY <1>1 DEF Fields
  <2>3. \A i \in 1 .. n : r.message[i] \in Byte
    BY <2>1, <2>2, MaxIs
  <2>4. SubSeq(r.message, 1, n) \in Seq(Byte)
    BY <2>3, SubSeqProperties
  <2>5. QED
    BY <2>1, <2>4
<1>3. p \in Seq(Parsed)
  <2>1. r.parsed \in Seq(Parsed) /\ r.pu16Type \in Word
    BY <1>1 DEF Fields
  <2>2. Accepts(r) => m \in Parsed
    BY <1>2, <2>1 DEF Parsed
  <2>3. QED
    BY <2>1, <2>2, AppendProperties
<1>4. EndChar(r) = [r EXCEPT !.parsed = p, !.eRxState = "WAIT_START"]
  BY DEF EndChar
<1> HIDE DEF p
<1>5. "WAIT_START" \in States
  BY DEF States
<1>6. EndChar(r) \in Fields /\ EndChar(r).eRxState = "WAIT_START"
  BY <1>1, <1>3, <1>4, <1>5 DEF Fields
<1>7. QED
  BY <1>6 DEF Receiver

LEMMA TakeByteIs ==
  ASSUME NEW r \in Receiver, NEW b \in Byte
  PROVE  TakeByte(r, b) \in Receiver
<1>1. r \in Fields /\ r.eRxState \in States
  BY DEF Receiver, Fields
<1>2. CASE r.eRxState = "WAIT_START"
  BY <1>2 DEF TakeByte
<1>3. CASE r.eRxState = "WAIT_TYPEMSB"
  <2>1. PICK w \in Word : w = b * 256 /\ High(w)
    BY HighIs
  <2>2. TakeByte(r, b) = [r EXCEPT !.pu16Type = w, !.eRxState = "WAIT_TYPELSB"]
    BY <1>3, <2>1 DEF TakeByte
  <2>3. "WAIT_TYPELSB" \in States
    BY DEF States
  <2>4. /\ TakeByte(r, b) \in Fields /\ TakeByte(r, b).eRxState = "WAIT_TYPELSB"
        /\ TakeByte(r, b).pu16Type = w
    BY <1>1, <2>2, <2>3 DEF Fields
  <2>5. QED
    BY <2>1, <2>4 DEF Receiver
<1>4. CASE r.eRxState = "WAIT_TYPELSB"
  <2>1. TakeByte(r, b) = [r EXCEPT !.pu16Type = r.pu16Type + b, !.eRxState = "WAIT_LENMSB"]
    BY <1>4 DEF TakeByte
  <2>2. r.pu16Type + b \in Word
    BY <1>4, LowIs DEF Receiver
  <2>3. QED
    BY <1>1, <2>1, <2>2 DEF Receiver, Fields, States
<1>5. CASE r.eRxState = "WAIT_LENMSB"
  <2>1. PICK w \in Word : w = b * 256 /\ High(w)
    BY HighIs
  <2>2. TakeByte(r, b) = [r EXCEPT !.pu16Length = w, !.eRxState = "WAIT_LENLSB"]
    BY <1>5, <2>1 DEF TakeByte
  <2>3. "WAIT_LENLSB" \in States
    BY DEF States
  <2>4. /\ TakeByte(r, b) \in Fields /\ TakeByte(r, b).eRxState = "WAIT_LENLSB"
        /\ TakeByte(r, b).pu16Length = w
    BY <1>1, <2>2, <2>3 DEF Fields
  <2>5. QED
    BY <2>1, <2>4 DEF Receiver
<1>6. CASE r.eRxState = "WAIT_LENLSB"
  <2> DEFINE n == r.pu16Length + b  st == IF n > MaxMessageLen THEN "WAIT_START" ELSE "WAIT_CRC"
  <2>1. TakeByte(r, b) = [r EXCEPT !.pu16Length = n, !.eRxState = st]
    BY <1>6 DEF TakeByte
  <2>2. n \in Word
    BY <1>6, LowIs DEF Receiver
  <2>3. n \in Nat /\ MaxMessageLen \in Nat
    BY <2>2, WordIsNat, MaxIs
  <2>4. st \in States /\ st \in {"WAIT_START", "WAIT_CRC"} /\ (st = "WAIT_CRC" => n <= MaxMessageLen)
    BY <2>3 DEF States
  <2> HIDE DEF n, st
  <2>5. QED
    BY <1>1, <2>1, <2>2, <2>4 DEF Receiver, Fields
<1>7. CASE r.eRxState = "WAIT_CRC"
  <2>1. TakeByte(r, b) = [r EXCEPT !.u8CRC = b, !.eRxState = "WAIT_DATA"]
    BY <1>7 DEF TakeByte
  <2>2. QED
    BY <1>1, <1>7, <2>1 DEF Receiver, Fields, States
<1>8. CASE r.eRxState = "WAIT_DATA"
  <2>1. PICK n \in Nat : n = r.pu16Length /\ n <= MaxMessageLen
    BY <1>1, <1>8, WordIsNat DEF Receiver, Fields
  <2>2. PICK k \in 0 .. MaxMessageLen : k = r.u16Bytes
    BY <1>1 DEF Fields
  <2>3. CASE k < n
    <3> DEFINE msg == [r.message EXCEPT ![k + 1] = b]
    <3>1. TakeByte(r, b) = [r EXCEPT !.u16Bytes = k + 1, !.message = msg]
      BY <1>8, <2>1, <2>2, <2>3 DEF TakeByte
    <3>2. msg \in [1 .. MaxMessageLen -> Byte]
      BY <1>1 DEF Fields
    <3>3. k + 1 \in 0 .. MaxMessageLen
      BY <2>1, <2>3, MaxIs
    <3> HIDE DEF msg
    <3>4. QED
      BY <1>1, <1>8, <3>1, <3>2, <3>3 DEF Receiver, Fields
  <2>4. CASE ~ (k < n)
    BY <1>8, <2>1, <2>2, <2>4 DEF TakeByte
  <2>5. QED
    BY <2>3, <2>4
<1>9. QED
  BY <1>1, <1>2, <1>3, <1>4, <1>5, <1>6, <1>7, <1>8 DEF States

LEMMA ReceiveByteIs ==
  ASSUME NEW r \in Receiver, NEW b \in Byte
  PROVE  ReceiveByte(r, b) \in Receiver
<1>1. [r EXCEPT !.bInEsc = FALSE] \in Receiver /\ [r EXCEPT !.bInEsc = TRUE] \in Receiver
  BY EscCharIs
<1>2. 16 \in Byte /\ Xor(b, 16) \in Byte
  BY XorIsByte, ByteIs
<1>3. DataByte(r, b) \in Receiver
  BY <1>1, <1>2, TakeByteIs DEF DataByte
<1>4. QED
  BY <1>1, <1>3, StartCharIs, EndCharIs DEF ReceiveByte

ReceiveOp == [x \in Receiver \X Byte |-> ReceiveByte(x[1], x[2])]

LEMMA ReceiveTakes ==
  ASSUME NEW r \in Receiver, NEW bytes \in Seq(Byte)
  PROVE  \E f : /\ Takes(f, Receiver, ReceiveOp, r, bytes, Len(bytes))
                /\ Receive(r, bytes) = f[Len(bytes)]
<1> DEFINE N == Len(bytes)
           p == CHOOSE f : f = [i \in 0 .. N |-> IF i = 0 THEN r ELSE ReceiveByte(f[i - 1], bytes[i])]
<1>1. N \in Nat
  BY LenProperties
<1>2. Receive(r, bytes) = p[N]
  BY DEF Receive
<1>3. ReceiveOp \in [Receiver \X Byte -> Receiver]
  BY ReceiveByteIs DEF ReceiveOp
<1>4. \A q \in Receiver, b \in Byte : ReceiveOp[<<q, b>>] = ReceiveByte(q, b)
  BY DEF ReceiveOp
<1>5. PICK f : Takes(f, Receiver, ReceiveOp, r, bytes, N)
  BY <1>3, TakesAll
<1>6. \A i \in 1 .. N : bytes[i] \in Byte
  BY ElementOfSeq
<1> HIDE DEF N
<1>7. f = [i \in 0 .. N |-> IF i = 0 THEN r ELSE ReceiveByte(f[i - 1], bytes[i])]
  <2>1. f \in [0 .. N -> Receiver] /\ f[0] = r
    BY <1>5 DEF Takes
  <2>2. ASSUME NEW i \in 1 .. N  PROVE f[i] = ReceiveByte(f[i - 1], bytes[i])
    <3>1. f[i - 1] \in Receiver /\ bytes[i] \in Byte
      BY <1>1, <1>6, <2>1
    <3>2. f[i] = ReceiveOp[<<f[i - 1], bytes[i]>>]
      BY <1>5 DEF Takes
    <3>3. QED
      BY <1>4, <3>1, <3>2
  <2>3. QED
    BY <1>1, <2>1, <2>2
<1>8. p = [i \in 0 .. N |-> IF i = 0 THEN r ELSE ReceiveByte(p[i - 1], bytes[i])]
  BY <1>7
<1> HIDE DEF p
<1>9. p[0] = r /\ \A i \in 1 .. N : p[i] = ReceiveByte(p[i - 1], bytes[i])
  BY <1>1, <1>8
<1>10. \A i \in 1 .. N : p[i - 1] \in Receiver => p[i] \in Receiver
  BY <1>6, <1>9, ReceiveByteIs
<1>11. \A i \in 0 .. N : p[i] \in Receiver
  BY <1>1, <1>9, <1>10, Stays
<1>12. Takes(p, Receiver, ReceiveOp, r, bytes, N)
  <2>1. ASSUME NEW i \in 1 .. N  PROVE p[i] = ReceiveOp[<<p[i - 1], bytes[i]>>]
    <3>1. p[i - 1] \in Receiver
      BY <1>1, <1>11
    <3>2. QED
      BY <1>4, <1>6, <1>9, <3>1
  <2>2. p \in [0 .. N -> Receiver]
    BY <1>8, <1>11
  <2>3. QED
    BY <1>9, <2>1, <2>2 DEF Takes
<1>13. QED
  BY <1>2, <1>12 DEF N

LEMMA ReceiveIs ==
  ASSUME NEW r \in Receiver, NEW bytes \in Seq(Byte)
  PROVE  Receive(r, bytes) \in Receiver
<1>1. PICK f : /\ Takes(f, Receiver, ReceiveOp, r, bytes, Len(bytes))
               /\ Receive(r, bytes) = f[Len(bytes)]
  BY ReceiveTakes
<1>2. Len(bytes) \in Nat
  BY LenProperties
<1>3. QED
  BY <1>1, <1>2 DEF Takes

LEMMA ReceiveNone ==
  ASSUME NEW r \in Receiver
  PROVE  Receive(r, <<>>) = r
<1>1. <<>> \in Seq(Byte) /\ Len(<<>>) = 0
  BY EmptySeq
<1>2. PICK f : Takes(f, Receiver, ReceiveOp, r, <<>>, 0) /\ Receive(r, <<>>) = f[0]
  <2>1. PICK s \in Seq(Byte) : s = <<>> /\ Len(s) = 0
    BY <1>1
  <2>2. PICK f : Takes(f, Receiver, ReceiveOp, r, s, Len(s)) /\ Receive(r, s) = f[Len(s)]
    BY ReceiveTakes
  <2>3. QED
    BY <2>1, <2>2
<1>3. QED
  BY <1>2 DEF Takes

LEMMA ReceiveMore ==
  ASSUME NEW r \in Receiver, NEW s \in Seq(Byte), NEW b \in Byte
  PROVE  Receive(r, Append(s, b)) = ReceiveByte(Receive(r, s), b)
<1> DEFINE t == Append(s, b)  N == Len(s)
<1>1. t \in Seq(Byte) /\ Len(t) = N + 1 /\ N \in Nat /\ t[N + 1] = b /\ \A i \in 1 .. N : s[i] = t[i]
  BY AppendProperties, LenProperties
<1> HIDE DEF t, N
<1>2. PICK f : Takes(f, Receiver, ReceiveOp, r, s, N) /\ Receive(r, s) = f[N]
  BY ReceiveTakes DEF N
<1>3. PICK g : Takes(g, Receiver, ReceiveOp, r, t, N + 1) /\ Receive(r, t) = g[N + 1]
  BY <1>1, ReceiveTakes
<1>4. f[N] = g[N]
  <2>1. PICK n \in Nat : n = N + 1 /\ N <= n /\ N <= N
    BY <1>1
  <2> DEFINE V == Receiver  op == ReceiveOp  base == r
  <2>2. Takes(f, V, op, base, s, N)
    BY <1>2
  <2>3. Takes(g, V, op, base, t, n)
    BY <1>3, <2>1
  <2> HIDE DEF V, op, base
  <2>4. Alike(s, t, N)
    BY <1>1 DEF Alike
  <2>5. QED
    BY <1>1, <2>1, <2>2, <2>3, <2>4, TakesAlike
<1>5. g[N + 1] = ReceiveOp[<<g[N], b>>]
  <2>1. PICK i \in 1 .. N + 1 : i = N + 1 /\ i - 1 = N
    BY <1>1
  <2>2. g[i] = ReceiveOp[<<g[i - 1], t[i]>>]
    BY <1>3 DEF Takes
  <2>3. QED
    BY <1>1, <2>1, <2>2
<1>6. g[N] \in Receiver
  BY <1>1, <1>3 DEF Takes
<1>7. ReceiveOp[<<g[N], b>>] = ReceiveByte(g[N], b)
  BY <1>6 DEF ReceiveOp
<1>8. QED
  BY <1>2, <1>3, <1>4, <1>5, <1>7 DEF t

LEMMA ReceiveOver ==
  ASSUME NEW r \in Receiver, NEW a \in Seq(Byte), NEW b \in Seq(Byte)
  PROVE  Receive(r, Cat(a, b)) = Receive(Receive(r, a), b)
<1> DEFINE S == { s \in Seq(Byte) : Receive(r, Cat(a, s)) = Receive(Receive(r, a), s) }
<1>1. <<>> \in S
  <2>1. Cat(a, <<>>) = a
    BY ConcatEmptySeq DEF Cat
  <2>2. QED
    BY <2>1, EmptySeq, ReceiveIs, ReceiveNone
<1>2. ASSUME NEW s \in Seq(Byte), NEW e \in Byte, s \in S  PROVE Append(s, e) \in S
  <2>1. PICK as \in Seq(Byte) : as = Cat(a, s)
    BY ConcatProperties DEF Cat
  <2>2. Cat(a, Append(s, e)) = Append(as, e)
    BY <2>1, AppendOver
  <2>3. PICK q \in Receiver : q = Receive(r, a)
    BY ReceiveIs
  <2>4. Receive(r, Append(as, e)) = ReceiveByte(Receive(r, as), e)
    BY ReceiveMore
  <2>5. Receive(q, Append(s, e)) = ReceiveByte(Receive(q, s), e)
    BY ReceiveMore
  <2>6. Receive(r, as) = Receive(q, s)
    BY <1>2, <2>1, <2>3
  <2>7. Append(s, e) \in Seq(Byte)
    BY AppendProperties
  <2>8. QED
    BY <2>2, <2>3, <2>4, <2>5, <2>6, <2>7
<1> HIDE DEF S
<1>3. \A s \in Seq(Byte) : s \in S
  BY <1>1, <1>2, SeqInduct
<1>4. QED
  BY <1>3 DEF S
-----------------------------------------------------------------------------
(***************************************************************************)
(* The receiver, and what it makes of a frame.                             *)
(***************************************************************************)
LEMMA TakeKeeps ==
  ASSUME NEW r \in Receiver, NEW b \in Byte
  PROVE  TakeByte(r, b).bInEsc = r.bInEsc /\ TakeByte(r, b).parsed = r.parsed
<1>1. r \in Fields
  BY DEF Receiver
<1>2. QED
  BY <1>1 DEF TakeByte, Fields, States

LEMMA ReceiveOne ==
  ASSUME NEW r \in Receiver, NEW b \in Byte
  PROVE  Receive(r, <<b>>) = ReceiveByte(r, b)
<1>1. <<b>> = Append(<<>>, b) /\ <<>> \in Seq(Byte)
  BY EmptySeq
<1>2. QED
  BY <1>1, ReceiveMore, ReceiveNone

\* A byte that was escaped is taken as the byte it was.
LEMMA PushTaken ==
  ASSUME NEW r \in Receiver, NEW b \in Byte, r.bInEsc = FALSE
  PROVE  Receive(r, push_byte(b)) = TakeByte(r, b)
<1>1. r \in Fields /\ b \in Nat /\ b <= 255
  BY ByteIs DEF Receiver
<1>2. [r EXCEPT !.bInEsc = FALSE] = r
  BY <1>1 DEF Fields
<1>3. CASE b < 16
  <2>1. PICK c \in Byte : c = b + 16 /\ Xor(b, 16) = c /\ Xor(c, 16) = b
    BY <1>1, <1>3, EscapeIs, ByteIs
  <2>2. push_byte(b) = <<ESC, c>> /\ ESC \in Byte
    BY <1>3, <2>1, ByteIs DEF push_byte, ESC
  <2>3. PICK q \in Receiver : q = [r EXCEPT !.bInEsc = TRUE]
    BY EscCharIs
  <2>4. ReceiveByte(r, ESC) = q
    BY <2>3 DEF ReceiveByte, START, ESC, END
  <2>5. q.bInEsc = TRUE /\ [q EXCEPT !.bInEsc = FALSE] = r
    BY <1>1, <1>2, <2>3 DEF Fields
  <2>6. ReceiveByte(q, c) = TakeByte(r, b)
    <3>1. c \notin {START, ESC, END}
      BY <1>1, <2>1 DEF START, ESC, END
    <3>2. ReceiveByte(q, c) = DataByte(q, c)
      BY <3>1 DEF ReceiveByte
    <3>3. QED
      BY <2>1, <2>5, <3>2 DEF DataByte
  <2>7. <<ESC, c>> = Append(<<ESC>>, c) /\ <<ESC>> \in Seq(Byte)
    BY <2>2
  <2>8. Receive(r, <<ESC>>) = q
    BY <2>2, <2>4, ReceiveOne
  <2>9. Receive(r, Append(<<ESC>>, c)) = ReceiveByte(Receive(r, <<ESC>>), c)
    BY <2>7, ReceiveMore
  <2>10. QED
    BY <2>2, <2>6, <2>7, <2>8, <2>9
<1>4. CASE ~ (b < 16)
  <2>1. push_byte(b) = <<b>>
    BY <1>4 DEF push_byte
  <2>2. b \notin {START, ESC, END}
    BY <1>1, <1>4 DEF START, ESC, END
  <2>3. ReceiveByte(r, b) = DataByte(r, b)
    BY <2>2 DEF ReceiveByte
  <2>4. DataByte(r, b) = TakeByte(r, b)
    BY <1>2 DEF DataByte
  <2>5. QED
    BY <2>1, <2>3, <2>4, ReceiveOne
<1>5. QED
  BY <1>3, <1>4

LEMMA BodyBytes ==
  ASSUME NEW m \in Message
  PROVE  /\ Len(Body(m)) = 5 + Len(m.data)
         /\ Body(m)[1] * 256 + Body(m)[2] = m.type
         /\ Body(m)[3] * 256 + Body(m)[4] = Len(m.data)
         /\ Body(m)[5] = calculate_crc(m.type, Len(m.data), m.data)
         /\ \A i \in 1 .. Len(m.data) : Body(m)[5 + i] = m.data[i]
<1>1. PICK d \in Seq(Byte) : d = m.data
  BY BodyIs
<1>2. PICK len \in Nat : len = Len(d)
  BY LenProperties
<1>3. m.type \in Word /\ len \in Word
  BY <1>1, <1>2, BodyIs
<1>4. PICK crc \in Byte : crc = calculate_crc(m.type, len, d)
  BY <1>1, <1>2, BodyIs
<1>5. PICK a, b, c, e \in Byte : /\ Header(m.type, len) = <<a, b, c, e>>
                                 /\ a * 256 + b = m.type /\ c * 256 + e = len
  <2>1. PICK type \in Word : type = m.type
    BY <1>3
  <2>2. QED
    BY <1>3, <2>1, HeaderIs
<1>6. Body(m) = <<a, b, c, e>> \o <<crc>> \o d
  BY <1>1, <1>2, <1>4, <1>5 DEF Body
<1>7. PICK h \in Seq(Byte) : /\ h = <<a, b, c, e>> \o <<crc>> /\ Len(h) = 5
                             /\ h[1] = a /\ h[2] = b /\ h[3] = c /\ h[4] = e /\ h[5] = crc
  <2>1. PICK u \in Seq(Byte) : /\ u = <<a, b, c, e>> /\ Len(u) = 4
                               /\ u[1] = a /\ u[2] = b /\ u[3] = c /\ u[4] = e
    <3>1. <<a, b, c, e>> \in Seq(Byte) /\ Len(<<a, b, c, e>>) = 4
      OBVIOUS
    <3>2. QED
      BY <3>1
  <2>2. PICK v \in Seq(Byte) : v = <<crc>> /\ Len(v) = 1 /\ v[1] = crc
    <3>1. <<crc>> \in Seq(Byte) /\ Len(<<crc>>) = 1
      OBVIOUS
    <3>2. QED
      BY <3>1
  <2>3. PICK h \in Seq(Byte) : h = u \o v
    BY ConcatProperties
  <2>4. /\ Len(u \o v) = Len(u) + Len(v)
        /\ \A i \in 1 .. Len(u) + Len(v) : (u \o v)[i] = IF i <= Len(u) THEN u[i] ELSE v[i - Len(u)]
    BY ConcatProperties
  <2>5. /\ Len(h) = 5
        /\ \A i \in 1 .. 5 : h[i] = IF i <= 4 THEN u[i] ELSE v[i - 4]
    BY <2>1, <2>2, <2>3, <2>4
  <2>6. h[1] = a /\ h[2] = b /\ h[3] = c /\ h[4] = e /\ h[5] = crc
    BY <2>1, <2>2, <2>5
  <2>7. QED
    BY <2>1, <2>2, <2>3, <2>5, <2>6
<1>8. PICK y \in Seq(Byte) : y = h \o d
  BY ConcatProperties
<1>9. /\ Len(y) = 5 + len
      /\ \A i \in 1 .. 5 + len : y[i] = IF i <= 5 THEN h[i] ELSE d[i - 5]
  <2>1. /\ Len(h \o d) = Len(h) + Len(d)
        /\ \A i \in 1 .. Len(h) + Len(d) : (h \o d)[i] = IF i <= Len(h) THEN h[i] ELSE d[i - Len(h)]
    BY ConcatProperties
  <2>2. QED
    BY <1>2, <1>7, <1>8, <2>1
<1>10. y[1] = a /\ y[2] = b /\ y[3] = c /\ y[4] = e /\ y[5] = crc
  BY <1>7, <1>9
<1>11. ASSUME NEW i \in 1 .. len  PROVE y[5 + i] = d[i]
  <2>1. PICK j \in 1 .. 5 + len : j = 5 + i /\ ~ (j <= 5) /\ j - 5 = i
    OBVIOUS
  <2>2. QED
    BY <1>9, <2>1
<1>12. Body(m) = y
  BY <1>6, <1>7, <1>8
<1>13. QED
  BY <1>1, <1>2, <1>4, <1>5, <1>9, <1>10, <1>11, <1>12

\* The receiver q has taken the first k bytes of what is in the frame of m.
Follows(q, old, m, k) ==
  /\ q \in Receiver /\ q.bInEsc = FALSE /\ q.parsed = old
  /\ k <= 5 => q.u16Bytes = 0
  /\ k = 0 => q.eRxState = "WAIT_TYPEMSB"
  /\ k = 1 => q.eRxState = "WAIT_TYPELSB" /\ q.pu16Type = Body(m)[1] * 256
  /\ k = 2 => q.eRxState = "WAIT_LENMSB"
  /\ k >= 2 => q.pu16Type = m.type
  /\ k = 3 => q.eRxState = "WAIT_LENLSB" /\ q.pu16Length = Body(m)[3] * 256
  /\ k = 4 => q.eRxState = "WAIT_CRC"
  /\ k >= 4 => q.pu16Length = Len(m.data)
  /\ k >= 5 => /\ q.eRxState = "WAIT_DATA" /\ q.u16Bytes = k - 5
               /\ q.u8CRC = calculate_crc(m.type, Len(m.data), m.data)
               /\ \A i \in 1 .. k - 5 : q.message[i] = m.data[i]

LEMMA FollowsMore ==
  ASSUME NEW m \in Message, NEW old, NEW k \in Nat, k < Len(Body(m)), NEW q,
         Follows(q, old, m, k)
  PROVE  Follows(TakeByte(q, Body(m)[k + 1]), old, m, k + 1)
<1>1. q \in Receiver /\ q \in Fields
  BY DEF Follows, Receiver
<1>2. PICK len \in Nat : len = Len(m.data) /\ len <= MaxMessageLen
  BY BodyIs, LenProperties
<1>3. PICK n \in Nat : n = k + 1 /\ n \in 1 .. Len(Body(m))
  BY BodyIs, LenProperties
<1>4. PICK b \in Byte : b = Body(m)[n]
  BY <1>3, BodyIs, ElementOfSeq
<1>5. PICK t \in Receiver : t = TakeByte(q, b) /\ t.bInEsc = FALSE /\ t.parsed = old
  BY <1>1, TakeByteIs, TakeKeeps DEF Follows
<1>6. CASE k = 0
  <2>1. t = [q EXCEPT !.pu16Type = b * 256, !.eRxState = "WAIT_TYPELSB"]
    BY <1>5, <1>6 DEF Follows, TakeByte
  <2>2. t.pu16Type = b * 256 /\ t.eRxState = "WAIT_TYPELSB" /\ t.u16Bytes = 0
    BY <1>1, <1>6, <2>1 DEF Fields, Follows
  <2>3. n = 1
    BY <1>3, <1>6
  <2>4. Follows(t, old, m, 1)
    BY <1>4, <1>5, <2>2, <2>3 DEF Follows
  <2>5. QED
    BY <1>3, <1>4, <1>5, <2>3, <2>4
<1>7. CASE k = 1
  <2>1. t = [q EXCEPT !.pu16Type = q.pu16Type + b, !.eRxState = "WAIT_LENMSB"]
    BY <1>5, <1>7 DEF Follows, TakeByte
  <2>2. t.pu16Type = q.pu16Type + b /\ t.eRxState = "WAIT_LENMSB" /\ t.u16Bytes = 0
    BY <1>1, <1>7, <2>1 DEF Fields, Follows
  <2>3. n = 2
    BY <1>3, <1>7
  <2>4. q.pu16Type + b = m.type
    BY <1>4, <1>7, <2>3, BodyBytes DEF Follows
  <2>5. Follows(t, old, m, 2)
    BY <1>5, <2>2, <2>4 DEF Follows
  <2>6. QED
    BY <1>3, <1>4, <1>5, <2>3, <2>5
<1>8. CASE k = 2
  <2>1. t = [q EXCEPT !.pu16Length = b * 256, !.eRxState = "WAIT_LENLSB"]
    BY <1>5, <1>8 DEF Follows, TakeByte
  <2>2. t.pu16Length = b * 256 /\ t.pu16Type = m.type /\ t.eRxState = "WAIT_LENLSB" /\ t.u16Bytes = 0
    BY <1>1, <1>8, <2>1 DEF Fields, Follows
  <2>3. n = 3
    BY <1>3, <1>8
  <2>4. Follows(t, old, m, 3)
    BY <1>4, <1>5, <2>2, <2>3 DEF Follows
  <2>5. QED
    BY <1>3, <1>4, <1>5, <2>3, <2>4
<1>9. CASE k = 3
  <2>1. n = 4
    BY <1>3, <1>9
  <2>2. q.pu16Length + b = len
    BY <1>2, <1>4, <1>9, <2>1, BodyBytes DEF Follows
  <2>3. ~ (len > MaxMessageLen)
    BY <1>2, MaxIs
  <2>4. t = [q EXCEPT !.pu16Length = len, !.eRxState = "WAIT_CRC"]
    BY <1>5, <1>9, <2>2, <2>3 DEF Follows, TakeByte
  <2>5. t.pu16Length = len /\ t.pu16Type = m.type /\ t.eRxState = "WAIT_CRC" /\ t.u16Bytes = 0
    BY <1>1, <1>9, <2>4 DEF Fields, Follows
  <2>6. Follows(t, old, m, 4)
    BY <1>2, <1>5, <2>5 DEF Follows
  <2>7. QED
    BY <1>3, <1>4, <1>5, <2>1, <2>6
<1>10. CASE k = 4
  <2>1. t = [q EXCEPT !.u8CRC = b, !.eRxState = "WAIT_DATA"]
    BY <1>5, <1>10 DEF Follows, TakeByte
  <2>2. /\ t.u8CRC = b /\ t.pu16Type = m.type /\ t.pu16Length = Len(m.data)
        /\ t.eRxState = "WAIT_DATA" /\ t.u16Bytes = 0
    BY <1>1, <1>10, <2>1 DEF Fields, Follows
  <2>3. n = 5
    BY <1>3, <1>10
  <2>4. b = calculate_crc(m.type, Len(m.data), m.data)
    BY <1>4, <2>3, BodyBytes
  <2>5. Follows(t, old, m, 5)
    BY <1>5, <2>2, <2>4 DEF Follows
  <2>6. QED
    BY <1>3, <1>4, <1>5, <2>3, <2>5
<1>11. CASE k >= 5
  <2>1. PICK j \in Nat : j = k - 5 /\ n = 5 + (j + 1) /\ j + 1 \in 1 .. len /\ j < len
    BY <1>2, <1>3, <1>11, BodyBytes
  <2>2. b = m.data[j + 1]
    BY <1>2, <1>4, <2>1, BodyBytes
  <2>3. /\ q.eRxState = "WAIT_DATA" /\ q.u16Bytes = j /\ q.pu16Length = len /\ q.pu16Type = m.type
        /\ q.u8CRC = calculate_crc(m.type, Len(m.data), m.data)
        /\ \A i \in 1 .. j : q.message[i] = m.data[i]
    BY <1>2, <1>11, <2>1 DEF Follows
  <2> DEFINE msg == [q.message EXCEPT ![j + 1] = b]
  <2>4. t = [q EXCEPT !.u16Bytes = j + 1, !.message = msg]
    BY <1>5, <2>1, <2>3 DEF TakeByte
  <2>5. \A i \in 1 .. j + 1 : msg[i] = m.data[i]
    <3>1. q.message \in [1 .. MaxMessageLen -> Byte] /\ j + 1 \in 1 .. MaxMessageLen
      BY <1>1, <1>2, <2>1, MaxIs DEF Fields
    <3>2. ASSUME NEW i \in 1 .. j + 1  PROVE msg[i] = m.data[i]
      <4>1. CASE i = j + 1
        BY <2>2, <3>1, <4>1
      <4>2. CASE i # j + 1
        <5>1. i \in 1 .. j
          BY <2>1, <4>2
        <5>2. i \in 1 .. MaxMessageLen
          BY <3>1, <5>1, MaxIs
        <5>3. msg[i] = q.message[i]
          BY <3>1, <4>2, <5>2
        <5>4. QED
          BY <2>3, <5>1, <5>3
      <4>3. QED
        BY <4>1, <4>2
    <3>3. QED
      BY <3>2
  <2> HIDE DEF msg
  <2>6. /\ t.eRxState = "WAIT_DATA" /\ t.u16Bytes = j + 1 /\ t.pu16Length = len /\ t.pu16Type = m.type
        /\ t.u8CRC = calculate_crc(m.type, Len(m.data), m.data) /\ t.message = msg
    BY <1>1, <2>3, <2>4 DEF Fields
  <2>7. n >= 6 /\ n - 5 = j + 1
    BY <2>1
  <2>8. Follows(t, old, m, n)
    BY <1>2, <1>5, <2>5, <2>6, <2>7 DEF Follows
  <2>9. QED
    BY <1>3, <1>4, <1>5, <2>8
<1>12. QED
  BY <1>6, <1>7, <1>8, <1>9, <1>10, <1>11
-----------------------------------------------------------------------------
\* The first bytes of the frame of m, up to its end, bring the receiver behind them.
LEMMA FollowsAll ==
  ASSUME NEW m \in Message, NEW r \in Receiver, NEW old, Follows(r, old, m, 0)
  PROVE  Follows(Receive(r, Escaped(Body(m))), old, m, Len(Body(m)))
<1> DEFINE body == Body(m)
           Begins(s) == Len(s) <= Len(body) /\ \A i \in 1 .. Len(s) : s[i] = body[i]
           S == { s \in Seq(Byte) : Begins(s) => Follows(Receive(r, Escaped(s)), old, m, Len(s)) }
<1>1. body \in Seq(Byte) /\ Len(body) \in Nat
  BY BodyIs, LenProperties
<1> HIDE DEF body
<1>2. <<>> \in S
  <2>1. Receive(r, Escaped(<<>>)) = r /\ Len(<<>>) = 0 /\ <<>> \in Seq(Byte)
    BY EscapedNone, ReceiveNone, EmptySeq
  <2>2. QED
    BY <2>1
<1>3. ASSUME NEW s \in Seq(Byte), NEW b \in Byte, s \in S  PROVE Append(s, b) \in S
  <2>1. PICK k \in Nat : k = Len(s)
    BY LenProperties
  <2>2. PICK t \in Seq(Byte) : /\ t = Append(s, b) /\ Len(t) = k + 1 /\ t[k + 1] = b
                               /\ \A i \in 1 .. k : t[i] = s[i]
    <3>1. /\ Append(s, b) \in Seq(Byte) /\ Len(Append(s, b)) = Len(s) + 1
          /\ Append(s, b)[Len(s) + 1] = b
          /\ \A i \in 1 .. Len(s) : Append(s, b)[i] = s[i]
      BY AppendProperties
    <3>2. QED
      BY <2>1, <3>1
  <2>3. ASSUME Begins(t)  PROVE Follows(Receive(r, Escaped(t)), old, m, k + 1)
    <3>1. k < Len(body) /\ b = body[k + 1]
      BY <1>1, <2>2, <2>3
    <3>2. Begins(s)
      BY <1>1, <2>1, <2>2, <2>3, <3>1
    <3>3. PICK es, p \in Seq(Byte) : es = Escaped(s) /\ p = push_byte(b)
      <4>1. Escaped(s) \in Seq(Byte)
        BY EscapedIs, InnerIs, SeqMonotonic
      <4>2. push_byte(b) \in Seq(Byte)
        BY PushIs
      <4>3. QED
        BY <4>1, <4>2
    <3>4. Escaped(t) = Cat(es, p)
      BY <2>2, <3>3, EscapedMore DEF Cat
    <3>5. PICK q \in Receiver : q = Receive(r, es)
      BY <3>3, ReceiveIs
    <3>6. Follows(q, old, m, k)
      BY <1>3, <2>1, <3>2, <3>3, <3>5
    <3>7. Receive(r, Cat(es, p)) = Receive(q, p)
      BY <3>3, <3>5, ReceiveOver
    <3>8. Receive(q, p) = TakeByte(q, b)
      BY <3>3, <3>6, PushTaken DEF Follows
    <3>9. Follows(TakeByte(q, body[k + 1]), old, m, k + 1)
      BY <3>1, <3>6, FollowsMore DEF body
    <3>10. QED
      BY <3>1, <3>4, <3>7, <3>8, <3>9
  <2>4. QED
    BY <2>2, <2>3
<1> HIDE DEF S
<1>4. \A s \in Seq(Byte) : s \in S
  BY <1>2, <1>3, SeqInduct
<1>5. Begins(body)
  BY <1>1
<1>6. QED
  BY <1>1, <1>4, <1>5 DEF S, body

\* Nothing has begun, and what is no start changes nothing.
Idle(q) == q.eRxState = "WAIT_START" /\ q.bInEsc = FALSE

\* Whatever state the receiver is in, the bytes that send_message builds for a message
\* make it hand over that message and nothing else, and then wait for the next start.
THEOREM FrameIsParsed ==
  ASSUME NEW m \in Message, NEW r \in Receiver
  PROVE  /\ Receive(r, Frame(m)) \in Receiver
         /\ Receive(r, Frame(m)).parsed = Append(r.parsed, m)
         /\ Idle(Receive(r, Frame(m)))
<1>1. START \in Byte /\ END \in Byte /\ START # END /\ ESC # END
  BY ByteIs DEF START, ESC, END
<1>2. PICK s, e \in Seq(Byte) : s = <<START>> /\ e = <<END>>
  <2>1. <<START>> \in Seq(Byte) /\ <<END>> \in Seq(Byte)
    BY <1>1
  <2>2. QED
    BY <2>1
<1>3. PICK x \in Seq(Byte) : x = Escaped(Body(m))
  <2>1. Escaped(Body(m)) \in Seq(Byte)
    BY BodyIs, EscapedIs, InnerIs, SeqMonotonic
  <2>2. QED
    BY <2>1
<1>4. Frame(m) = Cat(Cat(s, x), e)
  BY <1>2, <1>3 DEF Frame, Cat
<1>5. Cat(s, x) \in Seq(Byte)
  BY <1>2, <1>3, ConcatProperties DEF Cat
<1>6. PICK q0 \in Receiver : q0 = StartChar(r)
  BY StartCharIs
<1>7. Follows(q0, r.parsed, m, 0)
  <2>1. r \in Fields
    BY DEF Receiver
  <2>2. /\ q0.bInEsc = FALSE /\ q0.parsed = r.parsed /\ q0.u16Bytes = 0
        /\ q0.eRxState = "WAIT_TYPEMSB"
    BY <1>6, <2>1 DEF StartChar, Fields
  <2>3. QED
    BY <2>2 DEF Follows
<1>8. Receive(r, s) = q0
  <2>1. Receive(r, <<START>>) = ReceiveByte(r, START)
    BY <1>1, ReceiveOne
  <2>2. ReceiveByte(r, START) = StartChar(r)
    BY DEF ReceiveByte, START, ESC, END
  <2>3. QED
    BY <1>2, <1>6, <2>1, <2>2
<1>9. PICK q \in Receiver : q = Receive(q0, x)
  BY <1>3, ReceiveIs
<1>10. Receive(r, Cat(s, x)) = q
  <2>1. s \in Seq(Byte) /\ x \in Seq(Byte)
    BY <1>2, <1>3
  <2>2. Receive(r, Cat(s, x)) = Receive(Receive(r, s), x)
    BY <2>1, ReceiveOver
  <2>3. QED
    BY <1>8, <1>9, <2>2
<1>11. Receive(r, Frame(m)) = Receive(q, e)
  <2>1. PICK sx \in Seq(Byte) : sx = Cat(s, x)
    BY <1>5
  <2>2. e \in Seq(Byte)
    BY <1>2
  <2>3. Receive(r, Cat(sx, e)) = Receive(Receive(r, sx), e)
    BY <2>1, <2>2, ReceiveOver
  <2>4. QED
    BY <1>4, <1>10, <2>1, <2>3
<1>12. Receive(q, e) = EndChar(q)
  BY <1>1, <1>2, ReceiveOne DEF ReceiveByte, START
<1>13. Follows(q, r.parsed, m, Len(Body(m)))
  BY <1>3, <1>7, <1>9, FollowsAll
<1>14. PICK len \in Nat : /\ len = Len(m.data) /\ len <= MaxMessageLen
                          /\ Len(Body(m)) = 5 + len /\ 5 + len >= 5 /\ 5 + len >= 2 /\ 5 + len >= 4
                          /\ (5 + len) - 5 = len
  BY BodyIs, LenProperties, BodyBytes
<1>15. /\ q \in Fields /\ q.bInEsc = FALSE /\ q.parsed = r.parsed
       /\ q.pu16Type = m.type /\ q.pu16Length = len
       /\ q.u8CRC = calculate_crc(m.type, len, m.data)
       /\ \A i \in 1 .. len : q.message[i] = m.data[i]
  BY <1>13, <1>14 DEF Follows, Receiver
<1>16. SubSeq(q.message, 1, len) = m.data
  <2>1. PICK d \in Seq(Byte) : d = m.data
    BY BodyIs
  <2>2. \A i \in 1 .. len : d[i] \in Byte /\ q.message[i] = d[i]
    BY <1>14, <1>15, <2>1, ElementOfSeq
  <2>3. \A i \in 1 .. len : q.message[i] \in Byte
    BY <2>2
  <2>4. /\ SubSeq(q.message, 1, len) \in Seq(Byte)
        /\ Len(SubSeq(q.message, 1, len)) = IF 1 <= len THEN len - 1 + 1 ELSE 0
        /\ \A i \in 1 .. len - 1 + 1 : SubSeq(q.message, 1, len)[i] = q.message[1 + i - 1]
    BY <2>3, SubSeqProperties
  <2>5. PICK u \in Seq(Byte) : u = SubSeq(q.message, 1, len)
    BY <2>4
  <2>6. Len(u) = len
    BY <2>4, <2>5
  <2>7. ASSUME NEW i \in 1 .. len  PROVE u[i] = d[i]
    <3>1. i \in 1 .. len - 1 + 1 /\ 1 + i - 1 = i
      OBVIOUS
    <3>2. QED
      BY <2>2, <2>4, <2>5, <3>1
  <2>8. Len(d) = len
    BY <1>14, <2>1
  <2>9. u = d
    BY <2>6, <2>7, <2>8, SeqEqual
  <2>10. QED
    BY <2>1, <2>5, <2>9
<1>17. SubSeq(m.data, 1, len) = m.data
  <2>1. PICK d \in Seq(Byte) : d = m.data
    BY BodyIs
  <2>2. QED
    BY <1>14, <2>1, SubSeqFull
<1>18. Accepts(q)
  <2>1. calculate_crc(m.type, len, q.message) = calculate_crc(m.type, len, m.data)
    BY <1>16, <1>17 DEF calculate_crc
  <2>2. QED
    BY <1>14, <1>15, <2>1 DEF Accepts
<1>19. [type |-> q.pu16Type, data |-> SubSeq(q.message, 1, q.pu16Length)] = m
  <2>1. m \in [type : Word, data : Seq(Byte)]
    BY FramingAssumption
  <2>2. m = [type |-> m.type, data |-> m.data]
    BY <2>1
  <2>3. QED
    BY <1>15, <1>16, <2>2
<1>20. EndChar(q) = [q EXCEPT !.parsed = Append(q.parsed, m), !.eRxState = "WAIT_START"]
  BY <1>18, <1>19 DEF EndChar
<1>21. PICK z \in Receiver : z = EndChar(q)
  BY EndCharIs
<1>22. z.parsed = Append(r.parsed, m) /\ z.eRxState = "WAIT_START" /\ z.bInEsc = FALSE
  BY <1>15, <1>20, <1>21 DEF Fields
<1>23. QED
  BY <1>11, <1>12, <1>21, <1>22 DEF Idle

LEMMA ZerosTaken ==
  ASSUME NEW q \in Receiver, Idle(q), NEW s \in Seq({0})
  PROVE  Receive(q, s) = q
<1> DEFINE S == { x \in Seq({0}) : Receive(q, x) = q }
<1>1. <<>> \in S
  BY EmptySeq, ReceiveNone
<1>2. ASSUME NEW x \in Seq({0}), NEW b \in {0}, x \in S  PROVE Append(x, b) \in S
  <2>1. x \in Seq(Byte) /\ b \in Byte /\ b = 0
    <3>1. {0} \subseteq Byte
      BY ByteIs
    <3>2. QED
      BY <3>1, SeqMonotonic
  <2>2. Receive(q, Append(x, b)) = ReceiveByte(Receive(q, x), b)
    BY <2>1, ReceiveMore
  <2>3. ReceiveByte(q, 0) = DataByte(q, 0)
    BY DEF ReceiveByte, START, ESC, END
  <2>4. [q EXCEPT !.bInEsc = FALSE] = q
    BY DEF Idle, Receiver, Fields
  <2>5. DataByte(q, 0) = TakeByte(q, 0)
    BY <2>4 DEF DataByte, Idle
  <2>6. TakeByte(q, 0) = q
    BY DEF TakeByte, Idle
  <2>7. Append(x, b) \in Seq({0})
    BY AppendProperties
  <2>8. QED
    BY <1>2, <2>1, <2>2, <2>3, <2>5, <2>6, <2>7
<1> HIDE DEF S
<1>3. \A x \in Seq({0}) : x \in S
  BY <1>1, <1>2, SeqInduct
<1>4. QED
  BY <1>3 DEF S

\* The receiver parses the messages of frames that come whole, in their order.
LEMMA FramesTaken ==
  ASSUME NEW r \in Receiver, NEW ms \in Seq(Message)
  PROVE  /\ Receive(r, Frames(ms)).parsed = r.parsed \o ms
         /\ ms # <<>> => Idle(Receive(r, Frames(ms)))
<1> DEFINE Good(s) == /\ Receive(r, Frames(s)).parsed = Cat(r.parsed, s)
                      /\ s # <<>> => Idle(Receive(r, Frames(s)))
           S == { s \in Seq(Message) : Good(s) }
<1>1. r.parsed \in Seq(Parsed) /\ Message \subseteq Parsed
  BY FramingAssumption DEF Receiver, Fields, Parsed
<1>2. <<>> \in S
  <2>1. Receive(r, Frames(<<>>)) = r
    BY FramesNone, ReceiveNone
  <2>2. Cat(r.parsed, <<>>) = r.parsed
    BY <1>1, ConcatEmptySeq DEF Cat
  <2>3. QED
    BY <2>1, <2>2, EmptySeq
<1>3. ASSUME NEW s \in Seq(Message), NEW m \in Message, s \in S  PROVE Append(s, m) \in S
  <2>1. PICK t \in Seq(Message) : t = Append(s, m) /\ t # <<>>
    BY AppendProperties
  <2>2. PICK fs, f \in Seq(Byte) : fs = Frames(s) /\ f = Frame(m)
    <3>1. Frames(s) \in Seq(Byte) /\ Frame(m) \in Seq(Byte)
      BY FramesAre, FrameIs DEF Framed
    <3>2. QED
      BY <3>1
  <2>3. Frames(t) = Cat(fs, f)
    BY <2>1, <2>2, FramesMore DEF Cat
  <2>4. PICK q \in Receiver : q = Receive(r, fs)
    BY <2>2, ReceiveIs
  <2>5. Receive(r, Cat(fs, f)) = Receive(q, f)
    BY <2>2, <2>4, ReceiveOver
  <2>6. Receive(q, f).parsed = Append(q.parsed, m) /\ Idle(Receive(q, f))
    BY <2>2, FrameIsParsed
  <2>7. q.parsed = Cat(r.parsed, s)
    BY <1>3, <2>2, <2>4
  <2>8. Append(Cat(r.parsed, s), m) = Cat(r.parsed, t)
    <3> DEFINE p == r.parsed  E == Parsed
    <3>1. p \in Seq(E) /\ s \in Seq(E) /\ m \in E
      BY <1>1, SeqMonotonic
    <3> HIDE DEF p, E
    <3>2. Append(Cat(p, s), m) = Cat(p, Append(s, m))
      BY <3>1, AppendOver
    <3>3. QED
      BY <2>1, <3>2 DEF p
  <2>9. Good(t)
    BY <2>3, <2>5, <2>6, <2>7, <2>8
  <2>10. QED
    BY <2>1, <2>9
<1> HIDE DEF S
<1>4. \A s \in Seq(Message) : s \in S
  BY <1>2, <1>3, SeqInduct
<1>5. QED
  BY <1>4 DEF S, Cat
-----------------------------------------------------------------------------
(***************************************************************************)
(* What parse has got, on a line that loses nothing.                       *)
(***************************************************************************)
LEMMA SomeOfLonger ==
  ASSUME NEW E, NEW ms \in Seq(E), NEW all \in Seq(E), NEW more \in Seq(E), SomeOf(ms, all)
  PROVE  SomeOf(ms, all \o more)
<1>1. PICK n, k, l \in Nat : n = Len(ms) /\ k = Len(all) /\ l = Len(more)
  BY LenProperties
<1>2. PICK y \in Seq(E) : y = all \o more
  BY ConcatProperties
<1>3. Len(y) = k + l /\ \A i \in 1 .. k : y[i] = all[i]
  <2>1. /\ Len(all \o more) = Len(all) + Len(more)
        /\ \A i \in 1 .. Len(all) + Len(more) :
             (all \o more)[i] = IF i <= Len(all) THEN all[i] ELSE more[i - Len(all)]
    BY ConcatProperties
  <2>2. QED
    BY <1>1, <1>2, <2>1
<1>4. DOMAIN ms = 1 .. n /\ DOMAIN all = 1 .. k /\ DOMAIN y = 1 .. k + l
  BY <1>1, <1>3, LenProperties
<1>5. PICK place \in [1 .. n -> 1 .. k] :
        /\ \A i, j \in 1 .. n : i < j => place[i] < place[j]
        /\ \A i \in 1 .. n : ms[i] = all[place[i]]
  BY <1>4 DEF SomeOf
<1>6. place \in [1 .. n -> 1 .. k + l]
  <2>1. \A i \in 1 .. k : i \in 1 .. k + l
    BY <1>1
  <2>2. QED
    BY <2>1
<1>7. \A i \in 1 .. n : ms[i] = y[place[i]]
  BY <1>3, <1>5
<1>8. SomeOf(ms, y)
  BY <1>4, <1>5, <1>6, <1>7 DEF SomeOf
<1>9. QED
  BY <1>2, <1>8

LEMMA SomeOfBoth ==
  ASSUME NEW E, NEW ms \in Seq(E), NEW all \in Seq(E), NEW more \in Seq(E), SomeOf(ms, all)
  PROVE  SomeOf(ms \o more, all \o more)
<1>1. PICK n, k, l \in Nat : n = Len(ms) /\ k = Len(all) /\ l = Len(more)
  BY LenProperties
<1>2. PICK x, y \in Seq(E) : x = ms \o more /\ y = all \o more
  BY ConcatProperties
<1>3. /\ Len(x) = n + l
      /\ \A i \in 1 .. n + l : x[i] = IF i <= n THEN ms[i] ELSE more[i - n]
  <2>1. /\ Len(ms \o more) = Len(ms) + Len(more)
        /\ \A i \in 1 .. Len(ms) + Len(more) :
             (ms \o more)[i] = IF i <= Len(ms) THEN ms[i] ELSE more[i - Len(ms)]
    BY ConcatProperties
  <2>2. QED
    BY <1>1, <1>2, <2>1
<1>4. /\ Len(y) = k + l
      /\ \A i \in 1 .. k + l : y[i] = IF i <= k THEN all[i] ELSE more[i - k]
  <2>1. /\ Len(all \o more) = Len(all) + Len(more)
        /\ \A i \in 1 .. Len(all) + Len(more) :
             (all \o more)[i] = IF i <= Len(all) THEN all[i] ELSE more[i - Len(all)]
    BY ConcatProperties
  <2>2. QED
    BY <1>1, <1>2, <2>1
<1>5. /\ DOMAIN ms = 1 .. n /\ DOMAIN all = 1 .. k
      /\ DOMAIN x = 1 .. n + l /\ DOMAIN y = 1 .. k + l
  BY <1>1, <1>2, <1>3, <1>4, LenProperties
<1>6. PICK place \in [1 .. n -> 1 .. k] :
        /\ \A i, j \in 1 .. n : i < j => place[i] < place[j]
        /\ \A i \in 1 .. n : ms[i] = all[place[i]]
  BY <1>5 DEF SomeOf
<1> DEFINE where == [i \in 1 .. n + l |-> IF i <= n THEN place[i] ELSE i - n + k]
<1>7. ASSUME NEW i \in 1 .. n + l
      PROVE  /\ where[i] \in 1 .. k + l /\ x[i] = y[where[i]]
             /\ i <= n => i \in 1 .. n /\ where[i] = place[i] /\ where[i] \in 1 .. k
             /\ ~ (i <= n) => where[i] = i - n + k
  <2>1. CASE i <= n
    <3>1. i \in 1 .. n /\ where[i] = place[i]
      BY <1>1, <2>1
    <3>2. place[i] \in 1 .. k
      BY <1>6, <3>1
    <3>3. place[i] \in 1 .. k + l /\ place[i] <= k
      BY <1>1, <3>2
    <3>4. x[i] = ms[i] /\ y[place[i]] = all[place[i]]
      BY <1>3, <1>4, <2>1, <3>3
    <3>5. QED
      BY <1>6, <2>1, <3>1, <3>2, <3>3, <3>4
  <2>2. CASE ~ (i <= n)
    <3>1. PICK j \in 1 .. k + l : j = i - n + k /\ ~ (j <= k) /\ j - k = i - n
      <4>1. i - n + k \in 1 .. k + l
        BY <1>1, <2>2
      <4>2. PICK j \in 1 .. k + l : j = i - n + k
        BY <4>1
      <4>3. ~ (j <= k) /\ j - k = i - n
        BY <1>1, <2>2, <4>2
      <4>4. QED
        BY <4>2, <4>3
    <3>2. where[i] = j
      BY <2>2, <3>1
    <3>3. x[i] = more[i - n] /\ y[j] = more[j - k]
      BY <1>3, <1>4, <2>2, <3>1
    <3>4. QED
      BY <2>2, <3>1, <3>2, <3>3
  <2>3. QED
    BY <2>1, <2>2
<1>8. where \in [1 .. n + l -> 1 .. k + l]
  BY <1>7
<1> HIDE DEF where
<1>9. ASSUME NEW i \in 1 .. n + l, NEW j \in 1 .. n + l, i < j
      PROVE  where[i] < where[j]
  <2>1. CASE j <= n
    <3>1. i <= n
      BY <1>1, <1>9, <2>1
    <3>2. QED
      BY <1>6, <1>7, <1>9, <2>1, <3>1
  <2>2. CASE i <= n /\ ~ (j <= n)
    <3>1. where[i] \in 1 .. k /\ where[j] = j - n + k
      BY <1>7, <2>2
    <3>2. j - n + k > k
      BY <1>1, <2>2
    <3>3. QED
      BY <1>1, <3>1, <3>2
  <2>3. CASE ~ (i <= n) /\ ~ (j <= n)
    <3>1. where[i] = i - n + k /\ where[j] = j - n + k
      BY <1>7, <2>3
    <3>2. QED
      BY <1>1, <1>9, <3>1
  <2>4. QED
    BY <2>1, <2>2, <2>3
<1>10. SomeOf(x, y)
  BY <1>5, <1>7, <1>8, <1>9 DEF SomeOf
<1>11. QED
  BY <1>2, <1>10

\* got is what parse has got of the messages in done.
Got(got, done, drop) == SomeOf(got, done) /\ (~ drop => got = done)

\* The bytes of the messages that are not done are store and then w.
Begun(all, got, store, w, drop) ==
  \E done, rest \in Seq(Message) :
    all = Cat(done, rest) /\ Cat(store, w) = Frames(rest) /\ Got(got, done, drop)

\* They are the bytes pre and then w, and pre is what is stored, unless a store
\* was thrown away.
Story(all, got, w, store, drop) ==
  \E done, rest \in Seq(Message) : \E pre \in Seq(Byte) :
    /\ all = Cat(done, rest) /\ Cat(pre, w) = Frames(rest) /\ Got(got, done, drop)
    /\ store = pre \/ (drop /\ store = <<>>)
    /\ store # <<>> => store[Len(store)] # END

LEMMA GotMore ==
  ASSUME NEW done \in Seq(Message), NEW x \in Seq(Message), NEW got \in Seq(Message), NEW drop,
         Got(got, done, drop)
  PROVE  Got(Cat(got, x), Cat(done, x), drop)
<1>1. SomeOf(got \o x, done \o x)
  BY SomeOfBoth DEF Got
<1>2. QED
  BY <1>1 DEF Got, Cat

LEMMA GotOver ==
  ASSUME NEW done \in Seq(Message), NEW x \in Seq(Message), NEW got \in Seq(Message), NEW drop,
         Got(got, done, drop), ~ drop => x = <<>>
  PROVE  Got(got, Cat(done, x), drop)
<1>1. SomeOf(got, done \o x)
  BY SomeOfLonger DEF Got
<1>2. done \o <<>> = done
  BY ConcatEmptySeq
<1>3. QED
  BY <1>1, <1>2 DEF Got, Cat

LEMMA CatIs ==
  ASSUME NEW E, NEW a \in Seq(E), NEW b \in Seq(E)
  PROVE  Cat(a, b) \in Seq(E)
BY ConcatProperties DEF Cat

LEMMA CatEnds ==
  ASSUME NEW a \in Seq(Byte), NEW b \in Seq(Byte), a # <<>>
  PROVE  /\ Cat(a, b)[1] = a[1] /\ Cat(a, b) # <<>> /\ Len(Cat(a, b)) = Len(a) + Len(b)
         /\ b # <<>> => Cat(a, b)[Len(a) + Len(b)] = b[Len(b)]
<1>1. PICK n, k \in Nat : n = Len(a) /\ k = Len(b) /\ n >= 1 /\ (b # <<>> => k >= 1)
  <2>1. Len(a) \in Nat \ {0} /\ Len(b) \in Nat /\ (b # <<>> => Len(b) \in Nat \ {0})
    BY LenProperties, EmptySeq
  <2>2. QED
    BY <2>1
<1>2. PICK c \in Seq(Byte) : c = Cat(a, b)
  BY CatIs
<1>3. /\ Len(c) = n + k
      /\ \A i \in 1 .. n + k : c[i] = IF i <= n THEN a[i] ELSE b[i - n]
  <2>1. /\ Len(a \o b) = Len(a) + Len(b)
        /\ \A i \in 1 .. Len(a) + Len(b) : (a \o b)[i] = IF i <= Len(a) THEN a[i] ELSE b[i - Len(a)]
    BY ConcatProperties
  <2>2. QED
    BY <1>1, <1>2, <2>1 DEF Cat
<1>4. c[1] = a[1]
  <2>1. 1 \in 1 .. n + k /\ 1 <= n
    BY <1>1
  <2>2. QED
    BY <1>3, <2>1
<1>5. ASSUME b # <<>>  PROVE c[n + k] = b[k]
  <2>1. PICK j \in 1 .. n + k : j = n + k /\ ~ (j <= n) /\ j - n = k
    BY <1>1, <1>5
  <2>2. QED
    BY <1>3, <2>1
<1>6. c # <<>>
  BY <1>1, <1>3, EmptySeq
<1>7. QED
  BY <1>1, <1>2, <1>3, <1>4, <1>5, <1>6

\* A chunk that begins with a start finds nothing stored.
LEMMA StartBegins ==
  ASSUME NEW all \in Seq(Message), NEW got \in Seq(Message), NEW c \in Seq(Byte), NEW w \in Seq(Byte),
         NEW store \in Seq(Byte), NEW drop, c # <<>>, c[1] = START,
         Story(all, got, Cat(c, w), store, drop)
  PROVE  store = <<>> /\ Begun(all, got, c, w, drop)
<1>1. PICK cw \in Seq(Byte) : cw = Cat(c, w) /\ cw # <<>> /\ cw[1] = START
  BY CatIs, CatEnds
<1>2. PICK done, rest \in Seq(Message) : \E pre \in Seq(Byte) :
        /\ all = Cat(done, rest) /\ Cat(pre, cw) = Frames(rest) /\ Got(got, done, drop)
        /\ store = pre \/ (drop /\ store = <<>>)
        /\ store # <<>> => store[Len(store)] # END
  BY <1>1 DEF Story
<1>3. PICK pre \in Seq(Byte) :
        /\ all = Cat(done, rest) /\ Cat(pre, cw) = Frames(rest) /\ Got(got, done, drop)
        /\ store = pre \/ (drop /\ store = <<>>)
        /\ store # <<>> => store[Len(store)] # END
  BY <1>2
<1>4. Apart(pre, cw, rest)
  BY <1>1, <1>2, <1>3, CutBeforeStart DEF Cat
<1>5. PICK x, y \in Seq(Message) : rest = Cat(x, y) /\ pre = Frames(x) /\ cw = Frames(y)
  BY <1>4 DEF Apart, Cat
<1>6. store = <<>>
  <2> SUFFICES ASSUME store # <<>>  PROVE FALSE
    OBVIOUS
  <2>1. store = pre /\ pre # <<>> /\ pre[Len(pre)] # END
    BY <1>3
  <2>2. QED
    BY <1>5, <2>1, FramesEnds
<1>7. ASSUME ~ drop  PROVE x = <<>>
  <2>1. Frames(x) = <<>>
    BY <1>3, <1>5, <1>6, <1>7
  <2>2. QED
    BY <1>5, <2>1, FramesSome
<1>8. Got(got, Cat(done, x), drop)
  BY <1>2, <1>3, <1>5, <1>7, GotOver
<1>9. all = Cat(Cat(done, x), y)
  BY <1>2, <1>3, <1>5, Regroup
<1>10. PICK d \in Seq(Message) : d = Cat(done, x)
  BY <1>2, <1>5, CatIs
<1>11. y \in Seq(Message) /\ all = Cat(d, y) /\ Cat(c, w) = Frames(y) /\ Got(got, d, drop)
  BY <1>1, <1>5, <1>8, <1>9, <1>10
<1>12. Begun(all, got, c, w, drop)
  BY <1>10, <1>11 DEF Begun
<1>13. QED
  BY <1>6, <1>12

\* A chunk behind what is stored goes on with it.
LEMMA StoreGoesOn ==
  ASSUME NEW all \in Seq(Message), NEW got \in Seq(Message), NEW c \in Seq(Byte), NEW w \in Seq(Byte),
         NEW store \in Seq(Byte), NEW drop, store # <<>>,
         Story(all, got, Cat(c, w), store, drop)
  PROVE  Begun(all, got, Cat(store, c), w, drop)
<1>1. PICK done, rest \in Seq(Message) : \E pre \in Seq(Byte) :
        /\ all = Cat(done, rest) /\ Cat(pre, Cat(c, w)) = Frames(rest) /\ Got(got, done, drop)
        /\ store = pre \/ (drop /\ store = <<>>)
        /\ store # <<>> => store[Len(store)] # END
  BY DEF Story
<1>2. Cat(store, Cat(c, w)) = Frames(rest) /\ all = Cat(done, rest) /\ Got(got, done, drop)
  BY <1>1
<1>3. Cat(Cat(store, c), w) = Cat(store, Cat(c, w))
  BY Regroup
<1>4. QED
  BY <1>1, <1>2, <1>3 DEF Begun

\* What is thrown away or ignored.
LEMMA StoryThrown ==
  ASSUME NEW all \in Seq(Message), NEW got \in Seq(Message), NEW data \in Seq(Byte),
         NEW w \in Seq(Byte), NEW drop \in BOOLEAN, Begun(all, got, data, w, drop)
  PROVE  Story(all, got, w, <<>>, TRUE)
<1>1. PICK done, rest \in Seq(Message) :
        all = Cat(done, rest) /\ Cat(data, w) = Frames(rest) /\ Got(got, done, drop)
  BY DEF Begun
<1>2. Got(got, done, TRUE)
  BY <1>1 DEF Got
<1>3. QED
  BY <1>1, <1>2 DEF Story

LEMMA StoryIgnored ==
  ASSUME NEW all \in Seq(Message), NEW got \in Seq(Message), NEW c \in Seq(Byte), NEW w \in Seq(Byte),
         NEW drop \in BOOLEAN, c # <<>>, c[1] # START, Story(all, got, Cat(c, w), <<>>, drop)
  PROVE  Story(all, got, w, <<>>, drop)
<1>1. PICK cw \in Seq(Byte) : cw = Cat(c, w) /\ cw # <<>> /\ cw[1] # START
  BY CatIs, CatEnds
<1>2. PICK done, rest \in Seq(Message) : \E pre \in Seq(Byte) :
        /\ all = Cat(done, rest) /\ Cat(pre, cw) = Frames(rest) /\ Got(got, done, drop)
        /\ <<>> = pre \/ (drop /\ <<>> = <<>>)
  BY <1>1 DEF Story
<1>3. PICK pre \in Seq(Byte) :
        /\ all = Cat(done, rest) /\ Cat(pre, cw) = Frames(rest) /\ Got(got, done, drop)
        /\ <<>> = pre \/ drop
  BY <1>2
<1>4. drop
  <2> SUFFICES ASSUME ~ drop  PROVE FALSE
    OBVIOUS
  <2>1. Cat(<<>>, cw) = cw
    BY ConcatEmptySeq DEF Cat
  <2>2. cw = Frames(rest)
    BY <1>3, <2>1
  <2>3. QED
    BY <1>1, <1>2, <2>2, FramesEnds
<1>5. PICK p \in Seq(Byte) : p = Cat(pre, c)
  BY CatIs
<1>6. Cat(Cat(pre, c), w) = Cat(pre, Cat(c, w))
  BY Regroup
<1>7. Cat(p, w) = Frames(rest)
  BY <1>1, <1>3, <1>5, <1>6
<1>8. QED
  BY <1>2, <1>3, <1>4, <1>7 DEF Story

\* Bytes without an end are kept.
LEMMA StoryKept ==
  ASSUME NEW all \in Seq(Message), NEW got \in Seq(Message), NEW data \in Seq(Byte),
         NEW w \in Seq(Byte), NEW drop, data[Len(data)] # END,
         Begun(all, got, data, w, drop)
  PROVE  Story(all, got, w, data, drop)
<1>1. PICK done, rest \in Seq(Message) :
        all = Cat(done, rest) /\ Cat(data, w) = Frames(rest) /\ Got(got, done, drop)
  BY DEF Begun
<1>2. QED
  BY <1>1 DEF Story

\* Bytes with an end are those of messages, which are parsed.
LEMMA StoryParsed ==
  ASSUME NEW all \in Seq(Message), NEW got \in Seq(Message), NEW data \in Seq(Byte),
         NEW w \in Seq(Byte), NEW drop, data # <<>>, data[Len(data)] = END,
         Begun(all, got, data, w, drop)
  PROVE  \E x \in Seq(Message) : data = Frames(x) /\ Story(all, Cat(got, x), w, <<>>, drop)
<1>1. PICK done, rest \in Seq(Message) :
        all = Cat(done, rest) /\ Cat(data, w) = Frames(rest) /\ Got(got, done, drop)
  BY DEF Begun
<1>2. Apart(data, w, rest)
  BY <1>1, CutBehindEnd DEF Cat
<1>3. PICK x, y \in Seq(Message) : rest = Cat(x, y) /\ data = Frames(x) /\ w = Frames(y)
  BY <1>2 DEF Apart, Cat
<1>4. PICK d \in Seq(Message) : d = Cat(done, x)
  BY <1>1, <1>3, CatIs
<1>5. all = Cat(d, y)
  BY <1>1, <1>3, <1>4, Regroup
<1>6. Got(Cat(got, x), d, drop)
  BY <1>1, <1>3, <1>4, GotMore
<1>7. Cat(<<>>, w) = Frames(y) /\ <<>> \in Seq(Byte)
  BY <1>3, ConcatEmptySeq, EmptySeq DEF Cat
<1>8. Story(all, Cat(got, x), w, <<>>, drop)
  BY <1>3, <1>4, <1>5, <1>6, <1>7 DEF Story
<1>9. QED
  BY <1>3, <1>8
-----------------------------------------------------------------------------
(***************************************************************************)
(* The steps.                                                              *)
(***************************************************************************)
Typed ==
  /\ sent \in Seq(Message) /\ Len(sent) <= Sends
  /\ wire \in Seq(Byte)
  /\ StoreOK
  /\ rx \in Receiver /\ rx.parsed = <<>>
  /\ delivered \in Seq(Parsed)
  /\ lost \in 0 .. Losses /\ dropped \in BOOLEAN

\* As long as nothing is lost, the counted length is that of the store.
Lossless ==
  lost = 0 => /\ rece_datalen = Len(rece_data) /\ delivered \in Seq(Message)
              /\ Story(sent, delivered, wire, rece_data, dropped)

LEMMA BoundsAre ==
  /\ ReceBufferLength \in Nat /\ Sends \in Nat /\ Losses \in Nat
  /\ Message \subseteq Parsed
BY FramingAssumption DEF Parsed

LEMMA CountIs ==
  ASSUME Typed
  PROVE  rece_datalen \in Nat /\ Len(rece_data) <= rece_datalen
<1>1. PICK n \in Nat : n = Len(rece_data)
  BY LenProperties DEF Typed, StoreOK
<1>2. rece_datalen \in n .. ReceBufferLength /\ ReceBufferLength \in Nat
  BY <1>1, BoundsAre DEF Typed, StoreOK
<1>3. QED
  BY <1>1, <1>2

LEMMA CountMore ==
  ASSUME Typed, NEW c \in Seq(Byte)
  PROVE  \E n \in Nat : n = rece_datalen + Len(c) /\ Len(c) <= n
<1>1. PICK k \in Nat : k = Len(c)
  BY LenProperties
<1>2. PICK d \in Nat : d = rece_datalen
  BY CountIs
<1>3. d + k \in Nat /\ k <= d + k
  OBVIOUS
<1>4. QED
  BY <1>1, <1>2, <1>3

LEMMA StoredIs ==
  ASSUME NEW data \in Seq(Byte), NEW n \in Nat, Len(data) <= n
  PROVE  /\ \E z \in Seq({0}) : Stored(data, n) = Cat(data, z)
         /\ n = Len(data) => Stored(data, n) = data
         /\ Stored(data, n) \in Seq(Byte) /\ Len(Stored(data, n)) = n
<1>1. PICK k \in Nat : k = n - Len(data)
  BY LenProperties
<1>2. PICK z \in Seq({0}) : z = Zeros(k) /\ Len(z) = k
  <2>1. Zeros(k) \in Seq({0}) /\ Len(Zeros(k)) = k
    BY DEF Zeros
  <2>2. QED
    BY <2>1
<1>3. z \in Seq(Byte)
  BY ZerosAreBytes
<1>4. Stored(data, n) = Cat(data, z)
  BY <1>1, <1>2 DEF Stored, Cat
<1>5. ASSUME n = Len(data)  PROVE Stored(data, n) = data
  <2>1. z = <<>>
    BY <1>1, <1>2, <1>5, EmptySeq
  <2>2. QED
    BY <1>4, <2>1, ConcatEmptySeq DEF Cat
<1>6. Cat(data, z) \in Seq(Byte) /\ Len(Cat(data, z)) = Len(data) + Len(z)
  BY <1>3, ConcatProperties DEF Cat
<1>7. Len(data) + Len(z) = n
  BY <1>1, <1>2, LenProperties
<1>8. QED
  BY <1>4, <1>5, <1>6, <1>7

LEMMA ReadIs ==
  ASSUME Typed, NEW n \in Nat, 1 <= n, n <= Len(wire)
  PROVE  \E c, w \in Seq(Byte) :
           /\ c = SubSeq(wire, 1, n) /\ w = SubSeq(wire, n + 1, Len(wire))
           /\ wire = Cat(c, w) /\ Len(c) = n /\ c # <<>> /\ wire[1] = c[1]
           /\ Head(c) = c[1] /\ Last(c) = c[Len(c)] /\ Len(wire) = n + Len(w)
<1>1. PICK k \in Nat : k = Len(wire) /\ wire \in Seq(Byte) /\ n <= k
  BY LenProperties DEF Typed
<1> DEFINE c == SubSeq(wire, 1, n)  w == SubSeq(wire, n + 1, k)
<1>2. c \o w = SubSeq(wire, 1, k)
  <2>1. 1 \in 1 .. Len(wire) + 1 /\ n \in 1 - 1 .. Len(wire) /\ k \in n .. Len(wire)
    BY <1>1
  <2>2. QED
    BY <1>1, <2>1, ConcatAdjacentSubSeq
<1>3. SubSeq(wire, 1, k) = wire
  BY <1>1, SubSeqFull
<1>4. \A i \in 1 .. n : wire[i] \in Byte
  BY <1>1, ElementOfSeq
<1>5. c \in Seq(Byte) /\ Len(c) = n /\ c[1] = wire[1]
  BY <1>4, SubSeqProperties
<1>6. \A i \in n + 1 .. k : wire[i] \in Byte
  BY <1>1, ElementOfSeq
<1>7. w \in Seq(Byte) /\ Len(w) = k - n
  <2>1. w \in Seq(Byte) /\ Len(w) = IF n + 1 <= k THEN k - (n + 1) + 1 ELSE 0
    BY <1>6, SubSeqProperties
  <2>2. QED
    BY <1>1, <2>1
<1>8. c # <<>> /\ Head(c) = c[1]
  BY <1>5, EmptySeq
<1>9. Last(c) = c[Len(c)]
  BY DEF Last
<1> HIDE DEF c, w
<1>10. wire = Cat(c, w)
  BY <1>2, <1>3 DEF Cat
<1>11. k = n + Len(w)
  BY <1>1, <1>7
<1>12. QED
  BY <1>1, <1>5, <1>7, <1>8, <1>9, <1>10, <1>11 DEF c, w

\* What the callback does with a chunk.
Begins(c) == c[1] = START
Ends(c) == c[Len(c)] = END

RecvCases(c) ==
  \/ Begins(c) /\ Ends(c) /\ Decode(c, rece_datalen + Len(c))
  \/ Begins(c) /\ ~ Ends(c) /\ Keep(c, rece_datalen + Len(c))
  \/ ~ Begins(c) /\ rece_data # <<>> /\ DropStore
  \/ /\ ~ Begins(c) /\ rece_data # <<>> /\ Ends(c)
     /\ Decode(Cat(Stored(rece_data, rece_datalen), c), rece_datalen + Len(c))
  \/ /\ ~ Begins(c) /\ rece_data # <<>> /\ ~ Ends(c)
     /\ Keep(Cat(Stored(rece_data, rece_datalen), c), rece_datalen + Len(c))
  \/ ~ Begins(c) /\ rece_data = <<>> /\ Decode(<<>>, 0)

LEMMA RecvIs ==
  ASSUME Typed, NEW c \in Seq(Byte), Head(c) = c[1], Last(c) = c[Len(c)], recv_zigbee_data(c)
  PROVE  RecvCases(c)
<1>1. rece_data = <<>> => rece_datalen = 0
  BY DEF Typed, StoreOK
<1>2. CASE Begins(c)
  <2>1. StartChunk(c)
    BY <1>2 DEF recv_zigbee_data, Begins
  <2>2. QED
    BY <1>2, <2>1 DEF StartChunk, RecvCases, Ends
<1>3. CASE ~ Begins(c) /\ rece_data # <<>>
  <2>1. ContinueChunk(c)
    BY <1>3 DEF recv_zigbee_data, Begins
  <2>2. QED
    BY <1>3, <2>1 DEF ContinueChunk, RecvCases, Ends, Cat
<1>4. CASE ~ Begins(c) /\ rece_data = <<>>
  <2>1. Decode(rece_data, rece_datalen)
    BY <1>4 DEF recv_zigbee_data, Begins
  <2>2. QED
    BY <1>1, <1>4, <2>1 DEF RecvCases
<1>5. QED
  BY <1>2, <1>3, <1>4

LEMMA DecodeIs ==
  ASSUME Typed, NEW data \in Seq(Byte), NEW n \in Nat, Len(data) <= n, Decode(data, n)
  PROVE  /\ rx' \in Receiver /\ rx'.parsed = <<>>
         /\ delivered' \in Seq(Parsed)
         /\ delivered' = delivered \o Receive(rx, Stored(data, n)).parsed
         /\ rece_data' = <<>> /\ rece_datalen' = 0 /\ dropped' = dropped
<1>1. Stored(data, n) \in Seq(Byte) /\ rx \in Receiver /\ delivered \in Seq(Parsed)
  BY StoredIs DEF Typed
<1>2. PICK r \in Receiver : r = Receive(rx, Stored(data, n))
  BY <1>1, ReceiveIs
<1>3. /\ delivered' = delivered \o r.parsed /\ rx' = [r EXCEPT !.parsed = <<>>]
      /\ rece_data' = <<>> /\ rece_datalen' = 0 /\ dropped' = dropped
  BY <1>2 DEF Decode, ClearStore
<1>4. PICK q \in Receiver : q = [r EXCEPT !.parsed = <<>>] /\ q.parsed = <<>>
  <2>1. <<>> \in Seq(Parsed)
    BY EmptySeq
  <2>2. r \in Fields
    BY DEF Receiver
  <2> DEFINE q == [r EXCEPT !.parsed = <<>>]
  <2>3. /\ q \in Fields /\ q.parsed = <<>> /\ q.eRxState = r.eRxState
        /\ q.pu16Type = r.pu16Type /\ q.pu16Length = r.pu16Length
    BY <2>1, <2>2 DEF Fields
  <2> HIDE DEF q
  <2>4. q \in Receiver
    BY <2>3 DEF Receiver
  <2>5. QED
    BY <2>3, <2>4 DEF q
<1>5. r.parsed \in Seq(Parsed)
  BY DEF Receiver, Fields
<1>6. delivered' \in Seq(Parsed)
  BY <1>1, <1>3, <1>5, ConcatProperties
<1>7. QED
  BY <1>2, <1>3, <1>4, <1>6

LEMMA FramingInit ==
  ASSUME Init
  PROVE  Typed /\ Lossless
<1>1. /\ sent = <<>> /\ wire = <<>> /\ rece_data = <<>> /\ rece_datalen = 0
      /\ rx = ReceiverInit /\ delivered = <<>> /\ lost = 0 /\ dropped = FALSE
  BY DEF Init
<1>2. \A E : <<>> \in Seq(E) /\ Len(<<>>) = 0
  BY EmptySeq
<1>3. rx \in Fields /\ rx.parsed = <<>> /\ rx.eRxState = "WAIT_START"
  <2>1. 0 \in Byte /\ 0 \in Word /\ 0 \in 0 .. MaxMessageLen
    <3>1. 0 \in Byte
      BY ByteIs
    <3>2. 0 * 256 \in Word
      BY <3>1, TwoBytes
    <3>3. QED
      BY <3>1, <3>2, MaxIs
  <2>2. Zeros(MaxMessageLen) \in [1 .. MaxMessageLen -> Byte]
    BY <2>1 DEF Zeros
  <2>3. <<>> \in Seq(Parsed) /\ "WAIT_START" \in States
    BY <1>2 DEF States
  <2>4. QED
    BY <1>1, <2>1, <2>2, <2>3 DEF ReceiverInit, Fields
<1>4. rx \in Receiver
  BY <1>3 DEF Receiver
<1>5. Typed
  <2>6. 0 <= Sends
    BY BoundsAre
  <2>7. \A E : <<>> \in Seq(E)
    BY EmptySeq
  <2>8. sent \in Seq(Message) /\ wire \in Seq(Byte) /\ delivered \in Seq(Parsed) /\ rece_data \in Seq(Byte)
    BY <1>1, <2>7, Zenon
  <2>9. Len(sent) = 0 /\ Len(rece_data) = 0
    BY <1>1, <1>2, Zenon
  <2>1. Len(sent) <= Sends /\ Len(rece_data) = 0 /\ sent \in Seq(Message) /\ wire \in Seq(Byte)
        /\ delivered \in Seq(Parsed) /\ rece_data \in Seq(Byte)
    BY <2>6, <2>8, <2>9
  <2>10. 0 \in 0 .. Losses /\ 0 \in 0 .. ReceBufferLength /\ FALSE \in BOOLEAN
    BY BoundsAre
  <2>2. lost \in 0 .. Losses /\ dropped \in BOOLEAN /\ rece_datalen \in 0 .. ReceBufferLength
    BY <1>1, <2>10, Zenon
  <2>3. StoreOK
    BY <1>1, <2>1, <2>2 DEF StoreOK
  <2>4. QED
    BY <1>3, <1>4, <2>1, <2>2, <2>3 DEF Typed
<1>6. Story(<<>>, <<>>, <<>>, <<>>, FALSE)
  <2>1. Cat(<<>>, <<>>) = <<>>
    BY <1>2, ConcatEmptySeq DEF Cat
  <2>2. SomeOf(<<>>, <<>>)
    <3>1. DOMAIN <<>> = {}
      OBVIOUS
    <3> DEFINE f == [i \in {} |-> 0]
    <3>2. f \in [{} -> {}]
      OBVIOUS
    <3> HIDE DEF f
    <3>3. QED
      BY <3>1, <3>2 DEF SomeOf
  <2>3. Got(<<>>, <<>>, FALSE)
    BY <2>2 DEF Got
  <2>4. QED
    BY <1>2, <2>1, <2>3, FramesNone DEF Story
<1>7. QED
  BY <1>1, <1>2, <1>5, <1>6 DEF Lossless

LEMMA SendsTyped ==
  ASSUME Typed, Lossless, DongleSends
  PROVE  Typed' /\ Lossless'
<1>1. PICK m \in Message : sent' = Append(sent, m) /\ wire' = wire \o Frame(m) /\ Len(sent) < Sends
  BY DEF DongleSends
<1>2. UNCHANGED <<rece_data, rece_datalen, rx, delivered, lost, dropped>>
  BY DEF DongleSends
<1>3. sent \in Seq(Message) /\ wire \in Seq(Byte) /\ Frame(m) \in Seq(Byte)
  BY FrameIs DEF Typed, Framed
<1>4. sent' \in Seq(Message) /\ Len(sent') = Len(sent) + 1 /\ Len(sent) \in Nat
  BY <1>1, <1>3, AppendProperties, LenProperties
<1>5. wire' \in Seq(Byte)
  BY <1>1, <1>3, ConcatProperties
<1>6. Typed'
  BY <1>1, <1>2, <1>4, <1>5, BoundsAre DEF Typed, StoreOK
<1>7. ASSUME Story(sent, delivered, wire, rece_data, dropped)
      PROVE  Story(sent', delivered, wire', rece_data, dropped)
  <2>1. PICK done, rest \in Seq(Message) : \E pre \in Seq(Byte) :
          /\ sent = Cat(done, rest) /\ Cat(pre, wire) = Frames(rest) /\ Got(delivered, done, dropped)
          /\ rece_data = pre \/ (dropped /\ rece_data = <<>>)
          /\ rece_data # <<>> => rece_data[Len(rece_data)] # END
    BY <1>7 DEF Story
  <2>2. PICK pre \in Seq(Byte) :
          /\ sent = Cat(done, rest) /\ Cat(pre, wire) = Frames(rest) /\ Got(delivered, done, dropped)
          /\ rece_data = pre \/ (dropped /\ rece_data = <<>>)
          /\ rece_data # <<>> => rece_data[Len(rece_data)] # END
    BY <2>1
  <2>3. PICK more \in Seq(Message) : more = Append(rest, m)
    BY <2>1, AppendProperties
  <2>4. sent' = Cat(done, more)
    <3> DEFINE E == Message
    <3>1. done \in Seq(E) /\ rest \in Seq(E) /\ m \in E
      BY <2>1
    <3> HIDE DEF E
    <3>2. Append(Cat(done, rest), m) = Cat(done, Append(rest, m))
      BY <3>1, AppendOver
    <3>3. QED
      BY <1>1, <2>2, <2>3, <3>2
  <2>5. Cat(pre, wire') = Frames(more)
    <3>1. Frames(more) = Cat(Frames(rest), Frame(m))
      BY <2>1, <2>3, FramesMore DEF Cat
    <3>2. Cat(Cat(pre, wire), Frame(m)) = Cat(pre, Cat(wire, Frame(m)))
      BY <1>3, Regroup
    <3>3. wire' = Cat(wire, Frame(m))
      BY <1>1 DEF Cat
    <3>4. QED
      BY <2>2, <3>1, <3>2, <3>3
  <2>6. QED
    BY <2>1, <2>2, <2>3, <2>4, <2>5 DEF Story
<1>8. Lossless'
  BY <1>2, <1>7 DEF Lossless
<1>9. QED
  BY <1>6, <1>8

LEMMA RemoveIs ==
  ASSUME NEW s \in Seq(Byte), NEW i \in DOMAIN s
  PROVE  RemoveAt(s, i) \in Seq(Byte) /\ Len(RemoveAt(s, i)) = Len(s) - 1
<1>1. PICK n \in Nat : n = Len(s) /\ i \in 1 .. n
  BY LenProperties
<1>2. \A j \in 1 .. n : s[j] \in Byte
  BY <1>1, ElementOfSeq
<1>3. PICK a \in Seq(Byte) : a = SubSeq(s, 1, i - 1) /\ Len(a) = i - 1
  <2>1. PICK k \in Nat : k = i - 1 /\ k <= n
    BY <1>1
  <2>2. \A j \in 1 .. k : s[j] \in Byte
    BY <1>2, <2>1
  <2>3. SubSeq(s, 1, k) \in Seq(Byte) /\ Len(SubSeq(s, 1, k)) = IF 1 <= k THEN k - 1 + 1 ELSE 0
    BY <2>2, SubSeqProperties
  <2>4. Len(SubSeq(s, 1, k)) = k
    BY <2>1, <2>3
  <2>5. QED
    BY <2>1, <2>3, <2>4
<1>4. PICK b \in Seq(Byte) : b = SubSeq(s, i + 1, n) /\ Len(b) = n - i
  <2>1. PICK k \in Nat : k = i + 1 /\ k <= n + 1
    BY <1>1
  <2>2. \A j \in k .. n : s[j] \in Byte
    BY <1>1, <1>2, <2>1
  <2>3. SubSeq(s, k, n) \in Seq(Byte) /\ Len(SubSeq(s, k, n)) = IF k <= n THEN n - k + 1 ELSE 0
    BY <2>2, SubSeqProperties
  <2>4. Len(SubSeq(s, k, n)) = n - i
    BY <1>1, <2>1, <2>3
  <2>5. QED
    BY <2>1, <2>3, <2>4
<1>5. a \o b \in Seq(Byte) /\ Len(a \o b) = Len(a) + Len(b)
  BY ConcatProperties
<1>6. RemoveAt(s, i) = a \o b
  BY <1>1, <1>3, <1>4 DEF RemoveAt
<1>7. Len(a) + Len(b) = n - 1
  BY <1>1, <1>3, <1>4
<1>8. QED
  BY <1>1, <1>5, <1>6, <1>7

LEMMA LosesTyped ==
  ASSUME Typed, Lossless, LoseByte
  PROVE  Typed' /\ Lossless' /\ Len(wire') = Len(wire) - 1
<1>1. PICK i \in DOMAIN wire : wire' = RemoveAt(wire, i)
  BY DEF LoseByte
<1>2. wire' \in Seq(Byte) /\ Len(wire') = Len(wire) - 1
  BY <1>1, RemoveIs DEF Typed
<1>3. lost' = lost + 1 /\ lost < Losses /\ UNCHANGED <<sent, rece_data, rece_datalen, rx, delivered, dropped>>
  BY DEF LoseByte
<1>4. lost' \in 0 .. Losses /\ lost' # 0
  BY <1>3, BoundsAre DEF Typed
<1>5. Typed'
  BY <1>2, <1>3, <1>4 DEF Typed, StoreOK
<1>6. QED
  BY <1>2, <1>4, <1>5 DEF Lossless
-----------------------------------------------------------------------------
LEMMA DecodeTyped ==
  ASSUME Typed, NEW data \in Seq(Byte), NEW n \in Nat, Len(data) <= n, Decode(data, n),
         wire' \in Seq(Byte), UNCHANGED <<sent, lost>>
  PROVE  Typed'
<1>1. /\ rx' \in Receiver /\ rx'.parsed = <<>> /\ delivered' \in Seq(Parsed)
      /\ rece_data' = <<>> /\ rece_datalen' = 0 /\ dropped' = dropped
  BY DecodeIs
<1>2. <<>> \in Seq(Byte) /\ Len(<<>>) = 0
  BY EmptySeq
<1>3. 0 \in 0 .. ReceBufferLength
  BY BoundsAre
<1>4. StoreOK'
  <2>1. rece_data' \in Seq(Byte) /\ Len(rece_data') = 0
    BY <1>1, <1>2, Zenon
  <2>2. QED
    BY <1>1, <1>3, <2>1 DEF StoreOK
<1>5. QED
  BY <1>1, <1>4 DEF Typed

LEMMA KeepTyped ==
  ASSUME Typed, NEW data \in Seq(Byte), NEW n \in Nat, Len(data) <= n, n <= ReceBufferLength,
         data # <<>>, data[1] = START, Keep(data, n),
         wire' \in Seq(Byte), UNCHANGED <<sent, lost>>
  PROVE  Typed'
<1>1. rece_data' = data /\ rece_datalen' = n /\ UNCHANGED <<rx, delivered, dropped>>
  BY DEF Keep
<1>2. PICK k \in Nat : k = Len(data)
  BY LenProperties
<1>3. n \in k .. ReceBufferLength
  BY <1>2, BoundsAre
<1>4. StoreOK'
  BY <1>1, <1>2, <1>3 DEF StoreOK
<1>5. QED
  BY <1>1, <1>4 DEF Typed

LEMMA DropTyped ==
  ASSUME Typed, DropStore, wire' \in Seq(Byte), UNCHANGED <<sent, lost>>
  PROVE  Typed'
<1>1. /\ rece_data' = <<>> /\ rece_datalen' = 0 /\ dropped' = TRUE
      /\ UNCHANGED <<rx, delivered>>
  BY DEF DropStore, ClearStore
<1>2. <<>> \in Seq(Byte) /\ Len(<<>>) = 0
  BY EmptySeq
<1>3. 0 \in 0 .. ReceBufferLength
  BY BoundsAre
<1>4. StoreOK'
  <2>1. rece_data' \in Seq(Byte) /\ Len(rece_data') = 0
    BY <1>1, <1>2, Zenon
  <2>2. QED
    BY <1>1, <1>3, <2>1 DEF StoreOK
<1>5. QED
  BY <1>1, <1>4 DEF Typed

\* What is decoded or kept behind a store: the store, padded to its counted
\* length, and the chunk.
LEMMA HeldIs ==
  ASSUME Typed, rece_data # <<>>, NEW c \in Seq(Byte)
  PROVE  \E data \in Seq(Byte) :
           /\ data = Cat(Stored(rece_data, rece_datalen), c)
           /\ data # <<>> /\ data[1] = START /\ Len(data) = rece_datalen + Len(c)
           /\ rece_datalen = Len(rece_data) => data = Cat(rece_data, c)
<1>1. /\ rece_data \in Seq(Byte) /\ rece_data[1] = START
      /\ rece_datalen \in Len(rece_data) .. ReceBufferLength
  BY DEF Typed, StoreOK
<1>2. PICK n \in Nat : n = rece_datalen /\ Len(rece_data) <= n
  BY CountIs
<1>3. PICK s \in Seq(Byte) : /\ s = Stored(rece_data, n) /\ Len(s) = n
                             /\ n = Len(rece_data) => s = rece_data
  BY <1>1, <1>2, StoredIs
<1>4. PICK z \in Seq({0}) : s = Cat(rece_data, z)
  BY <1>1, <1>2, <1>3, StoredIs
<1>5. z \in Seq(Byte)
  BY ZerosAreBytes
<1>6. s # <<>> /\ s[1] = START
  BY <1>1, <1>4, <1>5, CatEnds
<1>7. PICK data \in Seq(Byte) : data = Cat(s, c)
  BY CatIs
<1>8. data # <<>> /\ data[1] = START /\ Len(data) = n + Len(c)
  BY <1>3, <1>6, <1>7, CatEnds
<1>9. QED
  BY <1>2, <1>3, <1>7, <1>8

LEMMA RecvTyped ==
  ASSUME Typed, NEW c \in Seq(Byte), c # <<>>, RecvCases(c),
         rece_datalen + Len(c) <= ReceBufferLength, wire' \in Seq(Byte), UNCHANGED <<sent, lost>>
  PROVE  Typed'
<1>1. PICK n \in Nat : n = rece_datalen + Len(c) /\ Len(c) <= n
  BY CountMore
<1>2. CASE Begins(c) /\ Decode(c, n)
  BY <1>1, <1>2, DecodeTyped
<1>3. CASE Begins(c) /\ Keep(c, n)
  BY <1>1, <1>3, KeepTyped DEF Begins
<1>4. CASE DropStore
  BY <1>4, DropTyped
<1>5. ASSUME rece_data # <<>>
      PROVE  \E data \in Seq(Byte) :
               /\ data = Cat(Stored(rece_data, rece_datalen), c)
               /\ data # <<>> /\ data[1] = START /\ Len(data) = n
  BY <1>1, <1>5, HeldIs
<1>6. CASE rece_data # <<>> /\ Decode(Cat(Stored(rece_data, rece_datalen), c), n)
  <2>1. PICK data \in Seq(Byte) : /\ data = Cat(Stored(rece_data, rece_datalen), c)
                                  /\ Len(data) = n
    BY <1>5, <1>6
  <2>2. Decode(data, n) /\ Len(data) <= n
    BY <1>1, <1>6, <2>1
  <2>3. QED
    BY <2>2, DecodeTyped
<1>7. CASE rece_data # <<>> /\ Keep(Cat(Stored(rece_data, rece_datalen), c), n)
  <2>1. PICK data \in Seq(Byte) : /\ data = Cat(Stored(rece_data, rece_datalen), c)
                                  /\ data # <<>> /\ data[1] = START /\ Len(data) = n
    BY <1>5, <1>7
  <2>2. Keep(data, n) /\ Len(data) <= n
    BY <1>1, <1>7, <2>1
  <2>3. QED
    BY <1>1, <2>1, <2>2, KeepTyped
<1>8. CASE Decode(<<>>, 0)
  <2>1. <<>> \in Seq(Byte) /\ Len(<<>>) <= 0 /\ 0 \in Nat
    BY EmptySeq
  <2>2. QED
    BY <1>8, <2>1, DecodeTyped
<1>9. QED
  BY <1>1, <1>2, <1>3, <1>4, <1>6, <1>7, <1>8 DEF RecvCases

LEMMA ParsedRight ==
  ASSUME Typed, delivered \in Seq(Message), NEW data \in Seq(Byte), NEW w \in Seq(Byte),
         data # <<>>, data[Len(data)] = END, Begun(sent, delivered, data, w, dropped),
         Decode(data, Len(data)), wire' = w, UNCHANGED <<sent, lost>>
  PROVE  Lossless'
<1>1. PICK x \in Seq(Message) :
        data = Frames(x) /\ Story(sent, Cat(delivered, x), w, <<>>, dropped)
  BY StoryParsed DEF Typed
<1>2. PICK n \in Nat : n = Len(data) /\ Len(data) <= n
  BY LenProperties
<1>3. /\ delivered' = delivered \o Receive(rx, Stored(data, n)).parsed
      /\ rece_data' = <<>> /\ rece_datalen' = 0 /\ dropped' = dropped
  BY <1>2, DecodeIs
<1>4. Stored(data, n) = data
  BY <1>2, StoredIs
<1>5. rx \in Receiver /\ rx.parsed = <<>>
  BY DEF Typed
<1>6. Receive(rx, Frames(x)).parsed = x
  <2>1. Receive(rx, Frames(x)).parsed = rx.parsed \o x
    BY <1>5, FramesTaken
  <2>2. <<>> \o x = x
    BY ConcatEmptySeq
  <2>3. QED
    BY <1>5, <2>1, <2>2, Zenon
<1>7. delivered' = Cat(delivered, x)
  BY <1>1, <1>3, <1>4, <1>6, Zenon DEF Cat
<1>8. Cat(delivered, x) \in Seq(Message)
  BY CatIs
<1>9. Len(<<>>) = 0
  BY EmptySeq
<1>10. /\ rece_datalen' = Len(rece_data') /\ delivered' \in Seq(Message)
       /\ Story(sent', delivered', wire', rece_data', dropped')
  BY <1>1, <1>3, <1>7, <1>8, <1>9, Zenon
<1>11. QED
  BY <1>10 DEF Lossless

LEMMA KeptRight ==
  ASSUME Typed, delivered \in Seq(Message), NEW data \in Seq(Byte), NEW w \in Seq(Byte),
         data[Len(data)] # END, Begun(sent, delivered, data, w, dropped),
         Keep(data, Len(data)), wire' = w, UNCHANGED <<sent, lost>>
  PROVE  Lossless'
<1>1. Story(sent, delivered, w, data, dropped)
  BY StoryKept DEF Typed
<1>2. rece_data' = data /\ rece_datalen' = Len(data) /\ UNCHANGED <<rx, delivered, dropped>>
  BY DEF Keep
<1>3. QED
  BY <1>1, <1>2 DEF Lossless

LEMMA RecvLossless ==
  ASSUME Typed, Lossless, NEW c \in Seq(Byte), NEW w \in Seq(Byte), c # <<>>, RecvCases(c),
         wire = Cat(c, w), wire' = w, UNCHANGED <<sent, lost>>
  PROVE  Lossless'
<1> SUFFICES ASSUME lost = 0  PROVE Lossless'
  BY DEF Lossless
<1>1. /\ rece_datalen = Len(rece_data) /\ delivered \in Seq(Message)
      /\ Story(sent, delivered, Cat(c, w), rece_data, dropped)
  BY DEF Lossless
<1>2. /\ sent \in Seq(Message) /\ rece_data \in Seq(Byte) /\ dropped \in BOOLEAN
  BY DEF Typed, StoreOK
<1>3. CASE Begins(c)
  <2>1. rece_data = <<>> /\ Begun(sent, delivered, c, w, dropped)
    BY <1>1, <1>2, <1>3, StartBegins DEF Begins
  <2>2. rece_datalen + Len(c) = Len(c)
    <3>1. Len(<<>>) = 0 /\ Len(c) \in Nat
      BY EmptySeq, LenProperties
    <3>2. rece_datalen = 0
      BY <1>1, <2>1, <3>1
    <3>3. QED
      BY <3>1, <3>2
  <2>3. \/ Ends(c) /\ Decode(c, Len(c))
        \/ ~ Ends(c) /\ Keep(c, Len(c))
    BY <1>3, <2>1, <2>2 DEF RecvCases
  <2>4. QED
    BY <1>1, <2>1, <2>3, ParsedRight, KeptRight DEF Ends
<1>4. CASE ~ Begins(c) /\ rece_data # <<>>
  <2>1. PICK data \in Seq(Byte) : data = Cat(rece_data, c)
    BY <1>2, CatIs
  <2>2. Begun(sent, delivered, data, w, dropped)
    BY <1>1, <1>2, <1>4, <2>1, StoreGoesOn
  <2>3. data # <<>> /\ data[Len(data)] = c[Len(c)] /\ Len(data) = rece_datalen + Len(c)
    <3>1. /\ data # <<>> /\ Len(data) = Len(rece_data) + Len(c)
          /\ data[Len(rece_data) + Len(c)] = c[Len(c)]
      BY <1>2, <1>4, <2>1, CatEnds
    <3>2. QED
      BY <1>1, <3>1, Zenon
  <2>4. Stored(rece_data, rece_datalen) = rece_data
    <3>1. PICK n \in Nat : n = Len(rece_data) /\ Len(rece_data) <= n
      BY <1>2, LenProperties
    <3>2. QED
      BY <1>1, <1>2, <3>1, StoredIs
  <2>5. \/ DropStore
        \/ Ends(c) /\ Decode(data, Len(data))
        \/ ~ Ends(c) /\ Keep(data, Len(data))
    BY <1>4, <2>1, <2>3, <2>4 DEF RecvCases
  <2>6. CASE DropStore
    <3>1. rece_data' = <<>> /\ rece_datalen' = 0 /\ dropped' = TRUE /\ delivered' = delivered
      BY <2>6 DEF DropStore, ClearStore
    <3>2. Story(sent, delivered, w, <<>>, TRUE)
      BY <1>1, <1>2, <2>2, StoryThrown
    <3>3. Len(<<>>) = 0
      BY EmptySeq
    <3>4. /\ rece_datalen' = Len(rece_data') /\ delivered' \in Seq(Message)
          /\ Story(sent', delivered', wire', rece_data', dropped')
      BY <1>1, <3>1, <3>2, <3>3, Zenon
    <3>5. QED
      BY <3>4 DEF Lossless
  <2>7. QED
    BY <1>1, <2>2, <2>3, <2>5, <2>6, ParsedRight, KeptRight DEF Ends
<1>5. CASE ~ Begins(c) /\ rece_data = <<>>
  <2>1. Decode(<<>>, 0)
    BY <1>5 DEF RecvCases
  <2>2. <<>> \in Seq(Byte) /\ Len(<<>>) = 0 /\ 0 \in Nat /\ 0 <= 0
    BY EmptySeq
  <2>3. /\ delivered' = delivered \o Receive(rx, Stored(<<>>, 0)).parsed
        /\ rece_data' = <<>> /\ rece_datalen' = 0 /\ dropped' = dropped
    BY <2>1, <2>2, DecodeIs
  <2>4. Stored(<<>>, 0) = <<>>
    BY <2>2, StoredIs
  <2>5. Receive(rx, <<>>).parsed = <<>>
    BY ReceiveNone DEF Typed
  <2>6. delivered \o <<>> = delivered
    BY <1>1, ConcatEmptySeq
  <2>7. delivered' = delivered
    BY <2>3, <2>4, <2>5, <2>6, Zenon
  <2>8. Story(sent, delivered, w, <<>>, dropped)
    BY <1>1, <1>2, <1>5, StoryIgnored DEF Begins
  <2>9. /\ rece_datalen' = Len(rece_data') /\ delivered' \in Seq(Message)
        /\ Story(sent', delivered', wire', rece_data', dropped')
    BY <1>1, <2>2, <2>3, <2>7, <2>8, Zenon
  <2>10. QED
    BY <2>9 DEF Lossless
<1>6. QED
  BY <1>3, <1>4, <1>5

LEMMA ReadTyped ==
  ASSUME Typed, Lossless, thread_comread
  PROVE  Typed' /\ Lossless'
<1>1. PICK n \in 1 .. BufferSize - 1 :
        /\ n <= Len(wire) /\ rece_datalen + n <= ReceBufferLength
        /\ recv_zigbee_data(SubSeq(wire, 1, n))
        /\ wire' = SubSeq(wire, n + 1, Len(wire)) /\ UNCHANGED <<sent, lost>>
  BY DEF thread_comread
<1>2. n \in Nat /\ 1 <= n
  BY FramingAssumption
<1>3. PICK c, w \in Seq(Byte) :
        /\ c = SubSeq(wire, 1, n) /\ w = SubSeq(wire, n + 1, Len(wire))
        /\ wire = Cat(c, w) /\ Len(c) = n /\ c # <<>>
        /\ Head(c) = c[1] /\ Last(c) = c[Len(c)]
  BY <1>1, <1>2, ReadIs
<1>4. RecvCases(c) /\ wire' = w
  BY <1>1, <1>3, RecvIs
<1>5. Typed'
  BY <1>1, <1>3, <1>4, RecvTyped
<1>6. Lossless'
  BY <1>1, <1>3, <1>4, RecvLossless
<1>7. QED
  BY <1>5, <1>6

LEMMA FramingStep ==
  ASSUME Typed, Lossless, [Next]_vars
  PROVE  Typed' /\ Lossless'
<1>1. CASE thread_comread
  BY <1>1, ReadTyped
<1>2. CASE DongleSends
  BY <1>2, SendsTyped
<1>3. CASE LoseByte
  BY <1>3, LosesTyped
<1>4. CASE UNCHANGED vars
  BY <1>4 DEF vars, Typed, Lossless, StoreOK
<1>5. QED
  BY <1>1, <1>2, <1>3, <1>4 DEF Next

LEMMA FramingInvariant == Spec => [](Typed /\ Lossless)
<1>1. Init => Typed /\ Lossless
  BY FramingInit
<1>2. Typed /\ Lossless /\ [Next]_vars => (Typed /\ Lossless)'
  BY FramingStep
<1>3. QED
  BY <1>1, <1>2, PTL DEF Spec
-----------------------------------------------------------------------------
(***************************************************************************)
(* The properties.                                                         *)
(***************************************************************************)
\* Whatever the line loses and wherever the reader sees a pause, the fields of
\* the receiver and the store stay in their ranges, and a store that is not
\* empty begins with a start character (recv_zigbee_data, thread_comread).
THEOREM FramingTypeCorrect == Spec => []TypeOK
<1>1. Typed => TypeOK
  <2> SUFFICES ASSUME Typed  PROVE TypeOK
    OBVIOUS
  <2>1. rx \in Fields /\ rx.parsed = <<>>
    BY DEF Typed, Receiver
  <2>2. ReceiverOK
    BY <2>1 DEF ReceiverOK, Fields, States
  <2>3. QED
    BY <2>2 DEF TypeOK, Typed, Parsed
<1>2. QED
  BY <1>1, FramingInvariant, PTL

LEMMA PrefixIs ==
  ASSUME NEW E, NEW a \in Seq(E), NEW b \in Seq(E)
  PROVE  IsPrefix(a, a \o b)
<1>1. PICK n, k \in Nat : n = Len(a) /\ k = Len(b)
  BY LenProperties
<1>2. PICK y \in Seq(E) : y = a \o b
  BY ConcatProperties
<1>3. Len(y) = n + k /\ \A i \in 1 .. n : y[i] = a[i]
  <2>1. /\ Len(a \o b) = Len(a) + Len(b)
        /\ \A i \in 1 .. Len(a) + Len(b) :
             (a \o b)[i] = IF i <= Len(a) THEN a[i] ELSE b[i - Len(a)]
    BY ConcatProperties
  <2>2. QED
    BY <1>1, <1>2, <2>1
<1>4. DOMAIN a = 1 .. n /\ n <= n + k
  BY <1>1, LenProperties
<1>5. IsPrefix(a, y)
  BY <1>1, <1>3, <1>4 DEF IsPrefix
<1>6. QED
  BY <1>2, <1>5

\* On a line that loses nothing, wherever the reader sees a pause, parse gets
\* the dongle's messages in order, each at most once and unchanged, and all of
\* them unless a store grew too long (recv_zigbee_data and the receiver).
THEOREM DeliveredIsSentCorrect == Spec => []DeliveredIsSent
<1>1. ASSUME Typed, Lossless  PROVE DeliveredIsSent
  <2> SUFFICES ASSUME lost = 0
               PROVE  /\ SomeOf(delivered, sent)
                      /\ ~ dropped => IsPrefix(delivered, sent)
                      /\ ~ dropped /\ wire = <<>> => delivered = sent
    BY DEF DeliveredIsSent
  <2>1. delivered \in Seq(Message) /\ Story(sent, delivered, wire, rece_data, dropped)
    BY <1>1 DEF Lossless
  <2>2. PICK done, rest \in Seq(Message) : \E pre \in Seq(Byte) :
          /\ sent = Cat(done, rest) /\ Cat(pre, wire) = Frames(rest)
          /\ Got(delivered, done, dropped)
          /\ rece_data = pre \/ (dropped /\ rece_data = <<>>)
          /\ rece_data # <<>> => rece_data[Len(rece_data)] # END
    BY <2>1 DEF Story
  <2>3. PICK pre \in Seq(Byte) :
          /\ sent = Cat(done, rest) /\ Cat(pre, wire) = Frames(rest)
          /\ Got(delivered, done, dropped)
          /\ rece_data = pre \/ (dropped /\ rece_data = <<>>)
          /\ rece_data # <<>> => rece_data[Len(rece_data)] # END
    BY <2>2
  <2>4. SomeOf(delivered, sent)
    <3>1. SomeOf(delivered, done)
      BY <2>3 DEF Got
    <3>2. SomeOf(delivered, done \o rest)
      BY <2>1, <2>2, <3>1, SomeOfLonger
    <3>3. QED
      BY <2>3, <3>2 DEF Cat
  <2>5. ASSUME ~ dropped  PROVE IsPrefix(delivered, sent)
    <3>1. delivered = done
      BY <2>3, <2>5 DEF Got
    <3>2. IsPrefix(done, done \o rest)
      BY <2>2, PrefixIs
    <3>3. QED
      BY <2>3, <3>1, <3>2 DEF Cat
  <2>6. ASSUME ~ dropped, wire = <<>>  PROVE delivered = sent
    <3>1. delivered = done /\ rece_data = pre
      BY <2>3, <2>6 DEF Got
    <3>2. Cat(pre, <<>>) = pre
      BY ConcatEmptySeq DEF Cat
    <3>3. pre = Frames(rest)
      BY <2>3, <2>6, <3>2
    <3>4. pre = <<>>
      <4> SUFFICES ASSUME pre # <<>>  PROVE FALSE
        OBVIOUS
      <4>1. pre[Len(pre)] # END
        BY <2>3, <3>1
      <4>2. QED
        BY <2>2, <3>3, <4>1, FramesEnds
    <3>5. rest = <<>>
      BY <2>2, <3>3, <3>4, FramesSome
    <3>6. Cat(done, <<>>) = done
      BY <2>2, ConcatEmptySeq DEF Cat
    <3>7. QED
      BY <2>3, <3>1, <3>5, <3>6
  <2>7. QED
    BY <2>4, <2>5, <2>6
<1>2. QED
  BY <1>1, FramingInvariant, PTL

LEMMA SubSeqsIs ==
  ASSUME NEW all \in Seq(Message), NEW ms \in SubSeqs(all)
  PROVE  ms \in Seq(Message)
<1>1. PICK n \in Nat : n = Len(all)
  BY LenProperties
<1>2. PICK i \in 0 .. n, j \in 0 .. n : ms = SubSeq(all, i + 1, j)
  BY <1>1 DEF SubSeqs
<1>3. PICK k \in Int : k = i + 1 /\ k >= 1
  OBVIOUS
<1>4. \A p \in k .. j : all[p] \in Message
  BY <1>1, <1>3, ElementOfSeq
<1>5. QED
  BY <1>2, <1>3, <1>4, SubSeqProperties

LEMMA WholeStep ==
  ASSUME Typed, thread_comread, Head(wire) = START,
         NEW ms \in Seq(Message), ms # <<>>, wire = Frames(ms) \o wire'
  PROVE  delivered' = delivered \o ms
<1>1. PICK n \in 1 .. BufferSize - 1 :
        /\ n <= Len(wire) /\ rece_datalen + n <= ReceBufferLength
        /\ recv_zigbee_data(SubSeq(wire, 1, n))
        /\ wire' = SubSeq(wire, n + 1, Len(wire)) /\ UNCHANGED <<sent, lost>>
  BY DEF thread_comread
<1>2. n \in Nat /\ 1 <= n
  BY FramingAssumption
<1>3. PICK c, w \in Seq(Byte) :
        /\ c = SubSeq(wire, 1, n) /\ w = SubSeq(wire, n + 1, Len(wire))
        /\ wire = Cat(c, w) /\ Len(c) = n /\ c # <<>>
        /\ Head(c) = c[1] /\ Last(c) = c[Len(c)]
  BY <1>1, <1>2, ReadIs
<1>4. RecvCases(c) /\ wire' = w
  BY <1>1, <1>3, RecvIs
<1>5. c = Frames(ms)
  <2>1. PICK f \in Seq(Byte) : f = Frames(ms)
    BY FramesAre
  <2>2. c \o w = f \o w
    BY <1>3, <1>4, <2>1 DEF Cat
  <2>3. Len(c) = Len(f)
    <3>1. Len(c \o w) = Len(c) + Len(w) /\ Len(f \o w) = Len(f) + Len(w)
      BY ConcatProperties
    <3>2. Len(c) \in Nat /\ Len(f) \in Nat /\ Len(w) \in Nat
      BY LenProperties
    <3>3. QED
      BY <2>2, <3>1, <3>2
  <2>4. QED
    BY <2>1, <2>2, <2>3, Cancel
<1>6. Begins(c) /\ Ends(c)
  BY <1>3, <1>5, FramesEnds DEF Begins, Ends
<1>7. Decode(c, rece_datalen + Len(c))
  BY <1>4, <1>6 DEF RecvCases
<1>8. PICK k \in Nat : k = rece_datalen + Len(c) /\ Len(c) <= k
  BY CountMore
<1>9. delivered' = delivered \o Receive(rx, Stored(c, k)).parsed
  BY <1>7, <1>8, DecodeIs
<1>10. PICK z \in Seq({0}) : Stored(c, k) = Cat(c, z)
  BY <1>8, StoredIs
<1>11. rx \in Receiver /\ rx.parsed = <<>>
  BY DEF Typed
<1>12. PICK r \in Receiver : r = Receive(rx, c)
  BY <1>11, ReceiveIs
<1>13. r.parsed = ms /\ Idle(r)
  <2>1. r.parsed = rx.parsed \o ms /\ Idle(r)
    BY <1>5, <1>11, <1>12, FramesTaken
  <2>2. <<>> \o ms = ms
    BY ConcatEmptySeq
  <2>3. QED
    BY <1>11, <2>1, <2>2, Zenon
<1>14. z \in Seq(Byte)
  BY ZerosAreBytes
<1>15. Receive(rx, Cat(c, z)) = Receive(r, z)
  BY <1>11, <1>12, <1>14, ReceiveOver
<1>16. Receive(r, z) = r
  BY <1>13, ZerosTaken
<1>17. QED
  BY <1>9, <1>10, <1>13, <1>15, <1>16, Zenon

\* Whatever the line has lost before and whatever is left in the store and the
\* receiver, frames that the reader gets whole in one chunk are all parsed
\* (a start character resets the receiver and overwrites the store).
THEOREM WholeFramesPassCorrect == Spec => WholeFramesPass
<1> DEFINE Whole ==
      wire # <<>> /\ Head(wire) = START /\ Len(wire') < Len(wire) - 1 =>
        \A ms \in SubSeqs(sent) \ {<<>>} :
          wire = Frames(ms) \o wire' => delivered' = delivered \o ms
<1>1. ASSUME Typed, Lossless, [Next]_vars  PROVE [Whole]_vars
  <2> SUFFICES ASSUME wire # <<>>, Head(wire) = START, Len(wire') < Len(wire) - 1,
                      NEW ms \in SubSeqs(sent) \ {<<>>}, wire = Frames(ms) \o wire'
               PROVE  delivered' = delivered \o ms
    OBVIOUS
  <2>1. PICK k \in Nat : k = Len(wire) /\ wire \in Seq(Byte)
    BY <1>1, LenProperties DEF Typed
  <2>2. ms \in Seq(Message) /\ ms # <<>>
    BY <1>1, SubSeqsIs DEF Typed
  <2>3. CASE thread_comread
    BY <1>1, <2>2, <2>3, WholeStep
  <2>4. CASE DongleSends
    <3>1. PICK m \in Message : wire' = wire \o Frame(m)
      BY <2>4 DEF DongleSends
    <3>2. Frame(m) \in Seq(Byte)
      BY FrameIs DEF Framed
    <3>3. Len(wire') = k + Len(Frame(m)) /\ Len(Frame(m)) \in Nat
      BY <2>1, <3>1, <3>2, ConcatProperties, LenProperties
    <3>4. QED
      BY <2>1, <3>3
  <2>5. CASE LoseByte
    BY <1>1, <2>1, <2>5, LosesTyped
  <2>6. CASE UNCHANGED vars
    BY <2>1, <2>6 DEF vars
  <2>7. QED
    BY <1>1, <2>3, <2>4, <2>5, <2>6 DEF Next
<1>2. QED
  BY <1>1, FramingInvariant, PTL DEF WholeFramesPass, Spec
=============================================================================
