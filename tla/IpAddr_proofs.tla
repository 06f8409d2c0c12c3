----------------------------- MODULE IpAddr_proofs -----------------------------
(***************************************************************************)
(* Theorems about the addresses together: the conversions between them are *)
(* inverse, operator< of Ipv6Addr is the order of numbers, and its classes *)
(* are the documented blocks, for every address.                           *)
(***************************************************************************)
EXTENDS IpAddr, Ipv4Addr_proofs, Ipv6Addr_proofs

Made(g, h) == g + 256 * h

LEMMA WordParts ==
  ASSUME NEW w \in Word
  PROVE  /\ w \in Nat
         /\ Low(w) \in Byte /\ High(w) \in Byte
         /\ w = Made(Low(w), High(w))
         /\ Swap(w) = Made(High(w), Low(w))
<1>1. w \in Nat /\ w <= 65535
  BY WordIsNat DEF MaxWord
<1>2. w % 256 \in Nat /\ w % 256 <= 255
  BY <1>1
<1>3. w \div 256 \in Nat
  BY <1>1
<1>4. w \div 256 <= 255
  BY <1>1
<1>5. w = 256 * (w \div 256) + (w % 256)
  BY <1>1
<1>6. Low(w) \in Byte /\ High(w) \in Byte
  BY <1>2, <1>3, <1>4 DEF Low, High, Byte
<1> DEFINE g == w % 256
           h == w \div 256
<1>7. Low(w) = g /\ High(w) = h /\ Swap(w) = g * 256 + h /\ g \in Nat /\ h \in Nat
      /\ w = 256 * h + g
  BY <1>2, <1>3, <1>5 DEF Low, High, Swap
<1> HIDE DEF g, h
<1> QED BY <1>1, <1>6, <1>7 DEF Made

LEMMA IsWord == \A w \in Nat : w <= 65535 => w \in Word
<1>1. MaxWord \in Nat /\ \A w \in Nat : w <= 65535 => w <= MaxWord
  BY DEF MaxWord
<1> QED BY <1>1 DEF Word

LEMMA Ends == 0 \in Word /\ 65535 \in Word /\ Swap(0) = 0 /\ Swap(65535) = 65535
<1>1. Swap(0) = 0 /\ Swap(65535) = 65535
  BY DEF Swap
<1>2. 0 \in Nat /\ 65535 \in Nat /\ 0 <= 65535 /\ 65535 <= 65535
  OBVIOUS
<1> QED BY <1>1, <1>2, IsWord

LEMMA PartsOfMade ==
  ASSUME NEW g \in Byte, NEW h \in Byte
  PROVE  /\ Made(g, h) \in Word
         /\ Low(Made(g, h)) = g /\ High(Made(g, h)) = h
         /\ Swap(Made(g, h)) = Made(h, g)
<1>1. g \in Nat /\ g <= 255 /\ h \in Nat /\ h <= 255
  BY DEF Byte
<1>2. g + 256 * h \in Nat /\ g + 256 * h <= 65535
  BY <1>1
<1>3. (g + 256 * h) % 256 = g
  BY <1>1
<1>4. (g + 256 * h) \div 256 = h
  BY <1>1
<1>5. g * 256 + h = h + 256 * g
  BY <1>1
<1>6. Low(Made(g, h)) = g /\ High(Made(g, h)) = h
  BY <1>3, <1>4 DEF Made, Low, High
<1>7. Made(g, h) \in Word
  BY <1>2, IsWord DEF Made
<1>8. Swap(Made(g, h)) = Made(h, g)
  <2>1. Swap(Made(g, h)) = g * 256 + h
    <3> DEFINE w == g + 256 * h
    <3>1. w % 256 = g /\ w \div 256 = h
      BY <1>3, <1>4
    <3> HIDE DEF w
    <3>2. Swap(w) = g * 256 + h
      BY <3>1 DEF Swap
    <3> QED BY <3>2 DEF w, Made
  <2> QED BY <1>5, <2>1 DEF Made
<1> QED BY <1>6, <1>7, <1>8

(* Order of two pairs of bytes. *)
LEMMA MadeOrder ==
  ASSUME NEW g \in Byte, NEW h \in Byte, NEW k \in Byte, NEW l \in Byte
  PROVE  /\ Made(h, g) < Made(l, k) <=> g < k \/ (g = k /\ h < l)
         /\ Made(h, g) = Made(l, k) <=> g = k /\ h = l
         /\ Made(h, g) \in Nat
<1>1. g \in Nat /\ g <= 255 /\ h \in Nat /\ h <= 255 /\ k \in Nat /\ k <= 255 /\ l \in Nat /\ l <= 255
  BY DEF Byte
<1> QED BY <1>1 DEF Made

-----------------------------------------------------------------------------
(* operator< of Ipv6Addr. *)

LEMMA WordOrder ==
  ASSUME NEW v \in Word, NEW w \in Word
  PROVE  /\ Swap(v) < Swap(w) <=> Low(v) < Low(w) \/ (Low(v) = Low(w) /\ High(v) < High(w))
         /\ Swap(v) = Swap(w) <=> Low(v) = Low(w) /\ High(v) = High(w)
         /\ Swap(v) = Swap(w) <=> v = w
         /\ Swap(v) \in Nat
<1>1. /\ Low(v) \in Byte /\ High(v) \in Byte /\ Low(w) \in Byte /\ High(w) \in Byte
      /\ Swap(v) = Made(High(v), Low(v)) /\ Swap(w) = Made(High(w), Low(w))
      /\ v = Made(Low(v), High(v)) /\ w = Made(Low(w), High(w))
  BY WordParts
<1>2. Swap(v) < Swap(w) <=> Low(v) < Low(w) \/ (Low(v) = Low(w) /\ High(v) < High(w))
  BY ONLY <1>1, MadeOrder
<1>3. Swap(v) = Swap(w) <=> Low(v) = Low(w) /\ High(v) = High(w)
  BY ONLY <1>1, MadeOrder
<1>4. Swap(v) \in Nat
  BY ONLY <1>1, MadeOrder
<1>5. v = w <=> Low(v) = Low(w) /\ High(v) = High(w)
  BY <1>1
<1> QED BY <1>2, <1>3, <1>4, <1>5

LEMMA MemoryIs ==
  ASSUME NEW a \in RawAddress
  PROVE  /\ DOMAIN InMemory(a) = 0 .. 15
         /\ \A k \in 0 .. 7 : InMemory(a)[2 * k] = Low(a[k])
         /\ \A k \in 0 .. 7 : InMemory(a)[2 * k + 1] = High(a[k])
<1>1. ASSUME NEW k \in 0 .. 7
      PROVE  InMemory(a)[2 * k] = Low(a[k]) /\ InMemory(a)[2 * k + 1] = High(a[k])
  <2>1. 2 * k \in 0 .. 15 /\ (2 * k) % 2 = 0 /\ (2 * k) \div 2 = k
    OBVIOUS
  <2>2. 2 * k + 1 \in 0 .. 15 /\ (2 * k + 1) % 2 = 1 /\ (2 * k + 1) \div 2 = k
    OBVIOUS
  <2> QED BY <2>1, <2>2 DEF InMemory
<1> QED BY <1>1 DEF InMemory

LEMMA ByteIndex ==
  ASSUME NEW m \in 0 .. 15
  PROVE  \E k \in 0 .. 7 : m = 2 * k \/ m = 2 * k + 1
<1>1. m \div 2 \in 0 .. 7 /\ (m = 2 * (m \div 2) \/ m = 2 * (m \div 2) + 1)
  OBVIOUS
<1> QED BY <1>1

(* Segment by segment and byte by byte the order is the same. *)
LEMMA SameOrder ==
  ASSUME NEW a \in RawAddress, NEW b \in RawAddress
  PROVE  Less6(a, b) <=> Precedes(InMemory(a), InMemory(b))
<1> DEFINE s == Segments(a)
           t == Segments(b)
           x == InMemory(a)
           y == InMemory(b)
<1>1. \A k \in 0 .. 7 :
        /\ s[k] < t[k] <=> x[2 * k] < y[2 * k]
                             \/ (x[2 * k] = y[2 * k] /\ x[2 * k + 1] < y[2 * k + 1])
        /\ s[k] = t[k] <=> x[2 * k] = y[2 * k] /\ x[2 * k + 1] = y[2 * k + 1]
  <2> SUFFICES ASSUME NEW k \in 0 .. 7
               PROVE  /\ s[k] < t[k] <=> x[2 * k] < y[2 * k]
                             \/ (x[2 * k] = y[2 * k] /\ x[2 * k + 1] < y[2 * k + 1])
                      /\ s[k] = t[k] <=> x[2 * k] = y[2 * k] /\ x[2 * k + 1] = y[2 * k + 1]
    OBVIOUS
  <2>1. a[k] \in Word /\ b[k] \in Word
    BY DEF RawAddress
  <2>2. s[k] = Swap(a[k]) /\ t[k] = Swap(b[k])
    BY DEF Segments
  <2>3. /\ x[2 * k] = Low(a[k]) /\ y[2 * k] = Low(b[k])
        /\ x[2 * k + 1] = High(a[k]) /\ y[2 * k + 1] = High(b[k])
    BY MemoryIs
  <2> HIDE DEF s, t, x, y
  <2> QED BY ONLY <2>1, <2>2, <2>3, WordOrder
<1>2. DOMAIN s = 0 .. 7 /\ DOMAIN x = 0 .. 15
  BY MemoryIs DEF Segments
<1> HIDE DEF s, t, x, y
<1>3. ASSUME NEW k \in 0 .. 7, s[k] < t[k], \A j \in 0 .. 7 : j < k => s[j] = t[j]
      PROVE  \E m \in 0 .. 15 : x[m] < y[m] /\ \A j \in 0 .. 15 : j < m => x[j] = y[j]
  <2>1. ASSUME NEW j \in 0 .. 15, j < 2 * k PROVE x[j] = y[j]
    <3>1. PICK i6 \in 0 .. 7 : j = 2 * i6 \/ j = 2 * i6 + 1
      BY ByteIndex
    <3>2. i6 < k
      BY <2>1, <3>1
    <3> QED BY <1>1, <1>3, <3>1, <3>2
  <2>2. CASE x[2 * k] < y[2 * k]
    <3>1. 2 * k \in 0 .. 15
      OBVIOUS
    <3> QED BY <2>1, <2>2, <3>1
  <2>3. CASE x[2 * k] = y[2 * k] /\ x[2 * k + 1] < y[2 * k + 1]
    <3>1. 2 * k + 1 \in 0 .. 15
      OBVIOUS
    <3>2. \A j \in 0 .. 15 : j < 2 * k + 1 => j < 2 * k \/ j = 2 * k
      OBVIOUS
    <3> QED BY <2>1, <2>3, <3>1, <3>2
  <2> QED BY <1>1, <1>3, <2>2, <2>3
<1>4. ASSUME NEW m \in 0 .. 15, x[m] < y[m], \A j \in 0 .. 15 : j < m => x[j] = y[j]
      PROVE  \E k \in 0 .. 7 : s[k] < t[k] /\ \A j \in 0 .. 7 : j < k => s[j] = t[j]
  <2>1. PICK k \in 0 .. 7 : m = 2 * k \/ m = 2 * k + 1
    BY ByteIndex
  <2>2. ASSUME NEW j \in 0 .. 7, j < k PROVE s[j] = t[j]
    <3>1. 2 * j \in 0 .. 15 /\ 2 * j + 1 \in 0 .. 15 /\ 2 * j < m /\ 2 * j + 1 < m
      BY <2>1, <2>2
    <3> QED BY <1>1, <1>4, <3>1
  <2>3. s[k] < t[k]
    <3>1. CASE m = 2 * k
      BY <1>1, <1>4, <3>1
    <3>2. CASE m = 2 * k + 1
      <4>1. 2 * k \in 0 .. 15 /\ 2 * k < m
        BY <3>2
      <4> QED BY <1>1, <1>4, <3>2, <4>1
    <3> QED BY <2>1, <3>1, <3>2
  <2> QED BY <2>2, <2>3
<1>5. Less6(a, b) <=> \E k \in 0 .. 7 : s[k] < t[k] /\ \A j \in 0 .. 7 : j < k => s[j] = t[j]
  BY <1>2 DEF Less6, Precedes, s, t
<1>6. Precedes(x, y) <=> \E m \in 0 .. 15 : x[m] < y[m] /\ \A j \in 0 .. 15 : j < m => x[j] = y[j]
  BY <1>2 DEF Precedes
<1> QED BY <1>3, <1>4, <1>5, <1>6 DEF x, y

LEMMA Less6Is ==
  ASSUME NEW a \in RawAddress, NEW b \in RawAddress
  PROVE  /\ \A k \in 0 .. 7 : Swap(a[k]) \in Nat /\ Swap(b[k]) \in Nat
         /\ \A k \in 0 .. 7 : Swap(a[k]) = Swap(b[k]) <=> a[k] = b[k]
         /\ Less6(a, b) <=> \E k \in 0 .. 7 : /\ Swap(a[k]) < Swap(b[k])
                                              /\ \A j \in 0 .. 7 : j < k => a[j] = b[j]
<1>1. \A k \in 0 .. 7 : a[k] \in Word /\ b[k] \in Word
  BY DEF RawAddress
<1>2. \A k \in 0 .. 7 : /\ Swap(a[k]) \in Nat /\ Swap(b[k]) \in Nat
                        /\ Swap(a[k]) = Swap(b[k]) <=> a[k] = b[k]
  BY <1>1, WordOrder
<1>3. Less6(a, b) <=> \E k \in 0 .. 7 : /\ Segments(a)[k] < Segments(b)[k]
                                        /\ \A j \in 0 .. 7 : j < k => Segments(a)[j] = Segments(b)[j]
  BY DEF Less6, Precedes, Segments
<1>4. \A k \in 0 .. 7 : Segments(a)[k] = Swap(a[k]) /\ Segments(b)[k] = Swap(b[k])
  BY DEF Segments
<1> QED BY <1>2, <1>3, <1>4

(* Of addresses without an order, equal segments are followed by an equal  *)
(* segment.                                                                *)
LEMMA NextIsEqual ==
  ASSUME NEW a \in RawAddress, NEW b \in RawAddress, ~Less6(a, b), ~Less6(b, a),
         NEW k \in 0 .. 7, \A j \in 0 .. 7 : j < k => a[j] = b[j]
  PROVE  \A j \in 0 .. 7 : j < k + 1 => a[j] = b[j]
<1>1. ~(Swap(a[k]) < Swap(b[k])) /\ ~(Swap(b[k]) < Swap(a[k]))
  BY Less6Is
<1>2. Swap(a[k]) \in Nat /\ Swap(b[k]) \in Nat /\ (Swap(a[k]) = Swap(b[k]) <=> a[k] = b[k])
  BY Less6Is
<1>3. a[k] = b[k]
  BY <1>1, <1>2
<1>4. \A j \in 0 .. 7 : j < k + 1 => j < k \/ j = k
  OBVIOUS
<1> QED BY <1>3, <1>4

LEMMA OrderIsTotal ==
  ASSUME NEW a \in RawAddress, NEW b \in RawAddress
  PROVE  Less6(a, b) \/ Less6(b, a) \/ Equal6(a, b)
<1> SUFFICES ASSUME ~Less6(a, b), ~Less6(b, a) PROVE Equal6(a, b)
  OBVIOUS
<1> DEFINE Upto(k) == \A j \in 0 .. 7 : j < k => a[j] = b[j]
<1>0. Upto(0)
  OBVIOUS
<1>1. \A k \in 0 .. 7 : Upto(k) => Upto(k + 1)
  BY NextIsEqual
<1>2. Upto(8)
  <2> HIDE DEF Upto
  <2>1. Upto(1)
    BY <1>0, <1>1
  <2>2. Upto(2)
    BY <1>1, <2>1
  <2>3. Upto(3)
    BY <1>1, <2>2
  <2>4. Upto(4)
    BY <1>1, <2>3
  <2>5. Upto(5)
    BY <1>1, <2>4
  <2>6. Upto(6)
    BY <1>1, <2>5
  <2>7. Upto(7)
    BY <1>1, <2>6
  <2> QED BY <1>1, <2>7
<1> QED BY <1>2 DEF Equal6

LEMMA OrderIsOneWay ==
  ASSUME NEW a \in RawAddress, NEW b \in RawAddress, Less6(a, b)
  PROVE  ~Less6(b, a) /\ ~Equal6(a, b)
<1>1. PICK k \in 0 .. 7 : Swap(a[k]) < Swap(b[k]) /\ \A j \in 0 .. 7 : j < k => a[j] = b[j]
  BY Less6Is
<1>2. \A j \in 0 .. 7 : Swap(a[j]) \in Nat /\ Swap(b[j]) \in Nat
  BY Less6Is
<1>3. a[k] # b[k]
  BY <1>1, <1>2
<1>4. ASSUME Less6(b, a) PROVE FALSE
  <2>1. PICK m \in 0 .. 7 : Swap(b[m]) < Swap(a[m]) /\ \A j \in 0 .. 7 : j < m => b[j] = a[j]
    BY <1>4, Less6Is
  <2>2. k < m \/ k = m \/ m < k
    OBVIOUS
  <2> QED BY <1>1, <1>2, <1>3, <2>1, <2>2
<1> QED BY <1>3, <1>4 DEF Equal6

-----------------------------------------------------------------------------
(* The conversions. *)

LEMMA CombinedWords ==
  ASSUME NEW a \in Address, NEW sixth \in {0, 65535}
  PROVE  /\ Combined(a, sixth) \in RawAddress
         /\ \A k \in 0 .. 4 : Combined(a, sixth)[k] = 0
         /\ Combined(a, sixth)[5] = sixth
         /\ Combined(a, sixth)[6] = Made(a[0], a[1])
         /\ Combined(a, sixth)[7] = Made(a[2], a[3])
<1>1. a[0] \in Byte /\ a[1] \in Byte /\ a[2] \in Byte /\ a[3] \in Byte
  BY DEF Address
<1>2. Made(a[0], a[1]) \in Word /\ Made(a[2], a[3]) \in Word /\ 0 \in Word /\ sixth \in Word
  <2>1. 0 \in Word /\ 65535 \in Word
    BY Ends
  <2>2. Made(a[0], a[1]) \in Word /\ Made(a[2], a[3]) \in Word
    BY ONLY <1>1, PartsOfMade
  <2> QED BY <2>1, <2>2
<1>3. Combined(a, sixth) =
        [k \in 0 .. 7 |-> CASE k = 5 -> sixth
                            [] k = 6 -> Made(a[0], a[1])
                            [] k = 7 -> Made(a[2], a[3])
                            [] OTHER -> 0]
  BY DEF Combined, Made
<1> DEFINE u == Made(a[0], a[1])
           v == Made(a[2], a[3])
           c == Combined(a, sixth)
<1> HIDE DEF u, v, c
<1>4. \A k \in 0 .. 7 : c[k] = IF k = 5 THEN sixth ELSE IF k = 6 THEN u ELSE IF k = 7 THEN v ELSE 0
  BY <1>3 DEF u, v, c
<1>5. c = [k \in 0 .. 7 |-> c[k]]
  BY <1>3 DEF c
<1>6. u \in Word /\ v \in Word
  BY <1>2 DEF u, v
<1>7. \A k \in 0 .. 7 : c[k] \in Word
  BY <1>2, <1>4, <1>6
<1>8. c \in RawAddress
  BY <1>5, <1>7 DEF RawAddress
<1> QED BY <1>4, <1>8 DEF u, v, c

LEMMA QuadBytes ==
  ASSUME NEW s
  PROVE  LET q == [k \in 0 .. 3 |-> Bytes(s[6 + k \div 2])[1 + (k % 2)]] IN
           /\ q[0] = High(s[6]) /\ q[1] = Low(s[6])
           /\ q[2] = High(s[7]) /\ q[3] = Low(s[7])
           /\ q = [k \in 0 .. 3 |-> q[k]]
<1> DEFINE q == [k \in 0 .. 3 |-> Bytes(s[6 + k \div 2])[1 + (k % 2)]]
<1>1. \A w : Bytes(w)[1] = High(w) /\ Bytes(w)[2] = Low(w)
  BY DEF Bytes, High, Low
<1>2. 0 \div 2 = 0 /\ 1 \div 2 = 0 /\ 2 \div 2 = 1 /\ 3 \div 2 = 1
      /\ 0 % 2 = 0 /\ 1 % 2 = 1 /\ 2 % 2 = 0 /\ 3 % 2 = 1
  OBVIOUS
<1>3. /\ q[0] = Bytes(s[6 + 0])[1 + 0] /\ q[1] = Bytes(s[6 + 0])[1 + 1]
      /\ q[2] = Bytes(s[6 + 1])[1 + 0] /\ q[3] = Bytes(s[6 + 1])[1 + 1]
  BY <1>2
<1>4. 6 + 0 = 6 /\ 6 + 1 = 7 /\ 1 + 0 = 1 /\ 1 + 1 = 2
  OBVIOUS
<1>5. q[0] = High(s[6]) /\ q[1] = Low(s[6]) /\ q[2] = High(s[7]) /\ q[3] = Low(s[7])
  BY <1>1, <1>3, <1>4
<1> QED BY <1>5

(* to_ipv4 on an address made in either way. *)
LEMMA BackToIpv4 ==
  ASSUME NEW a \in Address, NEW sixth \in {0, 65535}
  PROVE  ToIpv4(Combined(a, sixth)) = a
<1> DEFINE c == Combined(a, sixth)
           s == Segments(c)
           q == [k \in 0 .. 3 |-> Bytes(s[6 + k \div 2])[1 + (k % 2)]]
<1>1. a[0] \in Byte /\ a[1] \in Byte /\ a[2] \in Byte /\ a[3] \in Byte
  BY DEF Address
<1>2. Swap(0) = 0 /\ Swap(65535) = 65535
  BY Ends
<1>3. \A k \in 0 .. 7 : s[k] = Swap(c[k])
  BY DEF Segments
<1>4. /\ \A k \in 0 .. 4 : c[k] = 0
      /\ c[5] = sixth /\ c[6] = Made(a[0], a[1]) /\ c[7] = Made(a[2], a[3])
  BY CombinedWords
<1> HIDE DEF c, s
<1>5. Convertible(s)
  BY <1>2, <1>3, <1>4 DEF Convertible
<1>6. s[6] = Made(a[1], a[0]) /\ s[7] = Made(a[3], a[2])
  BY <1>1, <1>3, <1>4, PartsOfMade
<1>7. /\ High(s[6]) = a[0] /\ Low(s[6]) = a[1]
      /\ High(s[7]) = a[2] /\ Low(s[7]) = a[3]
  BY <1>1, <1>6, PartsOfMade
<1>8. q[0] = a[0] /\ q[1] = a[1] /\ q[2] = a[2] /\ q[3] = a[3]
  BY <1>7, QuadBytes
<1>9. q = a
  <2>1. \A k \in 0 .. 3 : k = 0 \/ k = 1 \/ k = 2 \/ k = 3
    OBVIOUS
  <2>2. \A k \in 0 .. 3 : q[k] = a[k]
    BY <1>8, <2>1
  <2>3. a = [k \in 0 .. 3 |-> a[k]]
    BY DEF Address
  <2>4. q = [k \in 0 .. 3 |-> q[k]]
    OBVIOUS
  <2> HIDE DEF q
  <2>5. [k \in 0 .. 3 |-> q[k]] = [k \in 0 .. 3 |-> a[k]]
    BY <2>2
  <2> QED BY <2>3, <2>4, <2>5
<1> QED BY <1>5, <1>9 DEF ToIpv4, s, c

(* What to_ipv4 makes of any address can be made into it. *)
LEMMA OnlyConvertible ==
  ASSUME NEW b \in RawAddress, ToIpv4(b) # Nullopt
  PROVE  b \in {ToIpv6Compatible(ToIpv4(b)), ToIpv6Mapped(ToIpv4(b))}
<1> DEFINE s == Segments(b)
           q == [k \in 0 .. 3 |-> Bytes(s[6 + k \div 2])[1 + (k % 2)]]
<1>1. Convertible(s) /\ ToIpv4(b) = q
  BY DEF ToIpv4
<1>2. \A k \in 0 .. 7 : s[k] = Swap(b[k]) /\ b[k] \in Word
  BY DEF Segments, RawAddress
<1>3. \A k \in 6 .. 7 : High(s[k]) = Low(b[k]) /\ Low(s[k]) = High(b[k])
  <2> SUFFICES ASSUME NEW k \in 6 .. 7 PROVE High(s[k]) = Low(b[k]) /\ Low(s[k]) = High(b[k])
    OBVIOUS
  <2>1. b[k] \in Word /\ s[k] = Swap(b[k])
    BY <1>2
  <2>2. Low(b[k]) \in Byte /\ High(b[k]) \in Byte /\ s[k] = Made(High(b[k]), Low(b[k]))
    BY <2>1, WordParts
  <2> QED BY <2>2, PartsOfMade
<1>4. /\ q[0] = Low(b[6]) /\ q[1] = High(b[6])
      /\ q[2] = Low(b[7]) /\ q[3] = High(b[7])
  BY <1>3, QuadBytes
<1>5. b[6] = q[0] + 256 * q[1] /\ b[7] = q[2] + 256 * q[3]
  BY <1>2, <1>4, WordParts DEF Made
<1>6. \A k \in 0 .. 4 : b[k] = 0
  <2>1. 0 \in Word /\ Swap(0) = 0
    BY Ends
  <2>2. \A k \in 0 .. 4 : b[k] \in Word /\ Swap(b[k]) = 0
    BY <1>1, <1>2 DEF Convertible
  <2> QED BY <2>1, <2>2, WordOrder
<1>7. b[5] \in {0, 65535}
  <2>1. 0 \in Word /\ 65535 \in Word /\ Swap(0) = 0 /\ Swap(65535) = 65535
    BY Ends
  <2>2. b[5] \in Word /\ Swap(b[5]) \in {0, 65535}
    BY <1>1, <1>2 DEF Convertible
  <2> QED BY <2>1, <2>2, WordOrder
<1> HIDE DEF q
<1>8. b = Combined(q, b[5])
  <2>1. b = [k \in 0 .. 7 |-> b[k]]
    BY DEF RawAddress
  <2>2. \A k \in 0 .. 7 : k \in 0 .. 4 \/ k = 5 \/ k = 6 \/ k = 7
    OBVIOUS
  <2>3. \A k \in 0 .. 7 : b[k] = IF k = 5 THEN b[5] ELSE IF k = 6 THEN q[0] + 256 * q[1]
                                 ELSE IF k = 7 THEN q[2] + 256 * q[3] ELSE 0
    BY <1>5, <1>6, <2>2
  <2>4. [k \in 0 .. 7 |-> b[k]] = Combined(q, b[5])
    BY <2>3 DEF Combined
  <2> QED BY <2>1, <2>4
<1> QED BY <1>1, <1>7, <1>8 DEF ToIpv6Compatible, ToIpv6Mapped

-----------------------------------------------------------------------------
(* The blocks of the classes, byte by byte of an address in memory. *)

LEMMA MemoryInBlock ==
  ASSUME NEW a \in RawAddress, NEW p, NEW n \in Nat, \A j \in 0 .. 15 : PrefixAt(p, j) \in Byte
  PROVE  InBlock(InMemory(a), Block(p, n)) <=>
           \A k \in 0 .. 7 :
             /\ ByteInBlock(Low(a[k]), PrefixAt(p, 2 * k), n, 2 * k)
             /\ ByteInBlock(High(a[k]), PrefixAt(p, 2 * k + 1), n, 2 * k + 1)
<1> DEFINE x == InMemory(a)
           B(j) == ByteInBlock(x[j], PrefixAt(p, j), n, j)
<1>1. /\ x = [j \in 0 .. 15 |-> x[j]]
      /\ \A k \in 0 .. 7 : x[2 * k] = Low(a[k]) /\ x[2 * k + 1] = High(a[k])
  BY MemoryIs DEF InMemory
<1>2. \A k \in 0 .. 7 : Low(a[k]) \in Byte /\ High(a[k]) \in Byte
  BY WordParts DEF RawAddress
<1> HIDE DEF x
<1>3. \A j \in 0 .. 15 : x[j] \in Byte
  BY <1>1, <1>2, ByteIndex
<1>4. x \in [0 .. 15 -> Byte]
  BY <1>1, <1>3
<1>5. /\ \A j \in 0 .. 15 : PrefixByte(Block(p, n), j) = PrefixAt(p, j)
      /\ 0 .. 15 \in SUBSET Nat
  BY DEF PrefixByte, Block, PrefixAt
<1>6. InBlock(x, Block(p, n)) <=> \A j \in 0 .. 15 : B(j)
  <2>1. InBlock(x, Block(p, n)) <=>
          \A j \in 0 .. 15 : ByteInBlock(x[j], PrefixByte(Block(p, n), j), n, j)
    <3>1. x \in [0 .. 15 -> Byte] /\ \A j \in 0 .. 15 : PrefixByte(Block(p, n), j) \in Byte
      BY <1>4, <1>5
    <3> QED BY <1>5, <3>1, InBlockIs
  <2> QED BY <1>5, <2>1
<1>7. (\A j \in 0 .. 15 : B(j)) <=> \A k \in 0 .. 7 : B(2 * k) /\ B(2 * k + 1)
  <2> HIDE DEF B
  <2>1. \A k \in 0 .. 7 : 2 * k \in 0 .. 15 /\ 2 * k + 1 \in 0 .. 15
    OBVIOUS
  <2> QED BY <2>1, ByteIndex
<1>8. \A k \in 0 .. 7 :
        /\ B(2 * k) <=> ByteInBlock(Low(a[k]), PrefixAt(p, 2 * k), n, 2 * k)
        /\ B(2 * k + 1) <=> ByteInBlock(High(a[k]), PrefixAt(p, 2 * k + 1), n, 2 * k + 1)
  BY <1>1
<1>9. InBlock(x, Block(p, n)) <=> \A j \in 0 .. 15 : B(j)
  BY <1>6
<1> HIDE DEF B
<1> QED BY <1>7, <1>8, <1>9 DEF x

(* A block of whole Words. *)
LEMMA WordsInBlock ==
  ASSUME NEW a \in RawAddress, NEW p, NEW m \in 0 .. 8,
         \A j \in 0 .. 15 : PrefixAt(p, j) \in Byte
  PROVE  InBlock(InMemory(a), Block(p, 16 * m)) <=>
           \A k \in 0 .. 7 : k < m =>
             Low(a[k]) = PrefixAt(p, 2 * k) /\ High(a[k]) = PrefixAt(p, 2 * k + 1)
<1>1. 16 * m \in Nat
  OBVIOUS
<1>2. ASSUME NEW k \in 0 .. 7, NEW y, NEW z
      PROVE  /\ ByteInBlock(y, z, 16 * m, 2 * k) <=> (k < m => y = z)
             /\ ByteInBlock(y, z, 16 * m, 2 * k + 1) <=> (k < m => y = z)
  <2>1. CASE k < m
    <3>1. /\ 16 * m >= 8 * (2 * k + 1) /\ 16 * m >= 8 * (2 * k + 1 + 1)
      BY <2>1
    <3> QED BY <2>1, <3>1 DEF ByteInBlock
  <2>2. CASE ~(k < m)
    <3>1. /\ ~(16 * m >= 8 * (2 * k + 1)) /\ ~(16 * m >= 8 * (2 * k + 1 + 1))
          /\ ~(8 * (2 * k) < 16 * m) /\ ~(8 * (2 * k + 1) < 16 * m)
      BY <2>2
    <3> QED BY <2>2, <3>1 DEF ByteInBlock
  <2> QED BY <2>1, <2>2
<1> DEFINE n == 16 * m
<1>3. n \in Nat /\ \A k \in 0 .. 7 : \A y, z :
         /\ ByteInBlock(y, z, n, 2 * k) <=> (k < m => y = z)
         /\ ByteInBlock(y, z, n, 2 * k + 1) <=> (k < m => y = z)
  BY <1>1, <1>2
<1> HIDE DEF n
<1>4. InBlock(InMemory(a), Block(p, n)) <=>
           \A k \in 0 .. 7 :
             /\ ByteInBlock(Low(a[k]), PrefixAt(p, 2 * k), n, 2 * k)
             /\ ByteInBlock(High(a[k]), PrefixAt(p, 2 * k + 1), n, 2 * k + 1)
  BY <1>3, MemoryInBlock
<1>5. InBlock(InMemory(a), Block(p, n)) <=>
           \A k \in 0 .. 7 : k < m =>
             Low(a[k]) = PrefixAt(p, 2 * k) /\ High(a[k]) = PrefixAt(p, 2 * k + 1)
  BY <1>3, <1>4
<1> QED BY <1>5 DEF n

(* A block given by bits of the first Word. *)
LEMMA BitsInBlock ==
  ASSUME NEW a \in RawAddress, NEW p, \A j \in 0 .. 15 : PrefixAt(p, j) \in Byte
  PROVE  /\ \A n \in 1 .. 7 : InBlock(InMemory(a), Block(p, n)) <=>
              Low(a[0]) \div Unit(n) = PrefixAt(p, 0) \div Unit(n)
         /\ InBlock(InMemory(a), Block(p, 8)) <=> Low(a[0]) = PrefixAt(p, 0)
         /\ \A n \in 9 .. 15 : InBlock(InMemory(a), Block(p, n)) <=>
              /\ Low(a[0]) = PrefixAt(p, 0)
              /\ High(a[0]) \div Unit(n - 8) = PrefixAt(p, 1) \div Unit(n - 8)
<1>1. ASSUME NEW n \in 1 .. 15
      PROVE  InBlock(InMemory(a), Block(p, n)) <=>
               /\ ByteInBlock(Low(a[0]), PrefixAt(p, 0), n, 0)
               /\ ByteInBlock(High(a[0]), PrefixAt(p, 1), n, 1)
  <2> DEFINE L(k) == ByteInBlock(Low(a[k]), PrefixAt(p, 2 * k), n, 2 * k)
             H(k) == ByteInBlock(High(a[k]), PrefixAt(p, 2 * k + 1), n, 2 * k + 1)
  <2>1. \A k \in 1 .. 7 : L(k) /\ H(k)
    <3> SUFFICES ASSUME NEW k \in 1 .. 7 PROVE L(k) /\ H(k)
      OBVIOUS
    <3>1. /\ ~(n >= 8 * (2 * k + 1)) /\ ~(n >= 8 * (2 * k + 1 + 1))
          /\ ~(8 * (2 * k) < n) /\ ~(8 * (2 * k + 1) < n)
      OBVIOUS
    <3> QED BY <3>1 DEF ByteInBlock
  <2>2. n \in Nat
    OBVIOUS
  <2>3. InBlock(InMemory(a), Block(p, n)) <=> \A k \in 0 .. 7 : L(k) /\ H(k)
    BY <2>2, MemoryInBlock
  <2>4. 2 * 0 = 0 /\ 2 * 0 + 1 = 1
    OBVIOUS
  <2>5. /\ L(0) <=> ByteInBlock(Low(a[0]), PrefixAt(p, 0), n, 0)
        /\ H(0) <=> ByteInBlock(High(a[0]), PrefixAt(p, 1), n, 1)
    BY <2>4
  <2> HIDE DEF L, H
  <2>6. (\A k \in 0 .. 7 : L(k) /\ H(k)) <=> L(0) /\ H(0)
    BY <2>1
  <2> QED BY <2>3, <2>5, <2>6
<1>2. \A n \in 1 .. 7 : n \in 1 .. 15
  OBVIOUS
<1>3. 8 \in 1 .. 15 /\ \A n \in 9 .. 15 : n \in 1 .. 15
  OBVIOUS
<1> QED BY <1>1, <1>2, <1>3, BytesCount, BitsCount

-----------------------------------------------------------------------------
(* Each class and its block. *)

Of6(a, class) == InBlock(InMemory(a), Blocks6[class])

LEMMA FirstWord ==
  ASSUME NEW a \in RawAddress PROVE Low(a[0]) \in Byte /\ High(a[0]) \in Byte /\ a[0] \in Word
BY WordParts DEF RawAddress

LEMMA Numerals6 ==
  /\ 0 \in Byte /\ 1 \in Byte /\ 13 \in Byte /\ 32 \in Byte /\ 128 \in Byte
  /\ 184 \in Byte /\ 192 \in Byte /\ 252 \in Byte /\ 254 \in Byte /\ 255 \in Byte
BY DEF Byte

LEMMA OnePrefix ==
  ASSUME NEW w \in Byte
  PROVE  (\A j \in 0 .. 15 : PrefixAt(<<w>>, j) \in Byte) /\ PrefixAt(<<w>>, 0) = w
BY Numerals6 DEF PrefixAt

LEMMA TwoPrefix ==
  ASSUME NEW w \in Byte, NEW x \in Byte
  PROVE  /\ \A j \in 0 .. 15 : PrefixAt(<<w, x>>, j) \in Byte
         /\ PrefixAt(<<w, x>>, 0) = w /\ PrefixAt(<<w, x>>, 1) = x
         /\ \A j \in 2 .. 15 : PrefixAt(<<w, x>>, j) = 0
BY Numerals6 DEF PrefixAt

LEMMA FourPrefix ==
  ASSUME NEW w \in Byte, NEW x \in Byte, NEW y \in Byte, NEW z \in Byte
  PROVE  /\ \A j \in 0 .. 15 : PrefixAt(<<w, x, y, z>>, j) \in Byte
         /\ PrefixAt(<<w, x, y, z>>, 0) = w /\ PrefixAt(<<w, x, y, z>>, 1) = x
         /\ PrefixAt(<<w, x, y, z>>, 2) = y /\ PrefixAt(<<w, x, y, z>>, 3) = z
<1> DEFINE p == <<w, x, y, z>>
<1>1. Len(p) = 4 /\ p[1] = w /\ p[2] = x /\ p[3] = y /\ p[4] = z
  OBVIOUS
<1> HIDE DEF p
<1>2. /\ PrefixAt(p, 0) = w /\ PrefixAt(p, 1) = x /\ PrefixAt(p, 2) = y /\ PrefixAt(p, 3) = z
      /\ \A j \in 4 .. 15 : PrefixAt(p, j) = 0
  BY <1>1 DEF PrefixAt
<1>3. \A j \in 0 .. 15 : j = 0 \/ j = 1 \/ j = 2 \/ j = 3 \/ j \in 4 .. 15
  OBVIOUS
<1>4. \A j \in 0 .. 15 : PrefixAt(p, j) \in Byte
  BY <1>2, <1>3, Numerals6
<1> QED BY <1>2, <1>4 DEF p

LEMMA MulticastBlock6 ==
  ASSUME NEW a \in RawAddress PROVE Of6(a, "multicast") <=> IsMulticast6(a)
<1>1. InBlock(InMemory(a), Block(<<255>>, 8)) <=> Low(a[0]) = 255
  BY BitsInBlock, OnePrefix, Numerals6
<1> QED BY <1>1 DEF Of6, Blocks6, IsMulticast6

LEMMA UniqueLocalBlock ==
  ASSUME NEW a \in RawAddress PROVE Of6(a, "uniqueLocal") <=> IsUniqueLocal(a)
<1>1. InBlock(InMemory(a), Block(<<252>>, 7)) <=> Low(a[0]) \div Unit(7) = 252 \div Unit(7)
  BY BitsInBlock, OnePrefix, Numerals6
<1>2. Unit(7) = 2 /\ 252 \div 2 = 126
  BY DEF Unit
<1> QED BY <1>1, <1>2 DEF Of6, Blocks6, IsUniqueLocal

LEMMA TenBits ==
  ASSUME NEW a \in RawAddress, NEW w \in Byte, NEW x \in Byte
  PROVE  InBlock(InMemory(a), Block(<<w, x>>, 10)) <=>
           Low(a[0]) = w /\ High(a[0]) \div 64 = x \div 64
<1>1. InBlock(InMemory(a), Block(<<w, x>>, 10)) <=>
           Low(a[0]) = w /\ High(a[0]) \div Unit(10 - 8) = x \div Unit(10 - 8)
  BY BitsInBlock, TwoPrefix
<1>2. Unit(10 - 8) = 64
  BY DEF Unit
<1> QED BY <1>1, <1>2

LEMMA LinkLocalBlock6 ==
  ASSUME NEW a \in RawAddress PROVE Of6(a, "linkLocal") <=> IsUnicastLinkLocal(a)
<1>1. 128 \div 64 = 2
  OBVIOUS
<1> QED BY <1>1, TenBits, Numerals6 DEF Of6, Blocks6, IsUnicastLinkLocal

LEMMA SiteLocalBlock ==
  ASSUME NEW a \in RawAddress PROVE Of6(a, "siteLocal") <=> IsUnicastSiteLocal(a)
<1>1. 192 \div 64 = 3
  OBVIOUS
<1> QED BY <1>1, TenBits, Numerals6 DEF Of6, Blocks6, IsUnicastSiteLocal

LEMMA WordIs ==
  ASSUME NEW w \in Word
  PROVE  /\ \A g, h \in Byte : w = Made(g, h) <=> Low(w) = g /\ High(w) = h
         /\ w = 0 <=> Low(w) = 0 /\ High(w) = 0
<1>1. \A g, h \in Byte : w = Made(g, h) <=> Low(w) = g /\ High(w) = h
  BY WordParts, PartsOfMade
<1>2. Made(0, 0) = 0 /\ 0 \in Byte
  BY DEF Made, Byte
<1> QED BY <1>1, <1>2

LEMMA UnspecifiedBlock6 ==
  ASSUME NEW a \in RawAddress PROVE Of6(a, "unspecified") <=> IsUnspecified6(a)
<1> DEFINE p == <<>>
<1>1. \A j \in 0 .. 15 : PrefixAt(p, j) = 0
  BY DEF PrefixAt
<1>2. \A k \in 0 .. 7 : PrefixAt(p, 2 * k) = 0 /\ PrefixAt(p, 2 * k + 1) = 0 /\ k < 8
  BY <1>1
<1>3. 8 \in 0 .. 8 /\ 16 * 8 = 128
  OBVIOUS
<1> HIDE DEF p
<1>4. InBlock(InMemory(a), Block(p, 16 * 8)) <=>
        \A k \in 0 .. 7 : k < 8 =>
          Low(a[k]) = PrefixAt(p, 2 * k) /\ High(a[k]) = PrefixAt(p, 2 * k + 1)
  BY <1>1, <1>3, WordsInBlock, Numerals6
<1>5. \A k \in 0 .. 7 : a[k] = 0 <=> Low(a[k]) = 0 /\ High(a[k]) = 0
  BY WordIs DEF RawAddress
<1>6. InBlock(InMemory(a), Block(p, 128)) <=> IsUnspecified6(a)
  BY <1>2, <1>3, <1>4, <1>5 DEF IsUnspecified6
<1> QED BY <1>6 DEF Of6, Blocks6, p

LEMMA LoopbackBlock6 ==
  ASSUME NEW a \in RawAddress PROVE Of6(a, "loopback") <=> IsLoopback6(a)
<1> DEFINE p == <<0, 0, 0, 0, 0, 0, 0, 0, 0, 0, 0, 0, 0, 0, 0, 1>>
<1>1. /\ Len(p) = 16 /\ p[16] = 1
      /\ p[1] = 0 /\ p[2] = 0 /\ p[3] = 0 /\ p[4] = 0 /\ p[5] = 0 /\ p[6] = 0 /\ p[7] = 0
      /\ p[8] = 0 /\ p[9] = 0 /\ p[10] = 0 /\ p[11] = 0 /\ p[12] = 0 /\ p[13] = 0 /\ p[14] = 0
      /\ p[15] = 0
  OBVIOUS
<1> HIDE DEF p
<1>2. \A j \in 0 .. 15 : PrefixAt(p, j) = IF j = 15 THEN 1 ELSE 0
  <2>1. \A j \in 0 .. 15 : PrefixAt(p, j) = p[j + 1]
    BY <1>1 DEF PrefixAt
  <2>2. \A j \in 0 .. 14 : p[j + 1] = 0
    BY <1>1
  <2>3. p[15 + 1] = 1
    BY <1>1
  <2> QED BY <2>1, <2>2, <2>3
<1>3. \A j \in 0 .. 15 : PrefixAt(p, j) \in Byte
  BY <1>2, Numerals6
<1>4. 8 \in 0 .. 8 /\ 16 * 8 = 128
  OBVIOUS
<1>5. InBlock(InMemory(a), Block(p, 16 * 8)) <=>
        \A k \in 0 .. 7 : k < 8 =>
          Low(a[k]) = PrefixAt(p, 2 * k) /\ High(a[k]) = PrefixAt(p, 2 * k + 1)
  BY <1>3, <1>4, WordsInBlock
<1>6. \A k \in 0 .. 6 : PrefixAt(p, 2 * k) = 0 /\ PrefixAt(p, 2 * k + 1) = 0 /\ k < 8
  BY <1>2
<1>7. PrefixAt(p, 2 * 7) = 0 /\ PrefixAt(p, 2 * 7 + 1) = 1 /\ 7 < 8
  BY <1>2
<1>8. \A k \in 0 .. 7 : k \in 0 .. 6 \/ k = 7
  OBVIOUS
<1>9. InBlock(InMemory(a), Block(p, 128)) <=>
        /\ \A k \in 0 .. 6 : Low(a[k]) = 0 /\ High(a[k]) = 0
        /\ Low(a[7]) = 0 /\ High(a[7]) = 1
  <2>1. \A k \in 0 .. 6 : k \in 0 .. 7
    OBVIOUS
  <2>2. 7 \in 0 .. 7
    OBVIOUS
  <2> QED BY <1>4, <1>5, <1>6, <1>7, <1>8, <2>1, <2>2
<1>10. \A k \in 0 .. 6 : a[k] = 0 <=> Low(a[k]) = 0 /\ High(a[k]) = 0
  BY WordIs DEF RawAddress
<1>11. a[7] = 256 <=> Low(a[7]) = 0 /\ High(a[7]) = 1
  <2>1. Made(0, 1) = 256 /\ a[7] \in Word
    BY DEF Made, RawAddress
  <2> QED BY <2>1, WordIs, Numerals6
<1>12. InBlock(InMemory(a), Block(p, 128)) <=> IsLoopback6(a)
  BY <1>9, <1>10, <1>11 DEF IsLoopback6
<1> QED BY <1>12 DEF Of6, Blocks6, p

LEMMA StrictBlock ==
  ASSUME NEW a \in RawAddress PROVE Of6(a, "linkLocalStrict") <=> IsUnicastLinkLocalStrict(a)
<1> DEFINE p == <<254, 128>>
<1>1. /\ \A j \in 0 .. 15 : PrefixAt(p, j) \in Byte
      /\ PrefixAt(p, 0) = 254 /\ PrefixAt(p, 1) = 128
      /\ \A j \in 2 .. 15 : PrefixAt(p, j) = 0
  BY TwoPrefix, Numerals6
<1>2. 4 \in 0 .. 8 /\ 16 * 4 = 64
  OBVIOUS
<1> HIDE DEF p
<1>3. InBlock(InMemory(a), Block(p, 16 * 4)) <=>
        \A k \in 0 .. 7 : k < 4 =>
          Low(a[k]) = PrefixAt(p, 2 * k) /\ High(a[k]) = PrefixAt(p, 2 * k + 1)
  BY <1>1, <1>2, WordsInBlock
<1>4. PrefixAt(p, 2 * 0) = 254 /\ PrefixAt(p, 2 * 0 + 1) = 128
  BY <1>1
<1>5. \A k \in 1 .. 3 : PrefixAt(p, 2 * k) = 0 /\ PrefixAt(p, 2 * k + 1) = 0
  BY <1>1
<1>6. \A k \in 0 .. 7 : k < 4 <=> k = 0 \/ k \in 1 .. 3
  OBVIOUS
<1>7. \A k \in 1 .. 3 : a[k] = 0 <=> Low(a[k]) = 0 /\ High(a[k]) = 0
  BY WordIs DEF RawAddress
<1>8. \A k \in 1 .. 3 : k \in 0 .. 7
  OBVIOUS
<1>9. InBlock(InMemory(a), Block(p, 64)) <=> IsUnicastLinkLocalStrict(a)
  BY <1>2, <1>3, <1>4, <1>5, <1>6, <1>7, <1>8 DEF IsUnicastLinkLocalStrict
<1> QED BY <1>9 DEF Of6, Blocks6, p

LEMMA DocumentationBlock6 ==
  ASSUME NEW a \in RawAddress PROVE Of6(a, "documentation") <=> IsDocumentation6(a)
<1> DEFINE p == <<32, 1, 13, 184>>
<1>1. /\ \A j \in 0 .. 15 : PrefixAt(p, j) \in Byte
      /\ PrefixAt(p, 0) = 32 /\ PrefixAt(p, 1) = 1
      /\ PrefixAt(p, 2) = 13 /\ PrefixAt(p, 3) = 184
  BY FourPrefix, Numerals6
<1>2. 2 \in 0 .. 8 /\ 16 * 2 = 32
  OBVIOUS
<1> HIDE DEF p
<1>3. InBlock(InMemory(a), Block(p, 16 * 2)) <=>
        \A k \in 0 .. 7 : k < 2 =>
          Low(a[k]) = PrefixAt(p, 2 * k) /\ High(a[k]) = PrefixAt(p, 2 * k + 1)
  BY <1>1, <1>2, WordsInBlock
<1>4. /\ PrefixAt(p, 2 * 0) = 32 /\ PrefixAt(p, 2 * 0 + 1) = 1
      /\ PrefixAt(p, 2 * 1) = 13 /\ PrefixAt(p, 2 * 1 + 1) = 184
  BY <1>1
<1>5. \A k \in 0 .. 7 : k < 2 <=> k = 0 \/ k = 1
  OBVIOUS
<1>6. InBlock(InMemory(a), Block(p, 32)) <=>
        Low(a[0]) = 32 /\ High(a[0]) = 1 /\ Low(a[1]) = 13 /\ High(a[1]) = 184
  BY <1>2, <1>3, <1>4, <1>5
<1>7. a[0] \in Word /\ a[1] \in Word
  BY DEF RawAddress
<1>8. /\ a[0] = Made(32, 1) <=> Low(a[0]) = 32 /\ High(a[0]) = 1
      /\ a[1] = Made(13, 184) <=> Low(a[1]) = 13 /\ High(a[1]) = 184
  BY <1>7, WordIs, Numerals6
<1>9. InBlock(InMemory(a), Block(p, 32)) <=> IsDocumentation6(a)
  BY <1>6, <1>8 DEF IsDocumentation6, Made
<1> QED BY <1>9 DEF Of6, Blocks6, p

LEMMA GlobalScope ==
  ASSUME NEW a \in RawAddress
  PROVE  MulticastScope(a) = "Global" <=> IsMulticast6(a) /\ Segments(a)[0] % 16 = 14
<1> DEFINE s == High(a[0]) % 16
<1>1. /\ DOMAIN Scopes = {1, 2, 3, 4, 5, 8, 14}
      /\ \A n \in DOMAIN Scopes : Scopes[n] = "Global" <=> n = 14
  BY DEF Scopes
<1>2. MulticastScope(a) = IF IsMulticast6(a) /\ s \in DOMAIN Scopes THEN Scopes[s] ELSE "nullopt"
  BY DEF MulticastScope
<1>3. Segments(a)[0] % 16 = s
  <2>1. Segments(a)[0] = Swap(a[0]) /\ a[0] \in Word
    BY DEF Segments, RawAddress
  <2>2. Swap(a[0]) = Made(High(a[0]), Low(a[0])) /\ High(a[0]) \in Byte /\ Low(a[0]) \in Byte
    BY <2>1, WordParts
  <2>3. \A h, g \in Byte : (h + 256 * g) % 16 = h % 16
    BY DEF Byte
  <2> QED BY <2>1, <2>2, <2>3 DEF Made
<1> HIDE DEF s
<1>4. 14 \in DOMAIN Scopes
  BY <1>1
<1>5. MulticastScope(a) = "Global" <=> IsMulticast6(a) /\ s = 14
  BY <1>1, <1>2, <1>4
<1> QED BY <1>3, <1>5

LEMMA GlobalIsNoOther6 ==
  ASSUME NEW a \in RawAddress
  PROVE  IsGlobal6(a) <=>
           IF Of6(a, "multicast") THEN Segments(a)[0] % 16 = 14
           ELSE ~\E class \in DOMAIN Blocks6 \ {"siteLocal"} : Of6(a, class)
<1>1. DOMAIN Blocks6 \ {"siteLocal"} =
        {"multicast", "unspecified", "loopback", "uniqueLocal", "linkLocal", "linkLocalStrict",
         "documentation"}
  BY DEF Blocks6
<1>2. (\E class \in DOMAIN Blocks6 \ {"siteLocal"} : Of6(a, class)) <=>
        \/ Of6(a, "multicast") \/ Of6(a, "unspecified") \/ Of6(a, "loopback")
        \/ Of6(a, "uniqueLocal") \/ Of6(a, "linkLocal") \/ Of6(a, "linkLocalStrict")
        \/ Of6(a, "documentation")
  BY <1>1
<1>3. IsUnicastLinkLocalStrict(a) => IsUnicastLinkLocal(a)
  <2>1. 128 \div 64 = 2
    OBVIOUS
  <2> QED BY <2>1 DEF IsUnicastLinkLocalStrict, IsUnicastLinkLocal
<1>4. IsUnicastGlobal(a) <=>
        ~\E class \in DOMAIN Blocks6 \ {"siteLocal"} : Of6(a, class)
  BY <1>2, <1>3, MulticastBlock6, UnspecifiedBlock6, LoopbackBlock6, UniqueLocalBlock,
     LinkLocalBlock6, StrictBlock, DocumentationBlock6
  DEF IsUnicastGlobal
<1>5. Of6(a, "multicast") <=> IsMulticast6(a)
  BY MulticastBlock6
<1>6. IsMulticast6(a) => ~IsUnicastGlobal(a)
  BY DEF IsUnicastGlobal
<1> QED BY <1>4, <1>5, <1>6, GlobalScope DEF IsGlobal6

LEMMA AddressesInClasses6 == addr \in RawAddress => ClassesAreBlocks6
<1> SUFFICES ASSUME addr \in RawAddress PROVE ClassesAreBlocks6
  OBVIOUS
<1>1. \A class : Of6(addr, class) \in BOOLEAN
  BY DEF Of6, InBlock
<1>2. /\ IsMulticast6(addr) \in BOOLEAN /\ IsUnspecified6(addr) \in BOOLEAN
      /\ IsLoopback6(addr) \in BOOLEAN /\ IsUniqueLocal(addr) \in BOOLEAN
      /\ IsUnicastLinkLocal(addr) \in BOOLEAN /\ IsUnicastLinkLocalStrict(addr) \in BOOLEAN
      /\ IsUnicastSiteLocal(addr) \in BOOLEAN /\ IsDocumentation6(addr) \in BOOLEAN
      /\ IsGlobal6(addr) \in BOOLEAN
  BY DEF IsMulticast6, IsUnspecified6, IsLoopback6, IsUniqueLocal, IsUnicastLinkLocal,
     IsUnicastLinkLocalStrict, IsUnicastSiteLocal, IsDocumentation6, IsGlobal6
<1> DEFINE global == IF Of6(addr, "multicast") THEN seg[0] % 16 = 14
                     ELSE ~\E class \in DOMAIN Blocks6 \ {"siteLocal"} : Of6(addr, class)
<1>3. (IsGlobal6(addr) <=> global) /\ global \in BOOLEAN
  BY GlobalIsNoOther6 DEF seg
<1> HIDE DEF global
<1>4. /\ IsMulticast6(addr) = Of6(addr, "multicast")
      /\ IsUnspecified6(addr) = Of6(addr, "unspecified")
      /\ IsLoopback6(addr) = Of6(addr, "loopback")
      /\ IsUniqueLocal(addr) = Of6(addr, "uniqueLocal")
      /\ IsUnicastLinkLocal(addr) = Of6(addr, "linkLocal")
      /\ IsUnicastLinkLocalStrict(addr) = Of6(addr, "linkLocalStrict")
      /\ IsUnicastSiteLocal(addr) = Of6(addr, "siteLocal")
      /\ IsDocumentation6(addr) = Of6(addr, "documentation")
      /\ IsGlobal6(addr) = global
  BY <1>1, <1>2, <1>3, MulticastBlock6, UnspecifiedBlock6, LoopbackBlock6, UniqueLocalBlock,
     LinkLocalBlock6, StrictBlock, SiteLocalBlock, DocumentationBlock6
<1> QED BY <1>4 DEF ClassesAreBlocks6, Of6, global

-----------------------------------------------------------------------------
(* Every behaviour is one of the parser and one of the printer. *)

(* The address to be printed was given, or made from what the parser read. *)
Converted ==
  /\ addr = Absent => out = Printing
  /\ addr # Absent =>
       /\ addr \in RawAddress
       /\ \/ result = Idle
          \/ /\ result \in Address
             /\ addr \in {ToIpv6Compatible(result), ToIpv6Mapped(result)}

LEMMA MadeIsRaw ==
  ASSUME NEW a \in Address PROVE ToIpv6Compatible(a) \in RawAddress /\ ToIpv6Mapped(a) \in RawAddress
  BY CombinedWords DEF ToIpv6Compatible, ToIpv6Mapped

LEMMA ConvertedStep == Converted /\ [Next]_<<parse, print>> => Converted'
<1> SUFFICES ASSUME Converted, [Next]_<<parse, print>> PROVE Converted'
  OBVIOUS
<1>1. CASE addr = Absent /\ ParseNext /\ UNCHANGED print
  BY <1>1 DEF Converted, print
<1>2. ASSUME NEW a \in Given, result = Idle, Make(a), UNCHANGED parse PROVE Converted'
  BY <1>2, Addresses DEF Converted, Make, parse
<1>3. CASE Convert /\ UNCHANGED parse
  BY <1>3, MadeIsRaw DEF Convert, Converted, Make, parse
<1>4. CASE PrintStep /\ UNCHANGED parse
  <2>1. addr' = addr /\ result' = result /\ addr # Absent
    BY <1>4 DEF PrintStep, PrintConvertible, CountZero, EndSpan, PrintGeneral, AtSegment, Called,
                parse
  <2> QED BY <2>1 DEF Converted
<1>5. CASE UNCHANGED <<parse, print>>
  BY <1>5 DEF Converted, parse, print
<1> QED BY <1>1, <1>2, <1>3, <1>4, <1>5 DEF Next

LEMMA ConvertedHolds == Spec => []Converted
<1>1. Init => Converted
  BY DEF Init, PrintInit, Converted
<1> QED BY <1>1, ConvertedStep, PTL DEF Spec

(* to_ipv4 gives back the address from which an IPv6 address was made, and *)
(* makes an IPv4 address only of those that can be made from one.          *)
THEOREM ConversionsAreInverse == Spec => []ConvertsBack
<1>1. Converted => ConvertsBack
  <2> SUFFICES ASSUME Converted, addr # Absent
               PROVE  IF result \in Address THEN ToIpv4(addr) = result
                      ELSE ToIpv4(addr) # Nullopt =>
                             addr \in {ToIpv6Compatible(ToIpv4(addr)), ToIpv6Mapped(ToIpv4(addr))}
    BY DEF ConvertsBack
  <2>1. CASE result \in Address
    <3>1. addr \in {ToIpv6Compatible(result), ToIpv6Mapped(result)}
      BY <2>1, Results DEF Converted
    <3> QED BY <2>1, <3>1, BackToIpv4 DEF ToIpv6Compatible, ToIpv6Mapped
  <2>2. CASE result \notin Address
    <3>1. addr \in RawAddress
      BY DEF Converted
    <3> QED BY <2>2, <3>1, OnlyConvertible
  <2> QED BY <2>1, <2>2
<1> QED BY <1>1, ConvertedHolds, PTL

(* operator< and operator== of Ipv6Addr are the order and the equality of  *)
(* the numbers of 128 bits the addresses are, for every pair of addresses. *)
THEOREM SegmentsOrderNumbers == Spec => []OrderIsNumeric
<1>1. Converted => OrderIsNumeric
  <2> SUFFICES ASSUME Converted, out # Printing, NEW b \in Given
               PROVE  /\ Less6(addr, b) <=> Precedes(InMemory(addr), InMemory(b))
                      /\ Less6(addr, b) \/ Less6(b, addr) \/ Equal6(addr, b)
                      /\ ~(Less6(addr, b) /\ Less6(b, addr)) /\ ~(Less6(addr, b) /\ Equal6(addr, b))
    BY DEF OrderIsNumeric
  <2>1. addr \in RawAddress /\ b \in RawAddress
    BY Addresses DEF Converted
  <2> QED BY <2>1, SameOrder, OrderIsTotal, OrderIsOneWay
<1> QED BY <1>1, ConvertedHolds, PTL

(* Each class of an IPv6 address is the block its description names, and   *)
(* is_global tells the addresses outside all of them, or of global scope,  *)
(* for each of the 2^128 addresses.                                        *)
THEOREM ClassesAlwaysBlocks6 == Spec => []ClassesAreBlocks6
<1>1. Converted => ClassesAreBlocks6
  <2>1. addr = Absent => (Converted => out = Printing)
    BY DEF Converted
  <2>2. addr # Absent => (Converted => addr \in RawAddress)
    BY DEF Converted
  <2> QED BY <2>1, <2>2, AddressesInClasses6 DEF ClassesAreBlocks6
<1> QED BY <1>1, ConvertedHolds, PTL

-----------------------------------------------------------------------------
(* What holds of the parser and of the printer alone holds of them here.   *)

LEMMA StepsParse == [Next]_<<parse, print>> => [ParseNext]_parse
BY DEF Next, parse

LEMMA StepsPrint == [Next]_<<parse, print>> => [PrintAny]_print
<1> SUFFICES ASSUME [Next]_<<parse, print>> PROVE [PrintAny]_print
  OBVIOUS
<1>1. CASE \E a \in Given : Make(a)
  BY <1>1, Addresses DEF PrintAny
<1>2. CASE Convert
  BY <1>2, MadeIsRaw DEF Convert, PrintAny
<1>3. CASE PrintStep
  BY <1>3 DEF PrintAny
<1>4. CASE UNCHANGED print
  BY <1>4
<1> QED BY <1>1, <1>2, <1>3, <1>4 DEF Next

(* Parsing goes on as if nothing were printed. *)
THEOREM ParsesAlone == Spec => ParseSpec
<1>1. Init => ParseInit
  BY DEF Init
<1> QED BY <1>1, StepsParse, PTL DEF Spec, ParseSpec

LEMMA TextHolds == Spec => []TextInv
<1>1. Init => PrintInit
  BY DEF Init
<1> QED BY <1>1, TextInit, StepsPrint, TextStep, PTL DEF Spec

(* The types of both, whether the address printed was given or read. *)
THEOREM TypeCorrect == Spec => []TypeOK
<1>1. TypeOK <=> ParseTypeOK /\ PrintTypeOK
  BY DEF TypeOK
<1> QED BY <1>1, ParsesAlone, BufferBounded, TextHolds, TextsTyped, PTL

(* The texts of addresses that were read denote them, and their longest    *)
(* runs of zeros are found, as with the addresses given.                   *)
THEOREM ConvertedPrintToo == Spec => [](SpanIsLongest /\ OthersDenoteThemselves)
<1>1. TextInv => SpanIsLongest
  BY DEF TextInv, RunInv
<1> QED BY <1>1, TextHolds, WroteItsAddress, PTL

-----------------------------------------------------------------------------
(* From the text that was read to the text that is written.                *)

LEMMA MadeSegments ==
  ASSUME NEW a \in Address, NEW sixth \in {0, 65535}, addr = Combined(a, sixth)
  PROVE  /\ Convertible(seg) /\ seg[5] = sixth
         /\ seg[6] = Made(a[1], a[0]) /\ seg[7] = Made(a[3], a[2])
<1>1. a[0] \in Byte /\ a[1] \in Byte /\ a[2] \in Byte /\ a[3] \in Byte
  BY DEF Address
<1>2. Swap(0) = 0 /\ Swap(65535) = 65535
  BY Ends
<1>3. \A k \in 0 .. 7 : seg[k] = Swap(addr[k])
  BY DEF seg, Segments
<1>4. /\ \A k \in 0 .. 4 : addr[k] = 0
      /\ addr[5] = sixth /\ addr[6] = Made(a[0], a[1]) /\ addr[7] = Made(a[2], a[3])
  BY CombinedWords
<1>5. Convertible(seg) /\ seg[5] = sixth
  <2>1. \A k \in 0 .. 4 : k \in 0 .. 7 /\ seg[k] = 0
    BY ONLY <1>2, <1>3, <1>4
  <2>2. seg[5] = sixth
    BY ONLY <1>2, <1>3, <1>4, sixth \in {0, 65535}
  <2> QED BY <2>1, <2>2 DEF Convertible
<1>6. seg[6] = Swap(Made(a[0], a[1])) /\ seg[7] = Swap(Made(a[2], a[3]))
  BY ONLY <1>3, <1>4
<1> QED BY ONLY <1>1, <1>5, <1>6, PartsOfMade

LEMMA TwoPairs ==
  ASSUME NEW g \in Nat, NEW h \in Nat, NEW k \in Nat, NEW l \in Nat
  PROVE  <<g, h>> \o <<k, l>> = <<g, h, k, l>>
<1> DEFINE p == <<g, h>>
           q == <<k, l>>
           r == <<g, h, k, l>>
<1>1. /\ p \in Seq(Nat) /\ Len(p) = 2 /\ p[1] = g /\ p[2] = h
      /\ q \in Seq(Nat) /\ Len(q) = 2 /\ q[1] = k /\ q[2] = l
  BY Pair
<1>2. r \in Seq(Nat) /\ Len(r) = 4 /\ r[1] = g /\ r[2] = h /\ r[3] = k /\ r[4] = l
  OBVIOUS
<1> HIDE DEF p, q, r
<1>3. /\ p \o q \in Seq(Nat) /\ Len(p \o q) = 2 + 2
      /\ \A j \in 1 .. 2 : (p \o q)[j] = p[j]
      /\ \A j \in 1 .. 2 : (p \o q)[2 + j] = q[j]
  <2>1. /\ p \o q \in Seq(Nat) /\ Len(p \o q) = Len(p) + Len(q)
        /\ \A j \in 1 .. Len(p) : (p \o q)[j] = p[j]
        /\ \A j \in 1 .. Len(q) : (p \o q)[Len(p) + j] = q[j]
    BY <1>1, JoinedAt, Zenon
  <2> QED BY <1>1, <2>1, Zenon
<1>4. \A j \in 1 .. 4 : j \in 1 .. 2 \/ j = 2 + 1 \/ j = 2 + 2
  OBVIOUS
<1>5. r[1] = p[1] /\ r[2] = p[2] /\ r[2 + 1] = q[1] /\ r[2 + 2] = q[2]
  BY <1>1, <1>2
<1>6. \A j \in 1 .. 2 : r[j] = p[j]
  BY <1>5
<1>7. \A j \in 1 .. 4 : (p \o q)[j] = r[j]
  <2>1. 1 \in 1 .. 2 /\ 2 \in 1 .. 2
    OBVIOUS
  <2> QED BY <1>3, <1>4, <1>5, <1>6, <2>1, Zenon
<1>8. p \o q = r
  <2>1. 2 + 2 = 4
    OBVIOUS
  <2>2. Len(p \o q) = Len(r) /\ \A j \in 1 .. Len(p \o q) : (p \o q)[j] = r[j]
    BY <1>2, <1>3, <1>7, <2>1, Zenon
  <2> QED BY <1>2, <1>3, <2>2, SeqEqual, Zenon
<1> QED BY <1>8 DEF p, q, r

LEMMA MadeQuad ==
  ASSUME NEW a \in Address, NEW sixth \in {0, 65535}, addr = Combined(a, sixth)
  PROVE  Quad = <<a[0], a[1], a[2], a[3]>>
<1>1. a[0] \in Byte /\ a[1] \in Byte /\ a[2] \in Byte /\ a[3] \in Byte
  BY DEF Address
<1>2. seg[6] = Made(a[1], a[0]) /\ seg[7] = Made(a[3], a[2])
  BY MadeSegments
<1>3. ASSUME NEW g \in Byte, NEW h \in Byte PROVE Bytes(Made(h, g)) = <<g, h>>
  <2>1. High(Made(h, g)) = g /\ Low(Made(h, g)) = h
    BY PartsOfMade
  <2> QED BY <2>1 DEF Bytes, High, Low
<1>4. Bytes(seg[6]) = <<a[0], a[1]>> /\ Bytes(seg[7]) = <<a[2], a[3]>>
  BY ONLY <1>1, <1>2, <1>3
<1>5. a[0] \in Nat /\ a[1] \in Nat /\ a[2] \in Nat /\ a[3] \in Nat
  BY <1>1 DEF Byte
<1>6. <<a[0], a[1]>> \o <<a[2], a[3]>> = <<a[0], a[1], a[2], a[3]>>
  BY ONLY <1>5, TwoPairs
<1> QED BY <1>4, <1>6 DEF Quad

(* The first two addresses are those the special cases take. *)
LEMMA FirstTwoSegments ==
  ASSUME NEW a \in Address
  PROVE  a \in FirstTwo <=> Made(a[1], a[0]) = 0 /\ Made(a[3], a[2]) \in {0, 1}
<1>1. a[0] \in Byte /\ a[1] \in Byte /\ a[2] \in Byte /\ a[3] \in Byte
      /\ a = [k \in 0 .. 3 |-> a[k]]
  BY DEF Address
<1>2. 0 \in Byte /\ 1 \in Byte /\ Made(0, 0) = 0 /\ Made(1, 0) = 1
  BY DEF Byte, Made
<1>3. /\ Made(a[1], a[0]) = 0 <=> a[0] = 0 /\ a[1] = 0
      /\ Made(a[3], a[2]) = 0 <=> a[2] = 0 /\ a[3] = 0
      /\ Made(a[3], a[2]) = 1 <=> a[2] = 0 /\ a[3] = 1
  BY ONLY <1>1, <1>2, MadeOrder
<1>4. ASSUME NEW n \in {0, 1}
      PROVE  a = [k \in 0 .. 3 |-> IF k = 3 THEN n ELSE 0] <=>
               a[0] = 0 /\ a[1] = 0 /\ a[2] = 0 /\ a[3] = n
  <2>1. \A k \in 0 .. 3 : k = 0 \/ k = 1 \/ k = 2 \/ k = 3
    OBVIOUS
  <2>2. ASSUME a[0] = 0 /\ a[1] = 0 /\ a[2] = 0 /\ a[3] = n
        PROVE  a = [k \in 0 .. 3 |-> IF k = 3 THEN n ELSE 0]
    <3>1. \A k \in 0 .. 3 : a[k] = IF k = 3 THEN n ELSE 0
      BY <2>1, <2>2
    <3> QED BY ONLY <1>1, <3>1
  <2>3. ASSUME a = [k \in 0 .. 3 |-> IF k = 3 THEN n ELSE 0]
        PROVE  a[0] = 0 /\ a[1] = 0 /\ a[2] = 0 /\ a[3] = n
    BY ONLY <2>3
  <2> QED BY <2>2, <2>3
<1> QED BY ONLY <1>3, <1>4 DEF FirstTwo

(* An IPv4 address that was read and converted, in either way, is printed  *)
(* with the octets that were read, in their order, for each of the 2^32.   *)
THEOREM QuadsAreKept == Spec => []KeepsItsQuad
<1>1. Converted /\ TextInv => KeepsItsQuad
  <2> SUFFICES ASSUME Converted, TextInv, out # Printing, result \in Address
               PROVE  IF result \in FirstTwo THEN out.quad = <<>>
                      ELSE /\ out.quad = <<result[0], result[1], result[2], result[3]>>
                           /\ out.right = IF addr = ToIpv6Mapped(result) THEN Ffff ELSE <<>>
    BY DEF KeepsItsQuad
  <2>1. PICK sixth \in {0, 65535} : addr = Combined(result, sixth)
    BY Results DEF Converted, ToIpv6Compatible, ToIpv6Mapped
  <2>2. /\ Convertible(seg) /\ seg[5] = sixth
        /\ seg[6] = Made(result[1], result[0]) /\ seg[7] = Made(result[3], result[2])
    BY <2>1, MadeSegments
  <2>3. Quad = <<result[0], result[1], result[2], result[3]>>
    BY <2>1, MadeQuad
  <2>4. out = ConvertibleText
    BY <2>2 DEF Converted, TextInv, Wrote
  <2>5. result \in FirstTwo <=> seg[6] = 0 /\ seg[7] \in {0, 1}
    BY <2>2, FirstTwoSegments
  <2>6. sixth = 65535 <=> addr = ToIpv6Mapped(result)
    <3>1. Combined(result, 65535)[5] = 65535
      BY CombinedWords
    <3>2. Combined(result, sixth)[5] = sixth
      BY CombinedWords
    <3> QED BY <2>1, <3>1, <3>2 DEF ToIpv6Mapped
  <2>7. CASE result \in FirstTwo
    BY <2>4, <2>5, <2>7 DEF ConvertibleText, Written
  <2>8. CASE result \notin FirstTwo /\ sixth = 0
    BY <2>2, <2>3, <2>4, <2>5, <2>6, <2>8 DEF ConvertibleText, Written
  <2>9. CASE result \notin FirstTwo /\ sixth = 65535
    BY <2>2, <2>3, <2>4, <2>5, <2>6, <2>9 DEF ConvertibleText, Written
  <2> QED BY <2>7, <2>8, <2>9
<1> QED BY <1>1, ConvertedHolds, TextHolds, PTL

(* The address in memory that a reader of a text makes. *)
Retrieved(t) == [k \in 0 .. 7 |-> Swap(Understood(t)[k])]

LEMMA SwapTwice == ASSUME NEW w \in Word PROVE Swap(Swap(w)) = w
<1>1. Low(w) \in Byte /\ High(w) \in Byte /\ w = Made(Low(w), High(w)) /\ Swap(w) = Made(High(w), Low(w))
  BY WordParts
<1>2. Swap(Made(High(w), Low(w))) = Made(Low(w), High(w))
  BY ONLY <1>1, PartsOfMade
<1> QED BY <1>1, <1>2

(* The text alone tells the address, given or converted, so that no two    *)
(* addresses print alike: except the two mapped ones of the finding.       *)
THEOREM TextTellsAddress == Spec => [](out # Printing /\ ~MappedZeroOrOne => addr = Retrieved(out))
<1>1. Converted /\ TextInv => (out # Printing /\ ~MappedZeroOrOne => addr = Retrieved(out))
  <2> SUFFICES ASSUME Converted, TextInv, out # Printing, ~MappedZeroOrOne
               PROVE  addr = Retrieved(out)
    OBVIOUS
  <2>1. Understood(out) = seg
    BY WroteItsAddress DEF OthersDenoteThemselves
  <2>2. addr \in RawAddress
    BY DEF Converted
  <2>3. \A k \in 0 .. 7 : addr[k] \in Word /\ seg[k] = Swap(addr[k])
    BY <2>2 DEF RawAddress, seg, Segments
  <2>4. \A k \in 0 .. 7 : Swap(seg[k]) = addr[k]
    BY ONLY <2>3, SwapTwice
  <2>5. addr = [k \in 0 .. 7 |-> addr[k]]
    BY <2>2 DEF RawAddress
  <2>6. Retrieved(out) = [k \in 0 .. 7 |-> Swap(seg[k])]
    BY <2>1, Zenon DEF Retrieved
  <2>7. [k \in 0 .. 7 |-> Swap(seg[k])] = [k \in 0 .. 7 |-> addr[k]]
    BY ONLY <2>4
  <2> QED BY <2>5, <2>6, <2>7
<1> QED BY <1>1, ConvertedHolds, TextHolds, PTL
=============================================================================
