---------------------------- MODULE Ipv6Addr_proofs ----------------------------
(***************************************************************************)
(* Theorems about the printing of Ipv6Addr, for all addresses.             *)
(***************************************************************************)
EXTENDS Ipv6Addr, SequenceTheorems, TLAPS

(* Between two turns of the loop, the current run is the zeros that end    *)
(* with the last segment seen, all of them.                                *)
Current ==
  /\ cur_span_len \in 0 .. at
  /\ cur_span_len <= zero_span_len
  /\ cur_span_len > 0 => cur_span_at + cur_span_len = at
  /\ \A k \in at - cur_span_len .. at - 1 : seg[k] = 0
  /\ cur_span_len < at => seg[at - cur_span_len - 1] # 0

Counters ==
  /\ addr \in RawAddress \cup {Absent}
  /\ at \in 0 .. 8
  /\ zero_span_len \in 0 .. at /\ zero_span_at \in 0 .. 7
  /\ cur_span_len \in 0 .. at /\ cur_span_at \in 0 .. 7
  /\ addr = Absent => at = 0 /\ zero_span_at = 0 /\ out = Printing

RunInv == Counters /\ (addr # Absent => Current) /\ SpanIsLongest

LEMMA WordIsNat == \A w \in Word : w \in Nat /\ w <= MaxWord
BY DEF Word

LEMMA SegType ==
  ASSUME addr \in RawAddress PROVE \A k \in 0 .. 7 : seg[k] \in Word
<1>1. ASSUME NEW w \in Word PROVE Swap(w) \in Word
  <2>1. w \in Nat /\ w <= 65535
    BY WordIsNat DEF MaxWord
  <2>2. w % 256 \in Nat /\ w % 256 <= 255
    BY <2>1
  <2>3. w \div 256 \in Nat
    BY <2>1
  <2>4. w \div 256 <= 255
    BY <2>1
  <2>5. ASSUME NEW h \in Nat, NEW l \in Nat, h <= 255, l <= 255
        PROVE  l * 256 + h \in Nat /\ l * 256 + h <= 65535
    BY <2>5
  <2>6. Swap(w) \in Nat /\ Swap(w) <= 65535
    BY <2>2, <2>3, <2>4, <2>5 DEF Swap
  <2>7. MaxWord \in Int /\ Swap(w) <= MaxWord
    BY <2>6 DEF MaxWord
  <2> QED BY <2>6, <2>7 DEF Word
<1> QED BY ONLY addr \in RawAddress, <1>1 DEF seg, Segments, RawAddress

LEMMA RunInit == PrintInit => RunInv
BY DEF PrintInit, RunInv, Counters, SpanIsLongest

(* Printing an address that comes from anywhere. *)
PrintAny == (\E a \in RawAddress : Make(a)) \/ PrintStep

LEMMA GivenIsAny == [PrintNext]_print => [PrintAny]_print
BY Addresses DEF PrintNext, PrintAny

LEMMA MakeStep == RunInv /\ (\E a \in RawAddress : Make(a)) => RunInv'
<1> SUFFICES ASSUME RunInv, NEW a \in RawAddress, Make(a) PROVE RunInv'
  OBVIOUS
<1>1. Counters' /\ at' = 0 /\ zero_span_len' = 0 /\ cur_span_len' = 0 /\ zero_span_at' = 0
  BY NoAddress DEF Make, RunInv, Counters, loop
<1>2. Current'
  BY <1>1 DEF Current
<1>3. SpanIsLongest'
  BY <1>1 DEF SpanIsLongest, IsSpan
<1> QED BY <1>1, <1>2, <1>3 DEF RunInv

(* A zero segment: a run that ends with it is no longer than the current.  *)
LEMMA CountZeroStep == RunInv /\ CountZero => RunInv'
<1> SUFFICES ASSUME RunInv, CountZero PROVE RunInv'
  OBVIOUS
<1>a. Counters /\ Current /\ SpanIsLongest /\ addr \in RawAddress /\ addr # Absent
  BY NoAddress DEF RunInv, CountZero, AtSegment, Called, Counters
<1>b. at \in 0 .. 7 /\ seg[at] = 0 /\ at' = at + 1 /\ addr' = addr /\ seg' = seg
  BY <1>a DEF CountZero, AtSegment, Counters, seg
<1>c. /\ cur_span_len' = cur_span_len + 1
      /\ cur_span_at' = at - cur_span_len
  BY <1>a, <1>b DEF CountZero, Counters, Current
<1>d. \/ /\ cur_span_len' > zero_span_len
         /\ zero_span_len' = cur_span_len' /\ zero_span_at' = cur_span_at'
      \/ /\ cur_span_len' <= zero_span_len
         /\ zero_span_len' = zero_span_len /\ zero_span_at' = zero_span_at
  BY <1>a, <1>c DEF CountZero, Counters
<1>1. Counters'
  BY <1>a, <1>b, <1>c, <1>d DEF Counters
<1>2. Current'
  <2>1. \A k \in at - cur_span_len .. at : seg[k] = 0
    BY <1>a, <1>b DEF Current, Counters
  <2>2. cur_span_len < at => seg[at - cur_span_len - 1] # 0
    BY <1>a DEF Current
  <2>3. /\ at' - cur_span_len' = at - cur_span_len
        /\ at' - cur_span_len' - 1 = at - cur_span_len - 1
        /\ at' - 1 = at
    BY <1>a, <1>b, <1>c DEF Counters
  <2>4. cur_span_len' <= zero_span_len'
    BY <1>a, <1>c, <1>d DEF Counters
  <2> QED BY <1>a, <1>b, <1>c, <2>1, <2>2, <2>3, <2>4 DEF Current, Counters
<1>3. IsSpan(zero_span_at, zero_span_len, at)' 
  <2>1. IsSpan(zero_span_at, zero_span_len, at)
    BY <1>a DEF SpanIsLongest
  <2>2. \A k \in at - cur_span_len .. at : seg[k] = 0
    BY <1>a, <1>b DEF Current, Counters
  <2> QED BY <1>a, <1>b, <1>c, <1>d, <2>1, <2>2 DEF IsSpan, Counters
<1>4. ASSUME NEW first \in 0 .. at, NEW len \in 1 .. at + 1 - first,
             first + len <= at + 1, \A k \in first .. first + len - 1 : seg[k] = 0
      PROVE  \/ len < zero_span_len'
             \/ len = zero_span_len' /\ zero_span_at' <= first
  <2>1. CASE first + len <= at
    <3>1. IsSpan(first, len, at) /\ first \in 0 .. at - 1 /\ len \in 1 .. at - first
      BY <1>a, <1>4, <2>1 DEF IsSpan, Counters
    <3>2. \/ len < zero_span_len
          \/ len = zero_span_len /\ zero_span_at <= first
      BY <1>a, <3>1 DEF SpanIsLongest
    <3> QED BY <1>a, <1>c, <1>d, <3>2 DEF Counters
  <2>2. CASE first + len = at + 1
    <3>1. first >= at - cur_span_len
      <4>1. SUFFICES ASSUME first < at - cur_span_len PROVE FALSE
        BY <1>a DEF Counters
      <4>2. at - cur_span_len - 1 \in first .. first + len - 1 /\ cur_span_len < at
        BY <1>a, <2>2, <4>1 DEF Counters
      <4> QED BY <1>a, <1>4, <4>2 DEF Current
    <3>2. zero_span_at + zero_span_len <= at
      BY <1>a DEF SpanIsLongest, IsSpan
    <3> QED BY <1>a, <1>c, <1>d, <2>2, <3>1, <3>2 DEF Counters
  <2> QED BY <1>a, <1>4, <2>1, <2>2 DEF Counters
<1>5. SpanIsLongest'
  BY <1>b, <1>3, <1>4 DEF SpanIsLongest, IsSpan
<1> QED BY <1>1, <1>2, <1>5 DEF RunInv

(* Another segment: no run ends with it. *)
LEMMA EndSpanStep == RunInv /\ EndSpan => RunInv'
<1> SUFFICES ASSUME RunInv, EndSpan PROVE RunInv'
  OBVIOUS
<1>a. Counters /\ Current /\ SpanIsLongest /\ addr \in RawAddress /\ addr # Absent
  BY NoAddress DEF RunInv, EndSpan, AtSegment, Called, Counters
<1>b. /\ at \in 0 .. 7 /\ seg[at] # 0 /\ at' = at + 1 /\ addr' = addr /\ seg' = seg
      /\ cur_span_len' = 0 /\ cur_span_at' = 0
      /\ zero_span_len' = zero_span_len /\ zero_span_at' = zero_span_at
  BY <1>a DEF EndSpan, AtSegment, Counters, seg
<1>1. Counters'
  BY <1>a, <1>b DEF Counters
<1>2. Current'
  <2>1. at' - cur_span_len' - 1 = at
    BY <1>b
  <2> QED BY <1>a, <1>b, <2>1 DEF Current, Counters
<1>3. IsSpan(zero_span_at, zero_span_len, at)'
  BY <1>a, <1>b DEF SpanIsLongest, IsSpan, Counters
<1>4. ASSUME NEW first \in 0 .. at, NEW len \in 1 .. at + 1 - first,
             first + len <= at + 1, \A k \in first .. first + len - 1 : seg[k] = 0
      PROVE  \/ len < zero_span_len
             \/ len = zero_span_len /\ zero_span_at <= first
  <2>1. first + len <= at
    <3>1. CASE first + len = at + 1
      <4>1. at \in first .. first + len - 1
        BY <1>b, <1>4, <3>1
      <4> QED BY <1>b, <1>4, <4>1
    <3> QED BY <1>b, <1>4, <3>1
  <2>2. IsSpan(first, len, at) /\ first \in 0 .. at - 1 /\ len \in 1 .. at - first
    BY <1>b, <1>4, <2>1 DEF IsSpan
  <2> QED BY <1>a, <2>2 DEF SpanIsLongest
<1>5. SpanIsLongest'
  BY <1>b, <1>3, <1>4 DEF SpanIsLongest, IsSpan
<1> QED BY <1>1, <1>2, <1>5 DEF RunInv

(* Steps that leave the address and the counters alone. *)
LEMMA QuietStep ==
  ASSUME RunInv, addr # Absent \/ out' = out, UNCHANGED <<addr, loop>>
  PROVE  RunInv'
<1>1. seg' = seg
  BY DEF seg
<1>2. Counters'
  BY DEF RunInv, Counters, loop
<1>3. addr' # Absent => Current'
  BY <1>1 DEF RunInv, Current, loop
<1>4. SpanIsLongest'
  BY <1>1 DEF RunInv, SpanIsLongest, IsSpan, loop
<1> QED BY <1>2, <1>3, <1>4 DEF RunInv

LEMMA RunStep == RunInv /\ [PrintAny]_print => RunInv'
<1> SUFFICES ASSUME RunInv, [PrintAny]_print PROVE RunInv'
  OBVIOUS
<1>1. CASE PrintConvertible \/ PrintGeneral
  <2>1. addr # Absent /\ UNCHANGED <<addr, loop>>
    BY <1>1 DEF PrintConvertible, PrintGeneral, Called
  <2> QED BY <2>1, QuietStep
<1>2. CASE UNCHANGED print
  <2>1. UNCHANGED <<addr, loop, out>>
    BY <1>2 DEF print
  <2> QED BY <2>1, QuietStep
<1> QED
  BY <1>1, <1>2, MakeStep, CountZeroStep, EndSpanStep DEF PrintAny, PrintStep

LEMMA RunInvariance == PrintSpec => []RunInv
BY RunInit, RunStep, GivenIsAny, PTL DEF PrintSpec

(* After every turn of the loop in operator std::string, for every         *)
(* address: zero_span is a longest run of zero segments, and the first of  *)
(* them.                                                                   *)
THEOREM LongestSpanIsFound == PrintSpec => []SpanIsLongest
<1>1. RunInv => SpanIsLongest
  BY DEF RunInv
<1> QED BY <1>1, RunInvariance, PTL

-----------------------------------------------------------------------------
(* The text. *)

LEMMA PartIsSeq ==
  ASSUME addr \in RawAddress, NEW first \in 0 .. 8, NEW last \in -1 .. 7, first <= last + 1
  PROVE  /\ Part(first, last) \in Seq(Word)
         /\ Len(Part(first, last)) = last - first + 1
         /\ \A k \in 1 .. last - first + 1 : Part(first, last)[k] = seg[first + k - 1]
<1>1. last - first + 1 \in Nat
  OBVIOUS
<1>2. ASSUME NEW k \in 1 .. last - first + 1 PROVE seg[first + k - 1] \in Word
  <2>1. first + k - 1 \in 0 .. 7
    OBVIOUS
  <2> QED BY <2>1, SegType
<1> QED BY <1>1, <1>2, IsASeq, LenProperties DEF Part

LEMMA Leading ==
  ASSUME addr \in RawAddress, NEW n \in 0 .. 8
  PROVE  Len(Part(0, n - 1)) = n /\ \A k \in 0 .. n - 1 : Part(0, n - 1)[k + 1] = seg[k]
<1>1. n - 1 \in -1 .. 7 /\ 0 \in 0 .. 8 /\ 0 <= (n - 1) + 1 /\ (n - 1) - 0 + 1 = n
  OBVIOUS
<1>2. /\ Len(Part(0, n - 1)) = (n - 1) - 0 + 1
      /\ \A k \in 1 .. (n - 1) - 0 + 1 : Part(0, n - 1)[k] = seg[0 + k - 1]
  BY <1>1, PartIsSeq
<1>3. ASSUME NEW k \in 0 .. n - 1 PROVE Part(0, n - 1)[k + 1] = seg[k]
  <2>1. k + 1 \in 1 .. (n - 1) - 0 + 1 /\ 0 + (k + 1) - 1 = k
    OBVIOUS
  <2>2. Part(0, n - 1)[k + 1] = seg[0 + (k + 1) - 1]
    BY <1>2, <2>1
  <2> QED BY <2>1, <2>2
<1> QED BY <1>1, <1>2, <1>3

LEMMA Last ==
  ASSUME addr \in RawAddress, NEW n \in 0 .. 8
  PROVE  Len(Part(n, 7)) = 8 - n /\ \A k \in n .. 7 : Part(n, 7)[k - n + 1] = seg[k]
<1>1. 7 \in -1 .. 7 /\ n <= 7 + 1 /\ 7 - n + 1 = 8 - n
  OBVIOUS
<1>2. /\ Len(Part(n, 7)) = 7 - n + 1
      /\ \A k \in 1 .. 7 - n + 1 : Part(n, 7)[k] = seg[n + k - 1]
  BY <1>1, PartIsSeq
<1>3. ASSUME NEW k \in n .. 7 PROVE Part(n, 7)[k - n + 1] = seg[k]
  <2>1. k - n + 1 \in 1 .. 7 - n + 1 /\ n + (k - n + 1) - 1 = k
    OBVIOUS
  <2>2. Part(n, 7)[k - n + 1] = seg[n + (k - n + 1) - 1]
    BY <1>2, <2>1
  <2> QED BY <2>1, <2>2
<1> QED BY <1>1, <1>2, <1>3

(* A text with l segments before "::" and r behind it denotes the address  *)
(* if these are the address's, and its other segments 0.                   *)
LEMMA Denotes ==
  ASSUME NEW t, NEW l \in 0 .. 8, NEW r \in 0 .. 8,
         Len(t.left) = l, Len(Trailing(t)) = r,
         \A k \in 0 .. l - 1 : t.left[k + 1] = seg[k],
         \A k \in 8 - r .. 7 : Trailing(t)[k - 7 + r] = seg[k],
         \A k \in l .. 7 - r : seg[k] = 0
  PROVE  Understood(t) = seg
<1> DEFINE Read(k) == IF k < l THEN t.left[k + 1]
                      ELSE IF k >= 8 - r THEN Trailing(t)[k - 7 + r] ELSE 0
<1>1. ASSUME NEW k \in 0 .. 7 PROVE Read(k) = seg[k]
  <2>1. CASE k < l
    <3>1. k \in 0 .. l - 1
      BY <2>1
    <3> QED BY <2>1, <3>1
  <2>2. CASE ~(k < l) /\ k >= 8 - r
    <3>1. k \in 8 - r .. 7
      BY <2>2
    <3> QED BY <2>2, <3>1
  <2>3. CASE ~(k < l) /\ ~(k >= 8 - r)
    <3>1. k \in l .. 7 - r
      BY <2>3
    <3> QED BY <2>3, <3>1
  <2> QED BY <2>1, <2>2, <2>3
<1>2. seg = [k \in 0 .. 7 |-> seg[k]]
  BY DEF seg, Segments
<1>3. Understood(t) = [k \in 0 .. 7 |-> Read(k)]
  BY DEF Understood
<1> HIDE DEF Read
<1> QED BY <1>1, <1>2, <1>3

(* What operator std::string wrote. *)
Wrote ==
  IF Convertible(seg) THEN out = ConvertibleText
  ELSE at = 8 /\ out = IF zero_span_len > 1 THEN SpanText ELSE FullText

TextInv == RunInv /\ (out # Printing => addr # Absent /\ Wrote)

LEMMA SpanTextDenotes ==
  ASSUME RunInv, addr # Absent, at = 8, zero_span_len > 1
  PROVE  /\ Understood(SpanText) = seg
         /\ SpanText.gap
         /\ Len(SpanText.left) + Len(SpanText.right) < 7
<1> DEFINE z == zero_span_at
           e == zero_span_at + zero_span_len
           L == Part(0, z - 1)
           R == Part(e, 7)
<1>1. /\ addr \in RawAddress
      /\ z \in 0 .. 8 /\ e \in 0 .. 8 /\ z + 2 <= e
      /\ \A k \in z .. e - 1 : seg[k] = 0
  BY DEF RunInv, Counters, SpanIsLongest, IsSpan
<1>4. /\ SpanText.left = L /\ SpanText.right = R /\ SpanText.gap
      /\ Trailing(SpanText) = R
  BY DEF SpanText, Written, Trailing
<1> HIDE DEF z, e
<1>2. Len(L) = z /\ \A k \in 0 .. z - 1 : L[k + 1] = seg[k]
  BY <1>1, Leading
<1>3. Len(R) = 8 - e /\ \A k \in e .. 7 : R[k - e + 1] = seg[k]
  BY <1>1, Last
<1> HIDE DEF L, R
<1>5. Understood(SpanText) = seg
  <2> DEFINE r == 8 - e
  <2>1. r \in 0 .. 8 /\ 8 - r = e /\ 7 - r = e - 1
    BY <1>1
  <2>2. \A k \in e .. 7 : k - e + 1 = k - 7 + r
    BY <1>1
  <2>3. Len(R) = r
    BY <1>3
  <2> HIDE DEF r
  <2>4. \A k \in 8 - r .. 7 : R[k - 7 + r] = seg[k]
    BY <1>3, <2>1, <2>2
  <2>5. \A k \in z .. 7 - r : seg[k] = 0
    BY <1>1, <2>1
  <2>6. /\ Len(SpanText.left) = z /\ Len(Trailing(SpanText)) = r
        /\ \A k \in 0 .. z - 1 : SpanText.left[k + 1] = seg[k]
        /\ \A k \in 8 - r .. 7 : Trailing(SpanText)[k - 7 + r] = seg[k]
    BY <1>2, <1>4, <2>3, <2>4
  <2> QED BY <1>1, <2>1, <2>5, <2>6, Denotes
<1>6. Len(L) + Len(R) < 7
  BY <1>1, <1>2, <1>3
<1> QED BY <1>4, <1>5, <1>6

LEMMA FullTextDenotes ==
  ASSUME addr \in RawAddress
  PROVE  /\ Understood(FullText) = seg
         /\ ~FullText.gap
         /\ ~(Len(FullText.left) + Len(FullText.right) < 7)
<1> DEFINE L == Part(0, 7)
<1>1. Len(L) = 8 /\ \A k \in 0 .. 7 : L[k + 1] = seg[k]
  <2>1. 8 \in 0 .. 8 /\ 8 - 1 = 7
    OBVIOUS
  <2>2. Len(Part(0, 8 - 1)) = 8 /\ \A k \in 0 .. 8 - 1 : Part(0, 8 - 1)[k + 1] = seg[k]
    BY <2>1, Leading
  <2> QED BY <2>1, <2>2
<1>2. /\ FullText.left = L /\ FullText.right = <<>> /\ ~FullText.gap
      /\ Trailing(FullText) = <<>> /\ Len(<<>>) = 0
  BY EmptySeq DEF FullText, Written, Trailing
<1> HIDE DEF L
<1>3. Understood(FullText) = seg
  <2> DEFINE n == 8
             r == 0
  <2>1. n \in 0 .. 8 /\ r \in 0 .. 8 /\ n - 1 = 7 /\ 8 - r .. 7 = {} /\ n .. 7 - r = {}
    OBVIOUS
  <2>2. Len(FullText.left) = n /\ Len(Trailing(FullText)) = r
    BY <1>1, <1>2
  <2> HIDE DEF n, r
  <2>3. \A k \in 0 .. n - 1 : FullText.left[k + 1] = seg[k]
    BY <1>1, <1>2, <2>1
  <2>4. /\ \A k \in 8 - r .. 7 : Trailing(FullText)[k - 7 + r] = seg[k]
        /\ \A k \in n .. 7 - r : seg[k] = 0
    BY <2>1
  <2> QED BY ONLY <2>1, <2>2, <2>3, <2>4, Denotes
<1>4. ~(Len(L) + Len(<<>>) < 7)
  BY <1>1, <1>2
<1> QED BY <1>2, <1>3, <1>4

(* The bytes of a segment give it back. *)
LEMMA BytesOf ==
  ASSUME NEW s \in Word
  PROVE  /\ Bytes(s) \in Seq(Nat) /\ Len(Bytes(s)) = 2
         /\ 256 * Bytes(s)[1] + Bytes(s)[2] = s
<1>1. s \in Nat
  BY WordIsNat, Zenon
<1>2. s \div 256 \in Nat /\ s % 256 \in Nat
  BY <1>1
<1>3. 256 * (s \div 256) + (s % 256) = s
  BY <1>1
<1> DEFINE h == s \div 256
           l == s % 256
<1>4. Bytes(s) = <<h, l>>
  BY DEF Bytes
<1>5. 256 * h + l = s /\ h \in Nat /\ l \in Nat
  BY <1>2, <1>3
<1> HIDE DEF h, l
<1> QED BY <1>4, <1>5

LEMMA JoinedAt ==
  ASSUME NEW b \in Seq(Nat), NEW c \in Seq(Nat)
  PROVE  /\ b \o c \in Seq(Nat) /\ Len(b \o c) = Len(b) + Len(c)
         /\ \A i \in 1 .. Len(b) : (b \o c)[i] = b[i]
         /\ \A i \in 1 .. Len(c) : (b \o c)[Len(b) + i] = c[i]
<1> DEFINE d == b \o c
<1>1. d \in Seq(Nat) /\ Len(d) = Len(b) + Len(c)
  BY ConcatProperties
<1>2. \A i \in 1 .. Len(b) + Len(c) : d[i] = IF i <= Len(b) THEN b[i] ELSE c[i - Len(b)]
  BY ConcatProperties
<1>3. Len(b) \in Nat /\ Len(c) \in Nat
  BY LenProperties
<1> HIDE DEF d
<1>4. \A i \in 1 .. Len(b) : d[i] = b[i]
  BY <1>2, <1>3
<1>5. ASSUME NEW i \in 1 .. Len(c) PROVE d[Len(b) + i] = c[i]
  <2>1. Len(b) + i \in 1 .. Len(b) + Len(c) /\ ~(Len(b) + i <= Len(b)) /\ (Len(b) + i) - Len(b) = i
    BY <1>3
  <2>2. d[Len(b) + i] = c[(Len(b) + i) - Len(b)]
    BY <1>2, <2>1
  <2> QED BY <2>1, <2>2
<1> QED BY <1>1, <1>4, <1>5 DEF d

LEMMA Pair ==
  ASSUME NEW g \in Nat, NEW h \in Nat
  PROVE  <<g, h>> \in Seq(Nat) /\ Len(<<g, h>>) = 2 /\ <<g, h>>[1] = g /\ <<g, h>>[2] = h
OBVIOUS

LEMMA NotEmpty ==
  ASSUME NEW s, Len(s) = 4 PROVE s # <<>>
<1>1. Len(<<>>) = 0
  BY EmptySeq
<1> QED BY <1>1

(* What a reader makes of a dotted quad. *)
LEMMA QuadIsTail ==
  ASSUME NEW g \in Word, NEW h \in Word, NEW t, t.quad = Bytes(g) \o Bytes(h)
  PROVE  Trailing(t) = t.right \o <<g, h>>
<1> DEFINE b == Bytes(g)
           c == Bytes(h)
           d == b \o c
<1>1. b \in Seq(Nat) /\ c \in Seq(Nat) /\ Len(b) = 2 /\ Len(c) = 2
  BY BytesOf
<1>2. 256 * b[1] + b[2] = g /\ 256 * c[1] + c[2] = h
  BY BytesOf
<1>3. t.quad = d
  OBVIOUS
<1> HIDE DEF b, c
<1>4. /\ Len(d) = Len(b) + Len(c)
      /\ \A i \in 1 .. Len(b) : d[i] = b[i]
      /\ \A i \in 1 .. Len(c) : d[Len(b) + i] = c[i]
  BY ONLY <1>1, JoinedAt
<1> HIDE DEF d
<1>5. Len(d) = 4 /\ d[1] = b[1] /\ d[2] = b[2] /\ d[2 + 1] = c[1] /\ d[2 + 2] = c[2]
  BY ONLY <1>1, <1>4
<1>6. d # <<>>
  BY ONLY <1>5, NotEmpty
<1>7. t.quad # <<>>
  BY ONLY <1>3, <1>6
<1>8. Trailing(t)
        = t.right \o <<256 * t.quad[1] + t.quad[2], 256 * t.quad[3] + t.quad[4]>>
  BY ONLY <1>7 DEF Trailing
<1>9. d[1] = b[1] /\ d[2] = b[2] /\ d[3] = c[1] /\ d[4] = c[2]
  BY ONLY <1>5
<1>10. Trailing(t) = t.right \o <<256 * b[1] + b[2], 256 * c[1] + c[2]>>
  BY ONLY <1>3, <1>8, <1>9
<1> QED BY ONLY <1>2, <1>10

(* A text that begins with "::". *)
LEMMA TailDenotes ==
  ASSUME NEW t, NEW tail, NEW r \in 0 .. 8, t.left = <<>>, Trailing(t) = tail, Len(tail) = r,
         \A k \in 8 - r .. 7 : tail[k - 7 + r] = seg[k],
         \A k \in 0 .. 7 - r : seg[k] = 0
  PROVE  Understood(t) = seg
<1>1. 0 \in 0 .. 8 /\ 0 .. 0 - 1 = {}
  OBVIOUS
<1>2. Len(t.left) = 0
  <2>1. Len(<<>>) = 0
    BY EmptySeq
  <2> QED BY <2>1
<1>3. /\ Len(Trailing(t)) = r
      /\ \A k \in 0 .. 0 - 1 : t.left[k + 1] = seg[k]
      /\ \A k \in 8 - r .. 7 : Trailing(t)[k - 7 + r] = seg[k]
  BY <1>1
<1> QED BY <1>1, <1>2, <1>3, Denotes

LEMMA CompatibleDenotes ==
  ASSUME addr \in RawAddress, \A k \in 0 .. 5 : seg[k] = 0,
         NEW t, t = Written(<<>>, TRUE, <<>>, Quad)
  PROVE  Understood(t) = seg
<1> DEFINE tail == <<seg[6], seg[7]>>
<1>1. seg[6] \in Word /\ seg[7] \in Word
  BY SegType
<1>2. \A w \in Word : w \in Nat
  BY WordIsNat, Zenon
<1>3. tail \in Seq(Nat) /\ Len(tail) = 2 /\ tail[1] = seg[6] /\ tail[2] = seg[7]
  BY <1>1, <1>2, Pair
<1>4. /\ t.left = <<>> /\ t.right = <<>>
      /\ t.quad = Quad
  BY DEF Written
<1>5. Trailing(t) = t.right \o tail
  BY ONLY <1>1, <1>4, QuadIsTail DEF tail, Quad
<1> HIDE DEF tail
<1>6. Trailing(t) = tail
  BY <1>3, <1>4, <1>5, ConcatEmptySeq
<1>7. /\ \A k \in 8 - 2 .. 7 : tail[k - 7 + 2] = seg[k]
      /\ \A k \in 0 .. 7 - 2 : seg[k] = 0
      /\ 2 \in 0 .. 8
  BY <1>3
<1> QED BY <1>3, <1>4, <1>6, <1>7, TailDenotes

LEMMA MappedDenotes ==
  ASSUME addr \in RawAddress, \A k \in 0 .. 4 : seg[k] = 0, seg[5] = Ffff[1],
         NEW t, t = Written(<<>>, TRUE, Ffff, Quad)
  PROVE  Understood(t) = seg
<1> DEFINE tail == <<seg[6], seg[7]>>
           right == Ffff
<1>1. seg[6] \in Word /\ seg[7] \in Word
  BY SegType
<1>2. \A w \in Word : w \in Nat
  BY WordIsNat, Zenon
<1>3. tail \in Seq(Nat) /\ Len(tail) = 2 /\ tail[1] = seg[6] /\ tail[2] = seg[7]
  BY <1>1, <1>2, Pair
<1>4. right \in Seq(Nat) /\ Len(right) = 1 /\ right[1] = seg[5]
  BY DEF Ffff
<1>5. /\ t.left = <<>> /\ t.right = right
      /\ t.quad = Quad
  BY DEF Written
<1>q. t.quad = Quad
  BY DEF Written
<1>6. Trailing(t) = t.right \o tail
  BY ONLY <1>1, <1>q, QuadIsTail DEF tail, Quad
<1> DEFINE d == Trailing(t)
<1>t. Trailing(t) = d
  OBVIOUS
<1> HIDE DEF tail, right, d
<1>d. d = right \o tail
  BY ONLY <1>5, <1>6, <1>t
<1>e. /\ Len(d) = Len(right) + Len(tail)
      /\ \A i \in 1 .. Len(right) : d[i] = right[i]
      /\ \A i \in 1 .. Len(tail) : d[Len(right) + i] = tail[i]
  BY ONLY <1>3, <1>4, <1>d, JoinedAt
<1>f. Len(d) = 3 /\ d[1] = right[1] /\ d[1 + 1] = tail[1] /\ d[1 + 2] = tail[2]
  BY ONLY <1>3, <1>4, <1>e
<1>7. Len(d) = 3 /\ d[1] = right[1] /\ d[2] = tail[1] /\ d[3] = tail[2]
  BY ONLY <1>f
<1>8. /\ \A k \in 8 - 3 .. 7 : d[k - 7 + 3] = seg[k]
      /\ \A k \in 0 .. 7 - 3 : seg[k] = 0
      /\ 3 \in 0 .. 8
  BY <1>3, <1>4, <1>7
<1>9. t.left = <<>> /\ Len(d) = 3
  <2>1. t.left = <<>>
    BY DEF Written
  <2> QED BY ONLY <1>7, <2>1
<1> QED BY ONLY <1>9, <1>t, <1>8, TailDenotes

(* "::" and "::1". *)
LEMMA UnspecifiedDenotes ==
  ASSUME addr \in RawAddress, \A k \in 0 .. 6 : seg[k] = 0, seg[7] = 0,
         NEW t, t = Written(<<>>, TRUE, <<>>, <<>>)
  PROVE  Understood(t) = seg
<1>1. t.left = <<>> /\ Trailing(t) = <<>>
  BY DEF Written, Trailing
<1>2. /\ Len(<<>>) = 0 /\ 0 \in 0 .. 8
      /\ 8 - 0 .. 7 = {}
      /\ \A k \in 0 .. 7 - 0 : seg[k] = 0
  BY EmptySeq
<1>3. \A k \in 8 - 0 .. 7 : <<>>[k - 7 + 0] = seg[k]
  BY <1>2
<1> QED BY <1>1, <1>2, <1>3, TailDenotes

(* What stands behind "::" in the text of the loopback address. *)
One == <<1>>

LEMMA LoopbackDenotes ==
  ASSUME addr \in RawAddress, \A k \in 0 .. 6 : seg[k] = 0, seg[7] = 1,
         NEW t, t = Written(<<>>, TRUE, One, <<>>)
  PROVE  Understood(t) = seg
<1>1. t.left = <<>> /\ Trailing(t) = One
  BY DEF Written, Trailing
<1>2. Len(One) = 1 /\ One[1] = 1
  BY DEF One
<1>3. /\ \A k \in 8 - 1 .. 7 : One[k - 7 + 1] = seg[k]
      /\ \A k \in 0 .. 7 - 1 : seg[k] = 0
      /\ 1 \in 0 .. 8
  BY <1>2
<1> QED BY <1>1, <1>2, <1>3, TailDenotes

LEMMA ConvertibleDenotes ==
  ASSUME addr \in RawAddress, Convertible(seg), ~MappedZeroOrOne
  PROVE  /\ Understood(ConvertibleText) = seg
         /\ ConvertibleText.gap
         /\ Len(ConvertibleText.left) + Len(ConvertibleText.right) < 7
<1>1. (\A k \in 0 .. 4 : seg[k] = 0) /\ seg[5] \in {0, 65535}
  BY DEF Convertible
<1> DEFINE t == ConvertibleText
<1>2. Len(<<>>) = 0 /\ Len(<<1>>) = 1 /\ Len(Ffff) = 1
  BY EmptySeq DEF Ffff
<1>3. CASE seg[6] = 0 /\ seg[7] = 0
  <2>1. \A k \in 0 .. 6 : seg[k] = 0
    BY <1>1, <1>3 DEF MappedZeroOrOne
  <2>2. t = Written(<<>>, TRUE, <<>>, <<>>)
    BY <1>3 DEF ConvertibleText
  <2>3. t.gap /\ Len(t.left) + Len(t.right) < 7
    BY <1>2, <2>2 DEF Written
  <2>4. Understood(t) = seg
    BY ONLY addr \in RawAddress, <1>3, <2>1, <2>2, UnspecifiedDenotes
  <2> QED BY <2>3, <2>4
<1>4. CASE seg[6] = 0 /\ seg[7] = 1
  <2>1. \A k \in 0 .. 6 : seg[k] = 0
    BY <1>1, <1>4 DEF MappedZeroOrOne
  <2>2. t = Written(<<>>, TRUE, <<1>>, <<>>)
    BY <1>4 DEF ConvertibleText
  <2>3. t.gap /\ Len(t.left) + Len(t.right) < 7
    BY <1>2, <2>2 DEF Written
  <2>4. Understood(t) = seg
    BY ONLY addr \in RawAddress, <1>4, <2>1, <2>2, LoopbackDenotes DEF One
  <2> QED BY <2>3, <2>4
<1>5. CASE ~(seg[6] = 0 /\ (seg[7] = 0 \/ seg[7] = 1)) /\ seg[5] = 0
  <2>1. \A k \in 0 .. 5 : seg[k] = 0
    BY <1>1, <1>5
  <2>2. t = Written(<<>>, TRUE, <<>>, Quad)
    BY ONLY <1>5, Zenon DEF ConvertibleText
  <2>3. t.gap /\ Len(t.left) + Len(t.right) < 7
    BY <1>2, <2>2 DEF Written
  <2>4. Understood(t) = seg
    BY ONLY addr \in RawAddress, <2>1, <2>2, CompatibleDenotes
  <2> QED BY <2>3, <2>4
<1>6. CASE ~(seg[6] = 0 /\ (seg[7] = 0 \/ seg[7] = 1)) /\ seg[5] # 0
  <2>1. t = Written(<<>>, TRUE, Ffff, Quad)
    BY ONLY <1>6, Zenon DEF ConvertibleText
  <2>2. t.gap /\ Len(t.left) + Len(t.right) < 7
    <3>1. t.gap /\ t.left = <<>> /\ t.right = Ffff
      BY ONLY <2>1 DEF Written
    <3>2. Len(t.left) = 0 /\ Len(t.right) = 1
      BY ONLY <1>2, <3>1, Zenon
    <3>3. Len(t.left) + Len(t.right) < 7
      BY ONLY <3>2
    <3> QED BY <3>1, <3>3
  <2>3. Understood(t) = seg
    <3>1. (\A k \in 0 .. 4 : seg[k] = 0) /\ seg[5] = Ffff[1]
      BY <1>1, <1>6 DEF Ffff
    <3> QED BY ONLY addr \in RawAddress, <2>1, <3>1, MappedDenotes, Zenon
  <2> QED BY <2>2, <2>3
<1> QED BY ONLY <1>3, <1>4, <1>5, <1>6, Zenon

LEMMA SameTexts ==
  ASSUME seg' = seg, zero_span_len' = zero_span_len, zero_span_at' = zero_span_at
  PROVE  /\ ConvertibleText' = ConvertibleText
         /\ SpanText' = SpanText
         /\ FullText' = FullText
<1>1. Quad' = Quad
  BY Zenon DEF Quad
<1>2. ConvertibleText' = ConvertibleText
  BY <1>1, Zenon DEF ConvertibleText
<1>3. \A a, b : Part(a, b)' = Part(a, b)
  BY DEF Part
<1>4. SpanText' = SpanText
  BY <1>3 DEF SpanText
<1>5. FullText' = FullText
  BY <1>3 DEF FullText
<1> QED BY <1>2, <1>4, <1>5

LEMMA TextStep == TextInv /\ [PrintAny]_print => TextInv'
<1> SUFFICES ASSUME TextInv, [PrintAny]_print PROVE TextInv'
  OBVIOUS
<1>1. RunInv'
  BY RunStep DEF TextInv
<1>2. CASE (\E a \in RawAddress : Make(a)) \/ CountZero \/ EndSpan
  <2>1. out' = out /\ out = Printing
    BY <1>2 DEF TextInv, RunInv, Counters, Make, CountZero, EndSpan, AtSegment, Called
  <2> QED BY <1>1, <2>1 DEF TextInv
<1>3. CASE PrintConvertible \/ PrintGeneral
  <2>1. addr' = addr /\ addr # Absent /\ UNCHANGED loop
    BY <1>3 DEF PrintConvertible, PrintGeneral, Called
  <2>2. seg' = seg /\ at' = at /\ zero_span_len' = zero_span_len /\ zero_span_at' = zero_span_at
    BY <2>1 DEF seg, loop
  <2>3. /\ ConvertibleText' = ConvertibleText
        /\ SpanText' = SpanText
        /\ FullText' = FullText
    BY ONLY <2>2, SameTexts
  <2>4. \/ Convertible(seg) /\ out' = ConvertibleText
        \/ ~Convertible(seg) /\ at = 8 /\ out' = IF zero_span_len > 1 THEN SpanText ELSE FullText
    BY <1>3 DEF PrintConvertible, PrintGeneral
  <2>5. Wrote'
    BY <2>2, <2>3, <2>4 DEF Wrote
  <2> QED BY <1>1, <2>1, <2>5 DEF TextInv
<1>4. CASE UNCHANGED print
  <2>1. UNCHANGED <<addr, loop, out>>
    BY <1>4 DEF print
  <2>2. seg' = seg /\ at' = at /\ zero_span_len' = zero_span_len /\ zero_span_at' = zero_span_at
    BY <2>1 DEF seg, loop
  <2>3. /\ ConvertibleText' = ConvertibleText
        /\ SpanText' = SpanText
        /\ FullText' = FullText
    BY ONLY <2>2, SameTexts
  <2>4. Wrote' = Wrote
    BY <2>1, <2>2, <2>3 DEF Wrote
  <2> QED BY <1>1, <2>1, <2>4 DEF TextInv
<1> QED BY <1>2, <1>3, <1>4 DEF PrintAny, PrintStep

TextType == [left : Seq(Word), gap : BOOLEAN, right : Seq(Word), quad : Seq(Byte)]

LEMMA WrittenType ==
  ASSUME NEW left \in Seq(Word), NEW gap \in BOOLEAN, NEW right \in Seq(Word), NEW quad \in Seq(Byte)
  PROVE  Written(left, gap, right, quad) \in TextType
BY DEF Written, TextType

LEMMA QuadType == ASSUME addr \in RawAddress PROVE Quad \in Seq(Byte)
<1>1. ASSUME NEW w \in Word PROVE Bytes(w) \in Seq(Byte)
  <2>1. w \in Nat /\ w <= 65535
    BY WordIsNat DEF MaxWord
  <2>2. w \div 256 \in Nat
    BY <2>1
  <2>3. w \div 256 <= 255
    BY <2>1
  <2>4. w % 256 \in Nat /\ w % 256 <= 255
    BY <2>1
  <2>5. w \div 256 \in Byte /\ w % 256 \in Byte
    BY <2>2, <2>3, <2>4 DEF Byte
  <2> QED BY <2>5 DEF Bytes
<1>2. Bytes(seg[6]) \in Seq(Byte) /\ Bytes(seg[7]) \in Seq(Byte)
  BY <1>1, SegType
<1> QED BY <1>2, ConcatProperties DEF Quad

LEMMA TextTypes ==
  ASSUME RunInv, addr # Absent
  PROVE  /\ ConvertibleText \in TextType
         /\ at = 8 => SpanText \in TextType
         /\ FullText \in TextType
<1>1. addr \in RawAddress /\ Counters
  BY DEF RunInv, Counters
<1>2. <<>> \in Seq(Word) /\ <<>> \in Seq(Byte) /\ <<1>> \in Seq(Word) /\ Ffff \in Seq(Word)
  <2>1. 1 \in Word /\ 65535 \in Word
    BY DEF Word, MaxWord
  <2> QED BY <2>1 DEF Ffff
<1>3. ConvertibleText \in TextType
  BY <1>1, <1>2, QuadType, WrittenType DEF ConvertibleText
<1>4. ASSUME at = 8 PROVE SpanText \in TextType
  <2>1. zero_span_len \in 0 .. 8 /\ zero_span_at \in 0 .. 7 /\ zero_span_at + zero_span_len <= 8
    BY <1>1, <1>4 DEF Counters, RunInv, SpanIsLongest, IsSpan
  <2>2. Part(0, zero_span_at - 1) \in Seq(Word)
    <3> DEFINE last == zero_span_at - 1
    <3>1. 0 \in 0 .. 8 /\ last \in -1 .. 7 /\ 0 <= last + 1
      BY <2>1
    <3> HIDE DEF last
    <3>2. Part(0, last) \in Seq(Word)
      BY <1>1, <3>1, PartIsSeq
    <3> QED BY <3>2 DEF last
  <2>3. Part(zero_span_at + zero_span_len, 7) \in Seq(Word)
    <3> DEFINE first == zero_span_at + zero_span_len
    <3>1. first \in 0 .. 8 /\ 7 \in -1 .. 7 /\ first <= 7 + 1
      BY <2>1
    <3> HIDE DEF first
    <3>2. Part(first, 7) \in Seq(Word)
      BY <1>1, <3>1, PartIsSeq
    <3> QED BY <3>2 DEF first
  <2> QED BY <1>2, <2>2, <2>3, WrittenType DEF SpanText
<1>5. FullText \in TextType
  <2>1. Part(0, 7) \in Seq(Word)
    BY <1>1, PartIsSeq
  <2> QED BY <1>2, <2>1, WrittenType DEF FullText
<1> QED BY <1>3, <1>4, <1>5

LEMMA TextInit == PrintInit => TextInv
<1>1. PrintInit => out = Printing
  BY DEF PrintInit
<1> QED BY <1>1, RunInit DEF TextInv

LEMMA TextInvariance == PrintSpec => []TextInv
BY TextInit, TextStep, GivenIsAny, PTL DEF PrintSpec

LEMMA TextsTyped == TextInv => PrintTypeOK
<1> SUFFICES ASSUME TextInv PROVE PrintTypeOK
  OBVIOUS
<1>1. RunInv /\ Counters
  BY DEF TextInv, RunInv
<1>2. out \in TextType \cup {Printing}
  <2>1. CASE out = Printing
    BY <2>1
  <2>2. CASE out # Printing
    <3>1. addr # Absent /\ Wrote
      BY <1>1, <2>2 DEF TextInv, Counters
    <3> QED BY <1>1, <3>1, TextTypes DEF Wrote
  <2> QED BY <2>1, <2>2
<1>3. /\ addr \in RawAddress \cup {Absent} /\ at \in 0 .. 8
      /\ zero_span_len \in 0 .. 8 /\ zero_span_at \in 0 .. 7
      /\ cur_span_len \in 0 .. 8 /\ cur_span_at \in 0 .. 7
  BY <1>1 DEF Counters
<1> QED BY <1>2, <1>3 DEF PrintTypeOK, TextType

(* The counters stay within the eight segments, and the text returned is   *)
(* one of segments and bytes.                                              *)
THEOREM PrintTypes == PrintSpec => []PrintTypeOK
BY TextsTyped, TextInvariance, PTL

LEMMA WroteItsAddress == TextInv => OthersDenoteThemselves
<1> SUFFICES ASSUME TextInv, out # Printing, ~MappedZeroOrOne
             PROVE  /\ Understood(out) = seg
                    /\ out.gap <=> Len(out.left) + Len(out.right) < 7
  BY DEF OthersDenoteThemselves
<1>1. addr \in RawAddress /\ RunInv /\ addr # Absent /\ Wrote
  BY DEF TextInv, RunInv, Counters
<1>2. CASE Convertible(seg)
  <2>1. out = ConvertibleText
    BY <1>1, <1>2 DEF Wrote
  <2> QED BY <1>1, <1>2, <2>1, ConvertibleDenotes
<1>3. CASE ~Convertible(seg) /\ zero_span_len > 1
  <2>1. at = 8 /\ out = SpanText
    BY <1>1, <1>3 DEF Wrote
  <2> QED BY <1>1, <1>3, <2>1, SpanTextDenotes
<1>4. CASE ~Convertible(seg) /\ ~(zero_span_len > 1)
  <2>1. out = FullText
    BY <1>1, <1>4 DEF Wrote
  <2>2. Understood(out) = seg /\ ~out.gap
    BY <1>1, <2>1, FullTextDenotes
  <2>3. ~(Len(out.left) + Len(out.right) < 7)
    BY <1>1, <2>1, FullTextDenotes
  <2> QED BY ONLY <2>2, <2>3, Zenon
<1> QED BY <1>2, <1>3, <1>4

(* What operator std::string returns denotes the address, whatever the     *)
(* address, apart from the two IPv4-mapped ones that print as "::" and     *)
(* "::1"; so no two others print alike.                                    *)
THEOREM TextsDenote == PrintSpec => []OthersDenoteThemselves
BY WroteItsAddress, TextInvariance, PTL
=============================================================================
