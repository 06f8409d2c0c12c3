---------------------------- MODULE Ipv4Addr_proofs ----------------------------
(***************************************************************************)
(* Theorems about the parser of Ipv4Addr, for all texts, and about the     *)
(* printed text, the classes and the order of all addresses.               *)
(***************************************************************************)
EXTENDS Ipv4Addr, FiniteSetTheorems, SequenceTheorems, TLAPS

(* Digits since the last period, or the start: pos of them, and the octet  *)
(* they make.                                                              *)
Octet ==
  /\ pos \in 0 .. 3 /\ pos <= i - 1
  /\ \A m \in i - pos .. i - 1 : text[m] \in Digit
  /\ pos < i - 1 => text[i - 1 - pos] = Dot
  /\ pos = 0 => buf[octet] = 0
  /\ pos = 1 => buf[octet] = text[i - 1]
  /\ pos = 2 => buf[octet] = 10 * text[i - 2] + text[i - 1]
  /\ pos = 3 => buf[octet] = 100 * text[i - 3] + 10 * text[i - 2] + text[i - 1]

Rest == \A k \in 0 .. 3 : k > octet => buf[k] = 0

(* Between two turns: octet counts the periods seen, and what was seen is  *)
(* the beginning of an acceptable text.                                    *)
Scanned ==
  /\ Octet /\ Rest
  /\ octet = Cardinality(Periods(text, i - 1))
  /\ Acceptable(text, i - 1)

(* What an answer says of the text, whether it is whole or cut short. *)
Judged ==
  /\ result \in Address => Acceptable(text, Len(text))
  /\ result = Nullopt => ~Acceptable(text, Len(text))

ParseInv ==
  /\ ParseTypeOK
  /\ result \in {Idle, Parsing} => Scanned
  /\ result = Idle => i = 1 /\ pos = 0 /\ octet = 0 /\ buf = [k \in 0 .. 3 |-> 0]
  /\ Judged

LEMMA Typed == ASSUME ParseTypeOK PROVE text \in Seq(Char) /\ Len(text) \in Nat
BY Texts, EmptySeq, LenProperties DEF ParseTypeOK

LEMMA PeriodsFinite ==
  ASSUME NEW s, NEW n \in Nat
  PROVE  IsFiniteSet(Periods(s, n)) /\ Cardinality(Periods(s, n)) \in Nat
<1>1. IsFiniteSet(1 .. n)
  BY FS_Interval
<1>2. Periods(s, n) \subseteq 1 .. n
  BY DEF Periods
<1> QED BY <1>1, <1>2, FS_Subset, FS_CardinalityType

(* One character more. *)
LEMMA PeriodsNext ==
  ASSUME NEW s, NEW n \in Nat
  PROVE  Cardinality(Periods(s, n + 1))
           = Cardinality(Periods(s, n)) + (IF s[n + 1] = Dot THEN 1 ELSE 0)
<1>1. Periods(s, n + 1) = Periods(s, n) \cup (IF s[n + 1] = Dot THEN {n + 1} ELSE {})
  BY DEF Periods
<1>2. n + 1 \notin Periods(s, n)
  BY DEF Periods
<1>3. CASE s[n + 1] = Dot
  BY <1>1, <1>2, <1>3, PeriodsFinite, FS_AddElement
<1>4. CASE s[n + 1] # Dot
  <2>1. Periods(s, n + 1) = Periods(s, n)
    BY <1>1, <1>4
  <2> QED BY <1>4, <2>1, PeriodsFinite
<1> QED BY <1>3, <1>4

LEMMA PeriodsMonotone ==
  ASSUME NEW s, NEW m \in Nat, NEW n \in Nat, m <= n
  PROVE  Cardinality(Periods(s, m)) <= Cardinality(Periods(s, n))
<1>1. Periods(s, m) \subseteq Periods(s, n)
  BY DEF Periods
<1> QED BY <1>1, PeriodsFinite, FS_Subset

LEMMA NothingSeen ==
  ASSUME NEW s PROVE Cardinality(Periods(s, 0)) = 0 /\ Acceptable(s, 0)
<1>1. Periods(s, 0) = {}
  BY DEF Periods
<1>2. Cardinality(Periods(s, 0)) = 0
  BY <1>1, FS_EmptySet
<1> QED BY <1>1, <1>2 DEF Acceptable

-----------------------------------------------------------------------------
(* A step of the loop. *)

(* What a turn of the loop may assume. *)
Turn ==
  /\ ParseTypeOK /\ Scanned /\ AtChar
  /\ i \in 1 .. Len(text) /\ Len(text) \in Nat
  /\ text[i] \in Char

LEMMA TurnStarts == ASSUME ParseInv, AtChar PROVE Turn
<1>1. ParseTypeOK /\ Scanned
  BY DEF ParseInv, AtChar
<1>2. text \in Seq(Char) /\ Len(text) \in Nat
  BY <1>1, Typed
<1>3. i \in 1 .. Len(text)
  BY <1>1, <1>2 DEF AtChar, ParseTypeOK
<1>4. text[i] \in Char
  BY <1>2, <1>3, ElementOfSeq
<1> QED BY <1>1, <1>2, <1>3, <1>4 DEF Turn

LEMMA DigitKeepsAcceptable ==
  ASSUME Turn, FitsDigit, Value <= 255 PROVE Acceptable(text, i)
<1>1. /\ Acceptable(text, i - 1) /\ Octet /\ i \in 1 .. Len(text) /\ Len(text) \in Nat
      /\ text[i] \in Digit /\ text[i] # Dot /\ pos < 3
  BY Characters DEF Turn, Scanned, FitsDigit
<1>2. \A m \in 1 .. i : text[m] \in Digit \cup {Dot}
  <2>1. \A m \in 1 .. i - 1 : text[m] \in Digit \cup {Dot}
    BY <1>1 DEF Acceptable
  <2> QED BY <1>1, <2>1
<1>3. Periods(text, i) = Periods(text, i - 1)
  BY <1>1 DEF Periods
<1>4. ASSUME NEW m \in 1 .. i - 3, ThreeDigits(text, m) PROVE text[m + 3] = Dot
  <2>1. CASE m < i - 3
    <3>1. m \in 1 .. (i - 1) - 3
      BY <1>1, <2>1
    <3> QED BY <1>1, <1>4, <3>1 DEF Acceptable
  <2>2. CASE m = i - 3
    <3>1. pos < i - 1 /\ text[i - 1 - pos] = Dot
      BY <1>1, <2>2 DEF Octet
    <3>2. i - 1 - pos \in {m, m + 1, m + 2}
      BY <1>1, <2>2 DEF Octet
    <3>3. Dot \in Digit
      BY <1>4, <3>1, <3>2 DEF ThreeDigits
    <3> QED BY <3>3, Characters
  <2> QED BY <1>1, <2>1, <2>2
<1>5. ASSUME NEW m \in 1 .. i - 2, ThreeDigits(text, m)
      PROVE  100 * text[m] + 10 * text[m + 1] + text[m + 2] <= 255
  <2>1. CASE m < i - 2
    <3>1. m \in 1 .. (i - 1) - 2
      BY <1>1, <2>1
    <3> QED BY <1>1, <1>5, <3>1 DEF Acceptable
  <2>2. CASE m = i - 2
    <3>1. pos = 2
      <4>1. CASE pos < i - 1
        <5>1. text[i - 1 - pos] = Dot
          BY <1>1, <4>1 DEF Octet
        <5>2. text[m] # Dot /\ text[m + 1] # Dot
          BY <1>5, Characters DEF ThreeDigits
        <5>3. pos = 0 => i - 1 - pos = m + 1
          BY <1>1, <2>2
        <5>4. pos = 1 => i - 1 - pos = m
          BY <1>1, <2>2
        <5> QED BY <1>1, <5>1, <5>2, <5>3, <5>4 DEF Octet
      <4> QED BY <1>1, <2>2, <4>1 DEF Octet
    <3>2. buf[octet] = 10 * text[i - 2] + text[i - 1]
      BY <1>1, <3>1 DEF Octet
    <3>3. m = i - 2 /\ m + 1 = i - 1 /\ m + 2 = i
      BY <1>1, <2>2
    <3>4. text[m] \in Int /\ text[m + 1] \in Int /\ text[m + 2] \in Int
      BY <1>5 DEF ThreeDigits, Digit
    <3>5. (10 * text[m] + text[m + 1]) * 10 + text[m + 2] <= 255
      BY <3>2, <3>3 DEF Value
    <3> QED BY <3>4, <3>5
  <2> QED BY <1>1, <2>1, <2>2
<1>6. /\ Cardinality(Periods(text, i)) <= 3
      /\ \A m \in Periods(text, i) : m > 1 /\ text[m - 1] \in Digit
  BY <1>1, <1>3 DEF Acceptable
<1> QED BY <1>2, <1>4, <1>5, <1>6 DEF Acceptable

LEMMA PeriodKeepsAcceptable ==
  ASSUME Turn, FitsPeriod PROVE Acceptable(text, i)
<1>1. /\ Acceptable(text, i - 1) /\ Octet /\ i \in 1 .. Len(text) /\ Len(text) \in Nat
      /\ text[i] = Dot /\ pos > 0 /\ octet < 3 /\ Dot \notin Digit
      /\ octet = Cardinality(Periods(text, i - 1))
  BY Characters DEF Turn, Scanned, FitsPeriod
<1>2. \A m \in 1 .. i : text[m] \in Digit \cup {Dot}
  <2>1. \A m \in 1 .. i - 1 : text[m] \in Digit \cup {Dot}
    BY <1>1 DEF Acceptable
  <2> QED BY <1>1, <2>1
<1>3. Cardinality(Periods(text, i)) <= 3
  <2>1. i - 1 \in Nat /\ (i - 1) + 1 = i
    BY <1>1
  <2>2. Cardinality(Periods(text, i)) = octet + 1
    BY <1>1, <2>1, PeriodsNext
  <2>3. octet \in 0 .. 3
    BY DEF Turn, ParseTypeOK
  <2> QED BY <1>1, <2>2, <2>3
<1>4. ASSUME NEW m \in Periods(text, i) PROVE m > 1 /\ text[m - 1] \in Digit
  <2>1. CASE m = i
    <3>1. i - 1 \in i - pos .. i - 1 /\ i > 1
      BY <1>1 DEF Octet
    <3> QED BY <1>1, <2>1, <3>1 DEF Octet
  <2>2. CASE m # i
    <3>1. m \in Periods(text, i - 1)
      BY <1>1, <2>2 DEF Periods
    <3> QED BY <1>1, <3>1 DEF Acceptable
  <2> QED BY <2>1, <2>2
<1>5. ASSUME NEW m \in 1 .. i - 3, ThreeDigits(text, m) PROVE text[m + 3] = Dot
  <2>1. CASE m < i - 3
    <3>1. m \in 1 .. (i - 1) - 3
      BY <1>1, <2>1
    <3> QED BY <1>1, <1>5, <3>1 DEF Acceptable
  <2>2. CASE m = i - 3
    BY <1>1, <2>2
  <2> QED BY <1>1, <2>1, <2>2
<1>6. ASSUME NEW m \in 1 .. i - 2, ThreeDigits(text, m)
      PROVE  100 * text[m] + 10 * text[m + 1] + text[m + 2] <= 255
  <2>1. m # i - 2
    <3>1. SUFFICES ASSUME m = i - 2 PROVE FALSE
      OBVIOUS
    <3>2. m + 2 = i
      BY <1>1, <3>1
    <3> QED BY <1>1, <1>6, <3>2 DEF ThreeDigits
  <2>2. m \in 1 .. (i - 1) - 2
    BY <1>1, <2>1
  <2> QED BY <1>1, <1>6, <2>2 DEF Acceptable
<1> QED BY <1>2, <1>3, <1>4, <1>5, <1>6 DEF Acceptable

LEMMA DigitValues ==
  ASSUME NEW a \in Digit, NEW b \in Digit, NEW c \in Digit
  PROVE  /\ ~(a * 10 + b > 255)
         /\ 100 * a + 10 * b + c <= 255 => ~((10 * a + b) * 10 + c > 255)
BY DEF Digit

LEMMA RejectedIsNotAcceptable ==
  ASSUME Turn, Reject PROVE ~Acceptable(text, Len(text))
<1>1. /\ Octet /\ i \in 1 .. Len(text) /\ Len(text) \in Nat /\ text[i] \in Char
      /\ octet = Cardinality(Periods(text, i - 1)) /\ octet \in 0 .. 3
      /\ Dot \notin Digit /\ Other \notin Digit \cup {Dot}
  BY Characters DEF Turn, Scanned, ParseTypeOK
<1> SUFFICES ASSUME Acceptable(text, Len(text)) PROVE FALSE
  OBVIOUS
<1>2. CASE FitsDigit /\ Value > 255
  <2>1. text[i] \in Digit /\ pos < 3
    BY <1>2 DEF FitsDigit
  <2>2. pos # 0
    BY <1>1, <1>2, <2>1 DEF Octet, Value, Digit
  <2>3. pos # 1
    <3>1. SUFFICES ASSUME pos = 1 PROVE FALSE
      OBVIOUS
    <3>2. text[i - 1] \in Digit /\ buf[octet] = text[i - 1]
      BY <1>1, <3>1 DEF Octet
    <3>3. text[i - 1] * 10 + text[i] > 255
      BY <1>2, <3>2 DEF Value
    <3> QED BY <2>1, <3>2, <3>3, DigitValues
  <2>4. pos = 2
    BY <1>1, <2>1, <2>2, <2>3 DEF Octet
  <2> DEFINE m == i - 2
  <2>5. m \in 1 .. Len(text) - 2 /\ m + 1 = i - 1 /\ m + 2 = i
    BY <1>1, <2>4 DEF Octet
  <2>6. text[m] \in Digit /\ text[m + 1] \in Digit /\ text[m + 2] \in Digit
    <3>1. m \in i - pos .. i - 1 /\ m + 1 \in i - pos .. i - 1
      BY <1>1, <2>4, <2>5
    <3> QED BY <1>1, <2>1, <2>5, <3>1 DEF Octet
  <2>7. ThreeDigits(text, m)
    BY <2>6 DEF ThreeDigits
  <2>8. 100 * text[m] + 10 * text[m + 1] + text[m + 2] <= 255
    BY <2>5, <2>7 DEF Acceptable
  <2>9. (10 * text[m] + text[m + 1]) * 10 + text[m + 2] > 255
    BY <1>1, <1>2, <2>4, <2>5 DEF Octet, Value
  <2> HIDE DEF m
  <2> QED BY <2>6, <2>8, <2>9, DigitValues
<1>3. CASE ~FitsDigit /\ ~FitsPeriod
  <2>1. CASE text[i] \in Digit
    <3>1. pos = 3
      BY <1>1, <1>3, <2>1 DEF Octet, FitsDigit
    <3> DEFINE m == i - 3
    <3>2. m \in 1 .. Len(text) - 3 /\ m + 3 = i
      BY <1>1, <3>1 DEF Octet
    <3>3. m \in i - pos .. i - 1 /\ m + 1 \in i - pos .. i - 1 /\ m + 2 \in i - pos .. i - 1
      BY <1>1, <3>1
    <3>4. ThreeDigits(text, m)
      BY <1>1, <3>3 DEF Octet, ThreeDigits
    <3>5. text[m + 3] = Dot
      BY <3>2, <3>4 DEF Acceptable
    <3> QED BY <1>1, <2>1, <3>2, <3>5
  <2>2. CASE text[i] = Dot
    <3>1. i \in Periods(text, Len(text))
      BY <1>1, <2>2 DEF Periods
    <3>2. i > 1 /\ text[i - 1] \in Digit
      BY <3>1 DEF Acceptable
    <3>3. pos > 0
      <4>1. SUFFICES ASSUME pos = 0 PROVE FALSE
        BY <1>1 DEF Octet
      <4>2. text[i - 1] = Dot
        <5>1. pos < i - 1 /\ i - 1 - pos = i - 1
          BY <1>1, <3>2, <4>1
        <5> QED BY <1>1, <5>1 DEF Octet
      <4> QED BY <1>1, <3>2, <4>2
    <3>4. octet = 3
      BY <1>1, <1>3, <2>2, <3>3 DEF Octet, FitsPeriod
    <3>5. i - 1 \in Nat /\ (i - 1) + 1 = i /\ i \in Nat /\ i <= Len(text)
      BY <1>1
    <3>6. Cardinality(Periods(text, i)) = 4
      BY <1>1, <2>2, <3>4, <3>5, PeriodsNext
    <3>7. 4 <= Cardinality(Periods(text, Len(text)))
      BY <1>1, <3>5, <3>6, PeriodsMonotone
    <3>8. Cardinality(Periods(text, Len(text))) <= 3
      BY DEF Acceptable
    <3> QED BY <1>1, <3>7, <3>8, PeriodsFinite
  <2>3. CASE text[i] = Other
    BY <1>1, <2>3 DEF Acceptable
  <2> QED BY <1>1, <2>1, <2>2, <2>3 DEF Char
<1> QED BY <1>2, <1>3 DEF Reject

-----------------------------------------------------------------------------
(* The steps. *)

LEMMA Numbers ==
  /\ \A d \in Digit : d \in Nat
  /\ \A n : n \in Byte <=> n \in Nat /\ n <= 255
BY DEF Digit, Byte

LEMMA ParseStarts == ParseInit => ParseInv
<1> SUFFICES ASSUME ParseInit PROVE ParseInv
  OBVIOUS
<1>1. /\ text = <<>> /\ i = 1 /\ buf = [k \in 0 .. 3 |-> 0] /\ pos = 0 /\ octet = 0
      /\ result = Idle
  BY DEF ParseInit
<1>2. Len(text) = 0
  BY <1>1, EmptySeq
<1>3. ParseTypeOK
  BY <1>1, <1>2 DEF ParseTypeOK, Byte
<1>4. Scanned
  BY <1>1, NothingSeen DEF Scanned, Octet, Rest
<1>5. Judged
  BY <1>1, Results DEF Judged
<1> QED BY <1>1, <1>3, <1>4, <1>5 DEF ParseInv

LEMMA FromStep == ASSUME ParseInv, NEW t \in Text, From(t) PROVE ParseInv'
<1>1. /\ i = 1 /\ pos = 0 /\ octet = 0 /\ buf = [k \in 0 .. 3 |-> 0]
      /\ text' = t /\ result' = Parsing /\ i' = i /\ buf' = buf /\ pos' = pos /\ octet' = octet
  BY DEF ParseInv, From
<1>2. Len(t) \in Nat
  BY Texts, LenProperties
<1>3. ParseTypeOK'
  BY <1>1, <1>2 DEF ParseTypeOK, Byte
<1>4. Scanned'
  BY <1>1, NothingSeen DEF Scanned, Octet, Rest
<1>5. Judged'
  BY <1>1, Results DEF Judged
<1> QED BY <1>1, <1>3, <1>4, <1>5, Results DEF ParseInv

LEMMA TakeDigitStep == ASSUME ParseInv, TakeDigit PROVE ParseInv'
<1>1. Turn /\ FitsDigit /\ Value <= 255
  BY TurnStarts DEF TakeDigit
<1>2. /\ ParseTypeOK /\ Octet /\ Rest /\ i \in 1 .. Len(text) /\ Len(text) \in Nat
      /\ text[i] \in Digit /\ text[i] # Dot /\ pos < 3 /\ octet = Cardinality(Periods(text, i - 1))
      /\ result = Parsing
  BY <1>1, Characters DEF Turn, Scanned, FitsDigit, AtChar
<1>3. /\ buf' = [buf EXCEPT ![octet] = Value] /\ pos' = pos + 1 /\ i' = i + 1
      /\ text' = text /\ octet' = octet /\ result' = result
  BY DEF TakeDigit
<1>4. octet \in 0 .. 3 /\ pos \in 0 .. 2 /\ buf \in [0 .. 3 -> Byte]
  BY <1>2 DEF ParseTypeOK, Octet
<1>5. buf[octet] \in Nat /\ text[i] \in Nat
  <2>1. buf[octet] \in Byte
    BY <1>4
  <2> QED BY <1>2, <2>1, Numbers
<1>6. Value \in Byte
  <2>1. Value \in Nat
    BY <1>5 DEF Value
  <2> QED BY <1>1, <2>1, Numbers
<1>7. buf'[octet] = Value /\ \A k \in 0 .. 3 : k # octet => buf'[k] = buf[k]
  BY <1>3, <1>4
<1>8. ParseTypeOK'
  <2>1. buf' \in [0 .. 3 -> Byte]
    BY <1>3, <1>4, <1>6
  <2> QED BY <1>2, <1>3, <1>4, <2>1 DEF ParseTypeOK
<1>9. Octet'
  <2>1. \A m \in i' - pos' .. i' - 1 : text[m] \in Digit
    <3>1. \A m \in i - pos .. i - 1 : text[m] \in Digit
      BY <1>2 DEF Octet
    <3> QED BY <1>2, <1>3, <1>4, <3>1
  <2>2. i' - 1 = i /\ i' - 2 = i - 1 /\ i' - 3 = i - 2 /\ i' - 1 - pos' = i - 1 - pos
    BY <1>2, <1>3, <1>4
  <2>3. pos' < i' - 1 => text[i' - 1 - pos'] = Dot
    BY <1>2, <1>3, <1>4, <2>2 DEF Octet
  <2>4. CASE pos = 0
    <3>1. buf'[octet] = text[i]
      BY <1>2, <1>5, <1>7, <2>4 DEF Octet, Value
    <3> QED BY <1>2, <1>3, <1>4, <2>1, <2>2, <2>3, <2>4, <3>1 DEF Octet
  <2>5. CASE pos = 1
    <3>1. buf'[octet] = 10 * text[i - 1] + text[i]
      BY <1>2, <1>5, <1>7, <2>5 DEF Octet, Value
    <3> QED BY <1>2, <1>3, <1>4, <2>1, <2>2, <2>3, <2>5, <3>1 DEF Octet
  <2>6. CASE pos = 2
    <3>1. text[i - 1] \in Nat /\ text[i - 2] \in Nat
      <4>1. i - 1 \in i - pos .. i - 1 /\ i - 2 \in i - pos .. i - 1
        BY <1>2, <2>6
      <4>2. text[i - 1] \in Digit /\ text[i - 2] \in Digit
        BY <1>2, <4>1 DEF Octet
      <4> QED BY <4>2, Numbers
    <3>2. buf[octet] = 10 * text[i - 2] + text[i - 1]
      BY <1>2, <2>6 DEF Octet
    <3>3. buf'[octet] = 100 * text[i - 2] + 10 * text[i - 1] + text[i]
      BY <1>5, <1>7, <3>1, <3>2 DEF Value
    <3> QED BY <1>2, <1>3, <1>4, <2>1, <2>2, <2>3, <2>6, <3>3 DEF Octet
  <2> QED BY <1>4, <2>4, <2>5, <2>6
<1>10. Rest'
  BY <1>2, <1>3, <1>4, <1>7 DEF Rest
<1>11. octet' = Cardinality(Periods(text', i' - 1))
  <2>1. Periods(text, i) = Periods(text, i - 1) /\ i' - 1 = i
    BY <1>2, <1>3 DEF Periods
  <2> QED BY <1>2, <1>3, <2>1
<1>12. Acceptable(text', i' - 1)
  <2>1. i' - 1 = i
    BY <1>2, <1>3
  <2> QED BY <1>1, <1>3, <2>1, DigitKeepsAcceptable
<1>13. Judged'
  BY <1>2, <1>3, Results DEF Judged
<1> QED BY <1>2, <1>3, <1>8, <1>9, <1>10, <1>11, <1>12, <1>13, Results DEF ParseInv, Scanned

LEMMA TakePeriodStep == ASSUME ParseInv, TakePeriod PROVE ParseInv'
<1>1. Turn /\ FitsPeriod
  BY TurnStarts DEF TakePeriod
<1>2. /\ ParseTypeOK /\ Octet /\ Rest /\ i \in 1 .. Len(text) /\ Len(text) \in Nat
      /\ text[i] = Dot /\ octet < 3 /\ octet = Cardinality(Periods(text, i - 1))
      /\ result = Parsing
  BY <1>1 DEF Turn, Scanned, FitsPeriod, AtChar
<1>3. /\ buf' = buf /\ pos' = 0 /\ i' = i + 1 /\ i' - 1 = i
      /\ text' = text /\ octet' = octet + 1 /\ result' = result
  BY <1>2 DEF TakePeriod
<1>4. octet \in 0 .. 2
  BY <1>2 DEF ParseTypeOK
<1>5. ParseTypeOK'
  BY <1>2, <1>3, <1>4 DEF ParseTypeOK
<1>6. buf'[octet'] = 0 /\ Rest'
  BY <1>2, <1>3, <1>4 DEF Rest
<1>7. Octet'
  BY <1>2, <1>3, <1>6 DEF Octet
<1>8. octet' = Cardinality(Periods(text', i' - 1))
  <2>1. i - 1 \in Nat /\ (i - 1) + 1 = i
    BY <1>2
  <2> QED BY <1>2, <1>3, <2>1, PeriodsNext
<1>9. Acceptable(text', i' - 1)
  BY <1>1, <1>3, PeriodKeepsAcceptable
<1>10. Judged'
  BY <1>2, <1>3, Results DEF Judged
<1> QED BY <1>2, <1>3, <1>5, <1>6, <1>7, <1>8, <1>9, <1>10, Results DEF ParseInv, Scanned

LEMMA RejectStep == ASSUME ParseInv, Reject PROVE ParseInv'
<1>1. Turn
  BY TurnStarts DEF Reject
<1>2. ~Acceptable(text, Len(text))
  BY <1>1, RejectedIsNotAcceptable
<1>3. UNCHANGED <<text, i, buf, pos, octet>> /\ result' = Nullopt
  BY DEF Reject
<1>4. ParseTypeOK'
  BY <1>3 DEF ParseInv, ParseTypeOK
<1>5. Judged'
  BY <1>2, <1>3, Results DEF Judged
<1> QED BY <1>3, <1>4, <1>5, Results DEF ParseInv

LEMMA AcceptStep == ASSUME ParseInv, Accept PROVE ParseInv'
<1>1. /\ ParseTypeOK /\ Acceptable(text, i - 1) /\ i > Len(text)
      /\ UNCHANGED <<text, i, buf, pos, octet>>
      /\ result' = [k \in 0 .. 3 |-> buf[k] % 256]
  BY DEF ParseInv, Accept, Scanned
<1>2. result' \in Address
  <2>1. \A k \in 0 .. 3 : buf[k] \in Byte
    BY <1>1 DEF ParseTypeOK
  <2>2. \A n \in Byte : n % 256 \in Byte
    BY DEF Byte
  <2> QED BY <1>1, <2>1, <2>2 DEF Address
<1>3. i - 1 = Len(text)
  BY <1>1, Typed DEF ParseTypeOK
<1>4. ParseTypeOK'
  BY <1>1, <1>2 DEF ParseTypeOK
<1>5. result' # Nullopt /\ result' # Idle /\ result' # Parsing
  BY <1>2, Results
<1>6. Judged'
  BY <1>1, <1>3, <1>5 DEF Judged
<1> QED BY <1>4, <1>5, <1>6 DEF ParseInv

LEMMA ParseStep == ParseInv /\ [ParseNext]_parse => ParseInv'
<1> SUFFICES ASSUME ParseInv, [ParseNext]_parse PROVE ParseInv'
  OBVIOUS
<1>1. CASE UNCHANGED parse
  BY <1>1 DEF parse, ParseInv, ParseTypeOK, Scanned, Octet, Rest, Judged
<1> QED
  BY <1>1, FromStep, TakeDigitStep, TakePeriodStep, RejectStep, AcceptStep DEF ParseNext

LEMMA ParseInvariance == ParseSpec => []ParseInv
BY ParseStarts, ParseStep, PTL DEF ParseSpec

-----------------------------------------------------------------------------
(* The parser's state is well typed: no buffered octet ever exceeds 255,   *)
(* and no index of the buffer its four elements, for any text.             *)
THEOREM BufferBounded == ParseSpec => []ParseTypeOK
<1>1. ParseInv => ParseTypeOK
  BY DEF ParseInv
<1> QED BY <1>1, ParseInvariance, PTL

(* Ipv4Addr::from accepts every text of three periods, each behind a       *)
(* digit, with no more than three digits in a row and no octet above 255,  *)
(* and no other text of three periods or more, whatever their length.      *)
THEOREM AcceptsTheDocumented == ParseSpec => []JudgesWholeTexts
<1>1. ParseInv => JudgesWholeTexts
  <2> SUFFICES ASSUME ParseInv PROVE JudgesWholeTexts
    OBVIOUS
  <2>1. PeriodCount(text) \in Nat
    BY Typed, PeriodsFinite DEF ParseInv, PeriodCount
  <2>2. Acceptable(text, Len(text)) => PeriodCount(text) <= 3
    BY DEF Acceptable, PeriodCount
  <2> QED BY <2>1, <2>2 DEF ParseInv, Judged, JudgesWholeTexts, AsDocumented
<1> QED BY <1>1, ParseInvariance, PTL

(* operator< of Ipv4Addr compares the wrong octets in one place, but is    *)
(* still a strict partial order: nothing is below itself, and it is        *)
(* transitive.                                                             *)
THEOREM LessIsStrictOrder ==
  ASSUME NEW a \in Address, NEW b \in Address, NEW c \in Address
  PROVE  ~Less(a, a) /\ (Less(a, b) /\ Less(b, c) => Less(a, c))
<1>1. \A k \in 0 .. 3 : a[k] \in Int /\ b[k] \in Int /\ c[k] \in Int
  BY SMTT(60) DEF Address, Byte
<1>2. /\ a[0] \in Int /\ a[1] \in Int /\ a[2] \in Int /\ a[3] \in Int
      /\ b[0] \in Int /\ b[1] \in Int /\ b[2] \in Int /\ b[3] \in Int
      /\ c[0] \in Int /\ c[1] \in Int /\ c[2] \in Int /\ c[3] \in Int
  BY <1>1
<1> QED BY ONLY <1>2 DEF Less

-----------------------------------------------------------------------------
(* Which period is the k-th, and where a field begins. *)

LEMMA Four == \A k : k \in 0 .. 3 <=> k \in {0, 1, 2, 3}
OBVIOUS

LEMMA PeriodNoIs ==
  ASSUME NEW s \in Seq(Char), NEW m \in Periods(s, Len(s))
  PROVE  PeriodNo(s, Cardinality(Periods(s, m))) = m
<1>1. Len(s) \in Nat
  BY LenProperties
<1> DEFINE k == Cardinality(Periods(s, m))
<1>2. ASSUME NEW p \in Periods(s, Len(s)), NEW q \in Periods(s, Len(s)), p < q
      PROVE  Cardinality(Periods(s, p)) < Cardinality(Periods(s, q))
  <2>1. /\ p \in Nat /\ q \in Nat /\ q - 1 \in Nat /\ p <= q - 1 /\ q - 1 + 1 = q
        /\ s[q] = Dot
    BY <1>1, <1>2 DEF Periods
  <2>2. Cardinality(Periods(s, p)) <= Cardinality(Periods(s, q - 1))
    BY <2>1, PeriodsMonotone
  <2>3. Cardinality(Periods(s, q)) = Cardinality(Periods(s, q - 1)) + 1
    BY <2>1, PeriodsNext
  <2> QED BY <2>1, <2>2, <2>3, PeriodsFinite
<1>3. ASSUME NEW p \in Periods(s, Len(s)), Cardinality(Periods(s, p)) = k PROVE p = m
  <2>1. p \in Nat /\ m \in Nat
    BY DEF Periods
  <2>2. ~(k < k)
    BY <2>1, PeriodsFinite
  <2> QED BY <1>2, <1>3, <2>1, <2>2
<1> QED BY <1>3 DEF PeriodNo

Start(s, k) == IF k = 0 THEN 1 ELSE PeriodNo(s, k) + 1

(* The field being read begins behind the last period. *)
LEMMA FieldStarts ==
  ASSUME ParseTypeOK, Scanned PROVE Start(text, octet) = i - pos
<1>1. /\ Octet /\ i \in 1 .. Len(text) + 1 /\ text \in Seq(Char) /\ Len(text) \in Nat
      /\ octet = Cardinality(Periods(text, i - 1)) /\ pos \in 0 .. 3 /\ pos <= i - 1
  BY Typed DEF ParseTypeOK, Scanned, Octet
<1>2. \A m \in i - pos .. i - 1 : text[m] # Dot
  BY <1>1, Characters DEF Octet
<1>3. CASE pos = i - 1
  <2>1. Periods(text, i - 1) = {}
    BY <1>1, <1>2, <1>3 DEF Periods
  <2>2. octet = 0
    BY <1>1, <2>1, FS_EmptySet
  <2> QED BY <1>1, <1>3, <2>2 DEF Start
<1>4. CASE pos < i - 1
  <2> DEFINE m == i - 1 - pos
  <2>1. text[m] = Dot /\ m \in 1 .. Len(text) /\ m <= i - 1
    BY <1>1, <1>4 DEF Octet
  <2>2. Periods(text, m) = Periods(text, i - 1)
    BY <1>1, <1>2, <2>1 DEF Periods
  <2>3. m \in Periods(text, Len(text))
    BY <2>1 DEF Periods
  <2>4. PeriodNo(text, octet) = m
    BY <1>1, <2>2, <2>3, PeriodNoIs
  <2>5. octet # 0
    <3>1. m \in Periods(text, i - 1)
      BY <1>1, <2>1 DEF Periods
    <3> QED BY <1>1, <3>1, PeriodsFinite, FS_EmptySet, <1>1
  <2> QED BY <1>1, <2>4, <2>5 DEF Start
<1> QED BY <1>1, <1>3, <1>4

-----------------------------------------------------------------------------
(* The number of the digits of a text from one position to another. *)

LEMMA NumberOfLast ==
  ASSUME NEW s, NEW n \in Nat, NEW l \in 0 .. 3, \A m \in n + 1 .. n + l : s[m] \in Digit
  PROVE  Number(SubSeq(s, n + 1, n + l)) =
           (IF l >= 1 THEN s[n + l] ELSE 0) + 10 * (IF l >= 2 THEN s[n + l - 1] ELSE 0)
             + 100 * (IF l >= 3 THEN s[n + l - 2] ELSE 0)
<1> DEFINE d == SubSeq(s, n + 1, n + l)
<1>1. /\ Len(d) = IF n + 1 <= n + l THEN n + l - (n + 1) + 1 ELSE 0
      /\ \A j \in 1 .. n + l - (n + 1) + 1 : d[j] = s[n + 1 + j - 1]
  BY SubSeqProperties
<1>2. Len(d) = l
  BY <1>1
<1>3. \A j \in 1 .. l : d[j] = s[n + j]
  BY <1>1
<1> HIDE DEF d
<1>4. /\ l >= 1 => d[l + 1 - 1] = s[n + l]
      /\ l >= 2 => d[l + 1 - 2] = s[n + l - 1]
      /\ l >= 3 => d[l + 1 - 3] = s[n + l - 2]
  BY <1>3
<1>5. Number(d) = (IF 1 <= l THEN d[l + 1 - 1] ELSE 0) + 10 * (IF 2 <= l THEN d[l + 1 - 2] ELSE 0)
             + 100 * (IF 3 <= l THEN d[l + 1 - 3] ELSE 0)
  BY <1>2 DEF Number
<1>6. Number(d) = (IF l >= 1 THEN s[n + l] ELSE 0) + 10 * (IF l >= 2 THEN s[n + l - 1] ELSE 0)
             + 100 * (IF l >= 3 THEN s[n + l - 2] ELSE 0)
  BY <1>4, <1>5
<1> QED BY <1>6 DEF d

LEMMA OctetIsNumber ==
  ASSUME ParseTypeOK, Scanned
  PROVE  buf[octet] = Number(SubSeq(text, i - pos, i - 1))
<1>1. Octet /\ i \in Nat /\ pos \in 0 .. 3 /\ pos <= i - 1
  BY Typed DEF ParseTypeOK, Scanned, Octet
<1>2. PICK n \in Nat : n = i - 1 - pos
  BY <1>1
<1>3. n + 1 = i - pos /\ n + pos = i - 1
  BY <1>1, <1>2
<1>4. \A m \in n + 1 .. n + pos : text[m] \in Digit
  BY <1>1, <1>3 DEF Octet
<1>5. Number(SubSeq(text, n + 1, n + pos)) =
           (IF pos >= 1 THEN text[n + pos] ELSE 0) + 10 * (IF pos >= 2 THEN text[n + pos - 1] ELSE 0)
             + 100 * (IF pos >= 3 THEN text[n + pos - 2] ELSE 0)
  BY <1>1, <1>4, NumberOfLast
<1>6. n + pos = i - 1 /\ n + pos - 1 = i - 2 /\ n + pos - 2 = i - 3
  BY <1>1, <1>3
<1>7. /\ pos >= 1 => text[i - 1] \in Nat
      /\ pos >= 2 => text[i - 2] \in Nat
      /\ pos >= 3 => text[i - 3] \in Nat
  <2>1. /\ pos >= 1 => text[i - 1] \in Digit
        /\ pos >= 2 => text[i - 2] \in Digit
        /\ pos >= 3 => text[i - 3] \in Digit
    BY <1>1, <1>3, <1>4, <1>6
  <2> QED BY <2>1, Numbers
<1>8. /\ pos = 0 => buf[octet] = 0
      /\ pos = 1 => buf[octet] = text[i - 1]
      /\ pos = 2 => buf[octet] = 10 * text[i - 2] + text[i - 1]
      /\ pos = 3 => buf[octet] = 100 * text[i - 3] + 10 * text[i - 2] + text[i - 1]
  BY <1>1 DEF Octet
<1>9. pos = 0 \/ pos = 1 \/ pos = 2 \/ pos = 3
  BY <1>1
<1>10. CASE pos = 0
  BY <1>3, <1>5, <1>8, <1>10
<1>11. CASE pos = 1
  BY <1>3, <1>5, <1>6, <1>7, <1>8, <1>11
<1>12. CASE pos = 2
  BY <1>3, <1>5, <1>6, <1>7, <1>8, <1>12
<1>13. CASE pos = 3
  BY <1>3, <1>5, <1>6, <1>7, <1>8, <1>13
<1> QED BY <1>9, <1>10, <1>11, <1>12, <1>13

-----------------------------------------------------------------------------
(* The octets behind which a period was seen are the numbers of their fields. *)

Read(s, k) == SubSeq(s, Start(s, k), PeriodNo(s, k + 1) - 1)

Prior == \A k \in 0 .. 3 : k < octet => buf[k] = Number(Read(text, k))

ReadInv ==
  /\ ParseInv
  /\ result \in {Idle, Parsing} => Prior
  /\ ReadsItsText

LEMMA FieldIs ==
  ASSUME NEW s, NEW k
  PROVE  LET n == Cardinality(Periods(s, Len(s))) IN
           /\ k > n => Field(s, k) = <<>>
           /\ ~(k > n) /\ k = n => Field(s, k) = SubSeq(s, Start(s, k), Len(s))
           /\ ~(k > n) /\ k # n => Field(s, k) = Read(s, k)
<1>1. CASE k = 0
  BY <1>1 DEF Field, Read, Start
<1>2. CASE k # 0
  BY <1>2 DEF Field, Read, Start
<1> QED BY <1>1, <1>2

LEMMA ReadStarts == ParseInit => ReadInv
<1>1. ParseInit => Prior /\ result \notin Address
  BY Results DEF ParseInit, Prior
<1> QED BY <1>1, ParseStarts DEF ReadInv, ReadsItsText

LEMMA ReadFrom == ASSUME ReadInv, NEW t \in Text, From(t) PROVE ReadInv'
<1>1. ParseInv'
  BY FromStep DEF ReadInv
<1>2. octet' = 0 /\ result' \notin Address
  BY Results DEF ReadInv, ParseInv, From
<1> QED BY <1>1, <1>2 DEF ReadInv, Prior, ReadsItsText

LEMMA ReadDigit == ASSUME ReadInv, TakeDigit PROVE ReadInv'
<1>1. ParseInv'
  BY TakeDigitStep DEF ReadInv
<1>2. /\ Prior /\ octet' = octet /\ text' = text /\ result' = Parsing
      /\ \A k \in 0 .. 3 : k # octet => buf'[k] = buf[k]
      /\ octet \in 0 .. 3
  BY DEF ReadInv, ParseInv, ParseTypeOK, TakeDigit, AtChar
<1>3. Prior'
  BY <1>2 DEF Prior
<1> QED BY <1>1, <1>2, <1>3, Results DEF ReadInv, ReadsItsText

LEMMA ReadPeriod == ASSUME ReadInv, TakePeriod PROVE ReadInv'
<1>1. ParseInv'
  BY TakePeriodStep DEF ReadInv
<1>2. Turn /\ ParseTypeOK /\ Scanned /\ FitsPeriod /\ text \in Seq(Char)
  BY TurnStarts, Typed DEF ReadInv, TakePeriod, Turn
<1>3. /\ Prior /\ octet' = octet + 1 /\ text' = text /\ result' = Parsing /\ buf' = buf
      /\ octet \in 0 .. 3 /\ text[i] = Dot /\ i \in 1 .. Len(text) /\ Len(text) \in Nat
      /\ octet = Cardinality(Periods(text, i - 1))
  BY <1>2 DEF ReadInv, ParseTypeOK, TakePeriod, AtChar, FitsPeriod, Turn, Scanned
<1>4. PeriodNo(text, octet + 1) = i
  <2>1. i \in Periods(text, Len(text)) /\ i - 1 \in Nat /\ i - 1 + 1 = i
    BY <1>3 DEF Periods
  <2>2. Cardinality(Periods(text, i)) = octet + 1
    BY <1>3, <2>1, PeriodsNext
  <2> QED BY <1>2, <2>1, <2>2, PeriodNoIs
<1>5. buf[octet] = Number(Read(text, octet))
  BY <1>2, <1>4, FieldStarts, OctetIsNumber DEF Read
<1>6. Prior'
  <2> SUFFICES ASSUME NEW k \in 0 .. 3, k < octet + 1 PROVE buf[k] = Number(Read(text, k))
    BY <1>3 DEF Prior
  <2> QED BY <1>3, <1>5 DEF Prior
<1> QED BY <1>1, <1>3, <1>6, Results DEF ReadInv, ReadsItsText

LEMMA ReadReject == ASSUME ReadInv, Reject PROVE ReadInv'
<1>1. ParseInv'
  BY RejectStep DEF ReadInv
<1>2. result' = Nullopt
  BY DEF Reject
<1> QED BY <1>1, <1>2, Results DEF ReadInv, ReadsItsText

LEMMA ReadAccept == ASSUME ReadInv, Accept PROVE ReadInv'
<1>1. ParseInv'
  BY AcceptStep DEF ReadInv
<1>2. /\ ParseTypeOK /\ Scanned /\ Prior /\ Rest /\ i > Len(text) /\ text' = text
      /\ result' = [k \in 0 .. 3 |-> buf[k] % 256]
      /\ text \in Seq(Char) /\ Len(text) \in Nat
  BY Typed DEF ReadInv, ParseInv, Accept, Scanned
<1>3. i - 1 = Len(text) /\ octet = Cardinality(Periods(text, Len(text))) /\ octet \in 0 .. 3
  BY <1>2 DEF ParseTypeOK, Scanned
<1>4. ASSUME NEW k \in 0 .. 3 PROVE buf[k] % 256 = Number(Field(text, k))
  <2>1. buf[k] % 256 = buf[k]
    <3>1. buf[k] \in Byte
      BY <1>2 DEF ParseTypeOK
    <3> QED BY <3>1 DEF Byte
  <2>2. CASE k < octet
    <3>1. Field(text, k) = Read(text, k)
      BY <1>3, <2>2, FieldIs
    <3> QED BY <1>2, <2>1, <2>2, <3>1 DEF Prior
  <2>3. CASE k = octet
    <3>1. Field(text, k) = SubSeq(text, Start(text, octet), Len(text))
      BY <1>3, <2>3, FieldIs
    <3> QED BY <1>2, <1>3, <2>1, <2>3, <3>1, FieldStarts, OctetIsNumber
  <2>4. CASE k > octet
    <3>1. Field(text, k) = <<>>
      BY <1>3, <2>4, FieldIs
    <3>2. Number(<<>>) = 0
      <4>1. Len(<<>>) = 0
        BY EmptySeq
      <4> QED BY <4>1 DEF Number
    <3>3. buf[k] = 0
      BY <1>2, <2>4 DEF Rest
    <3> QED BY <2>1, <3>1, <3>2, <3>3
  <2> QED BY <1>3, <2>2, <2>3, <2>4
<1>5. result' = [k \in 0 .. 3 |-> Number(Field(text, k))]
  BY <1>2, <1>4
<1>6. ReadsItsText'
  BY <1>2, <1>5 DEF ReadsItsText, Field, PeriodNo
<1>7. result' \notin {Idle, Parsing}
  <2>1. result' \in Address
    <3>1. \A k \in 0 .. 3 : buf[k] % 256 \in Byte
      <4>1. \A k \in 0 .. 3 : buf[k] \in Byte
        BY <1>2 DEF ParseTypeOK
      <4>2. \A n \in Byte : n % 256 \in Byte
        BY DEF Byte
      <4> QED BY <4>1, <4>2
    <3> QED BY <1>2, <3>1 DEF Address
  <2> QED BY <2>1, Results
<1> QED BY <1>1, <1>6, <1>7 DEF ReadInv

LEMMA ReadStep == ASSUME ReadInv, [ParseNext]_parse PROVE ReadInv'
<1>1. CASE UNCHANGED parse
  <2>1. ParseInv'
    BY <1>1, ParseStep DEF ReadInv
  <2>2. UNCHANGED <<text, i, buf, pos, octet, result>>
    BY <1>1 DEF parse
  <2>3. (result' \in {Idle, Parsing} => Prior') /\ ReadsItsText'
    BY <2>2 DEF ReadInv, Prior, Read, Start, PeriodNo, Field, ReadsItsText
  <2> QED BY <2>1, <2>3 DEF ReadInv
<1> QED
  BY <1>1, ReadFrom, ReadDigit, ReadPeriod, ReadReject, ReadAccept DEF ParseNext

LEMMA ReadInvariance == ParseSpec => []ReadInv
BY ReadStarts, ReadStep, PTL DEF ParseSpec

-----------------------------------------------------------------------------
(* The text of an address: where its octets and its periods are. *)

LEMMA DecimalDenotes ==
  ASSUME NEW n \in Byte
  PROVE  /\ Decimal(n) \in Seq(Digit) /\ Len(Decimal(n)) \in 1 .. 3
         /\ Len(Decimal(n)) = 1 => Decimal(n)[1] = n
         /\ Len(Decimal(n)) = 2 => 10 * Decimal(n)[1] + Decimal(n)[2] = n
         /\ Len(Decimal(n)) = 3 => 100 * Decimal(n)[1] + 10 * Decimal(n)[2] + Decimal(n)[3] = n
<1>1. n \in Nat /\ n <= 255
  BY DEF Byte
<1>2. CASE n < 10
  BY <1>1, <1>2 DEF Decimal, Digit
<1>3. CASE n >= 10 /\ n < 100
  <2> DEFINE x == n \div 10
             y == n % 10
  <2>1. x \in Nat /\ y \in Nat /\ y <= 9
    BY <1>1
  <2>2. x <= 9
    BY <1>1, <1>3
  <2>3. 10 * x + y = n
    BY <1>1
  <2>4. Decimal(n) = <<x, y>>
    BY <1>1, <1>3 DEF Decimal
  <2> HIDE DEF x, y
  <2>5. x \in Digit /\ y \in Digit
    BY <2>1, <2>2 DEF Digit
  <2> QED BY <2>3, <2>4, <2>5
<1>4. CASE n >= 100
  <2> DEFINE w == n \div 100
             x == n \div 10 % 10
             y == n % 10
             t == n \div 10
  <2>1. w \in Nat /\ x \in Nat /\ x <= 9 /\ y \in Nat /\ y <= 9
    BY <1>1
  <2>2. w <= 9
    BY <1>1
  <2>3. n = 10 * t + y
    BY <1>1
  <2>4. t = 10 * w + x
    BY <1>1
  <2>5. Decimal(n) = <<w, x, y>>
    BY <1>1, <1>4 DEF Decimal
  <2>6. t \in Nat
    BY <1>1
  <2> HIDE DEF w, x, y, t
  <2>7. w \in Digit /\ x \in Digit /\ y \in Digit
    BY <2>1, <2>2 DEF Digit
  <2>8. 100 * w + 10 * x + y = n
    BY <1>1, <2>1, <2>3, <2>4, <2>6
  <2> QED BY <2>5, <2>7, <2>8
<1> QED BY <1>1, <1>2, <1>3, <1>4

(* A text, a period and one octet more. *)
LEMMA Extended ==
  ASSUME NEW s \in Seq(Char), NEW d \in Seq(Digit)
  PROVE  LET t == s \o <<Dot>> \o d IN
         /\ t \in Seq(Char) /\ Len(t) = Len(s) + 1 + Len(d)
         /\ \A j \in 1 .. Len(s) : t[j] = s[j]
         /\ t[Len(s) + 1] = Dot
         /\ \A j \in 1 .. Len(d) : t[Len(s) + 1 + j] = d[j]
<1> DEFINE u == s \o <<Dot>>
           t == s \o <<Dot>> \o d
<1>1. Len(s) \in Nat /\ Len(d) \in Nat
  BY LenProperties
<1>2. <<Dot>> \in Seq(Char) /\ Len(<<Dot>>) = 1 /\ <<Dot>>[1] = Dot
  BY DEF Char
<1>3. d \in Seq(Char)
  <2>1. Digit \subseteq Char
    BY DEF Char
  <2>2. d \in [1 .. Len(d) -> Digit]
    BY LenProperties
  <2> QED BY <1>1, <2>1, <2>2
<1>4. u \in Seq(Char) /\ Len(u) = Len(s) + 1
  BY <1>2, ConcatProperties
<1>5. \A j \in 1 .. Len(s) + 1 : u[j] = IF j <= Len(s) THEN s[j] ELSE <<Dot>>[j - Len(s)]
  BY <1>2, ConcatProperties
<1>6. (\A j \in 1 .. Len(s) : u[j] = s[j]) /\ u[Len(s) + 1] = Dot
  <2>1. Len(s) + 1 - Len(s) = 1 /\ ~(Len(s) + 1 <= Len(s)) /\ Len(s) + 1 \in 1 .. Len(s) + 1
    BY <1>1
  <2> QED BY <1>1, <1>2, <1>5, <2>1
<1>7. t = u \o d
  OBVIOUS
<1> HIDE DEF u, t
<1>8. /\ t \in Seq(Char) /\ Len(t) = Len(u) + Len(d)
      /\ \A j \in 1 .. Len(u) + Len(d) : t[j] = IF j <= Len(u) THEN u[j] ELSE d[j - Len(u)]
  BY <1>3, <1>4, <1>7, ConcatProperties
<1>9. \A j \in 1 .. Len(u) : t[j] = u[j]
  BY <1>1, <1>4, <1>8
<1>10. ASSUME NEW j \in 1 .. Len(d) PROVE t[Len(u) + j] = d[j]
  <2>1. Len(u) + j \in 1 .. Len(u) + Len(d) /\ ~(Len(u) + j <= Len(u)) /\ Len(u) + j - Len(u) = j
    BY <1>1, <1>4
  <2> QED BY <1>8, <2>1
<1> QED BY <1>1, <1>4, <1>6, <1>8, <1>9, <1>10 DEF t

(* Four fields of one to three digits between periods. *)
LaidOut(s, d, l, p) ==
  /\ s \in Seq(Char)
  /\ d \in [0 .. 3 -> Seq(Digit)] /\ l \in [0 .. 3 -> 1 .. 3] /\ \A k \in 0 .. 3 : Len(d[k]) = l[k]
  /\ p \in [0 .. 4 -> Nat] /\ p[0] = 0 /\ p[4] = Len(s) + 1
  /\ \A k \in 0 .. 3 : p[k + 1] = p[k] + l[k] + 1
  /\ \A k \in 1 .. 3 : s[p[k]] = Dot
  /\ \A k \in 0 .. 3 : \A j \in 1 .. l[k] : s[p[k] + j] = d[k][j]

Decimals(a) == [k \in 0 .. 3 |-> Decimal(a[k])]
Lengths(a) == [k \in 0 .. 3 |-> Len(Decimal(a[k]))]

LEMMA TextIsLaidOut ==
  ASSUME NEW a \in Address PROVE \E p : LaidOut(TextOf(a), Decimals(a), Lengths(a), p)
<1> DEFINE d0 == Decimal(a[0])
           d1 == Decimal(a[1])
           d2 == Decimal(a[2])
           d3 == Decimal(a[3])
           s1 == d0 \o <<Dot>> \o d1
           s2 == s1 \o <<Dot>> \o d2
           s3 == s2 \o <<Dot>> \o d3
           d == Decimals(a)
           l == Lengths(a)
<1>1. \A k \in 0 .. 3 : a[k] \in Byte
  BY DEF Address
<1>2. /\ d \in [0 .. 3 -> Seq(Digit)] /\ \A k \in 0 .. 3 : Len(d[k]) \in 1 .. 3
      /\ d[0] = d0 /\ d[1] = d1 /\ d[2] = d2 /\ d[3] = d3
  BY <1>1, DecimalDenotes DEF Decimals
<1>3. /\ d0 \in Seq(Digit) /\ d1 \in Seq(Digit) /\ d2 \in Seq(Digit) /\ d3 \in Seq(Digit)
      /\ Len(d0) \in 1 .. 3 /\ Len(d1) \in 1 .. 3 /\ Len(d2) \in 1 .. 3 /\ Len(d3) \in 1 .. 3
  BY <1>2
<1>4. d0 \in Seq(Char)
  <2>1. Digit \subseteq Char
    BY DEF Char
  <2>2. d0 \in [1 .. Len(d0) -> Digit] /\ Len(d0) \in Nat
    BY <1>3, LenProperties
  <2> QED BY <2>1, <2>2
<1>5. TextOf(a) = s3
  BY DEF TextOf
<1>20. l \in [0 .. 3 -> 1 .. 3] /\ \A k \in 0 .. 3 : Len(d[k]) = l[k]
  BY <1>1, DecimalDenotes DEF Lengths, Decimals
<1> HIDE DEF d0, d1, d2, d3, d, l
<1>6. /\ s1 \in Seq(Char) /\ Len(s1) = Len(d0) + 1 + Len(d1)
      /\ \A j \in 1 .. Len(d0) : s1[j] = d0[j]
      /\ s1[Len(d0) + 1] = Dot
      /\ \A j \in 1 .. Len(d1) : s1[Len(d0) + 1 + j] = d1[j]
  BY <1>3, <1>4, Extended
<1> HIDE DEF s1
<1>7. /\ s2 \in Seq(Char) /\ Len(s2) = Len(s1) + 1 + Len(d2)
      /\ \A j \in 1 .. Len(s1) : s2[j] = s1[j]
      /\ s2[Len(s1) + 1] = Dot
      /\ \A j \in 1 .. Len(d2) : s2[Len(s1) + 1 + j] = d2[j]
  BY <1>3, <1>6, Extended
<1> HIDE DEF s2
<1>8. /\ s3 \in Seq(Char) /\ Len(s3) = Len(s2) + 1 + Len(d3)
      /\ \A j \in 1 .. Len(s2) : s3[j] = s2[j]
      /\ s3[Len(s2) + 1] = Dot
      /\ \A j \in 1 .. Len(d3) : s3[Len(s2) + 1 + j] = d3[j]
  BY <1>3, <1>7, Extended
<1> HIDE DEF s3
<1> DEFINE p == [k \in 0 .. 4 |->
             CASE k = 0 -> 0 [] k = 1 -> Len(d0) + 1 [] k = 2 -> Len(s1) + 1
               [] k = 3 -> Len(s2) + 1 [] OTHER -> Len(s3) + 1]
<1>9. /\ Len(d0) \in Nat /\ Len(d1) \in Nat /\ Len(d2) \in Nat /\ Len(d3) \in Nat
      /\ Len(s1) \in Nat /\ Len(s2) \in Nat /\ Len(s3) \in Nat
  BY <1>3, <1>6, <1>7, <1>8
<1>10. /\ p \in [0 .. 4 -> Nat] /\ p[0] = 0 /\ p[1] = Len(d0) + 1 /\ p[2] = Len(s1) + 1
       /\ p[3] = Len(s2) + 1 /\ p[4] = Len(s3) + 1
  BY <1>9
<1> HIDE DEF p
<1>11. ASSUME NEW k \in 0 .. 3 PROVE p[k + 1] = p[k] + Len(d[k]) + 1
  <2>1. /\ p[1] = p[0] + Len(d[0]) + 1 /\ p[2] = p[1] + Len(d[1]) + 1
        /\ p[3] = p[2] + Len(d[2]) + 1 /\ p[4] = p[3] + Len(d[3]) + 1
    BY <1>2, <1>6, <1>7, <1>8, <1>9, <1>10
  <2>2. 0 + 1 = 1 /\ 1 + 1 = 2 /\ 2 + 1 = 3 /\ 3 + 1 = 4
    OBVIOUS
  <2>3. k = 0 \/ k = 1 \/ k = 2 \/ k = 3
    OBVIOUS
  <2> QED BY <2>1, <2>2, <2>3
<1>12. (\A j \in 1 .. Len(s2) : s3[j] = s2[j]) /\ (\A j \in 1 .. Len(s1) : s3[j] = s1[j])
  BY <1>7, <1>8, <1>9
<1>13. s3[p[1]] = Dot /\ s3[p[2]] = Dot /\ s3[p[3]] = Dot
  <2>1. Len(d0) + 1 \in 1 .. Len(s1) /\ Len(s1) + 1 \in 1 .. Len(s2)
    BY <1>6, <1>7, <1>9
  <2> QED BY <1>6, <1>7, <1>8, <1>10, <1>12, <2>1, SMTT(40)
<1>14. ASSUME NEW j \in 1 .. Len(d0) PROVE s3[p[0] + j] = d0[j]
  <2>1. j \in 1 .. Len(s1) /\ 0 + j = j
    BY <1>6, <1>9
  <2> QED BY <1>6, <1>10, <1>12, <2>1
<1>15. ASSUME NEW j \in 1 .. Len(d1) PROVE s3[p[1] + j] = d1[j]
  <2>1. Len(d0) + 1 + j \in 1 .. Len(s1)
    BY <1>6, <1>9
  <2> QED BY <1>6, <1>10, <1>12, <2>1
<1>16. ASSUME NEW j \in 1 .. Len(d2) PROVE s3[p[2] + j] = d2[j]
  <2>1. Len(s1) + 1 + j \in 1 .. Len(s2)
    BY <1>7, <1>9
  <2> QED BY <1>7, <1>10, <1>12, <2>1
<1>17. \A k \in 0 .. 3 : \A j \in 1 .. Len(d[k]) : s3[p[k] + j] = d[k][j]
  <2>1. \A j \in 1 .. Len(d3) : s3[p[3] + j] = d3[j]
    BY <1>8, <1>10
  <2> QED BY <1>2, <1>14, <1>15, <1>16, <2>1, Four
<1>18. \A k \in 1 .. 3 : s3[p[k]] = Dot
  BY <1>13
<1>19. LaidOut(s3, d, l, p)
  <2>1. \A k \in 0 .. 3 : p[k + 1] = p[k] + l[k] + 1
    BY <1>11, <1>20
  <2>2. \A k \in 0 .. 3 : \A j \in 1 .. l[k] : s3[p[k] + j] = d[k][j]
    BY <1>17, <1>20
  <2> QED BY <1>2, <1>8, <1>10, <1>18, <1>20, <2>1, <2>2 DEF LaidOut
<1> QED BY <1>5, <1>19 DEF d, l

LEMMA FieldPlace ==
  ASSUME NEW s, NEW d, NEW l, NEW p, LaidOut(s, d, l, p)
  PROVE  \A k \in 0 .. 3 :
         /\ p[k] \in Nat /\ p[k + 1] \in Nat /\ p[k + 1] = p[k] + l[k] + 1
         /\ d[k] \in Seq(Digit) /\ l[k] \in 1 .. 3 /\ Len(d[k]) = l[k]
<1>0. SUFFICES ASSUME NEW k \in 0 .. 3
      PROVE /\ p[k] \in Nat /\ p[k + 1] \in Nat /\ p[k + 1] = p[k] + l[k] + 1
            /\ d[k] \in Seq(Digit) /\ l[k] \in 1 .. 3 /\ Len(d[k]) = l[k]
  OBVIOUS
<1>1. p \in [0 .. 4 -> Nat] /\ d \in [0 .. 3 -> Seq(Digit)]
  BY DEF LaidOut
<1>2. p[k] \in Nat /\ p[k + 1] \in Nat /\ d[k] \in Seq(Digit)
  BY <1>1
<1>3. p[k + 1] = p[k] + l[k] + 1
  BY DEF LaidOut
<1>4. l \in [0 .. 3 -> 1 .. 3] /\ Len(d[k]) = l[k]
  BY DEF LaidOut
<1> QED BY <1>2, <1>3, <1>4

LEMMA FieldDigits ==
  ASSUME NEW s, NEW d, NEW l, NEW p, LaidOut(s, d, l, p)
  PROVE  \A k \in 0 .. 3 : \A j \in 1 .. l[k] : s[p[k] + j] = d[k][j]
BY DEF LaidOut

LEMMA PlacesOf ==
  ASSUME NEW s, NEW d, NEW l, NEW p, LaidOut(s, d, l, p)
  PROVE  /\ s \in Seq(Char) /\ Len(s) \in Nat
         /\ p[0] = 0 /\ p[1] \in Nat /\ p[2] \in Nat /\ p[3] \in Nat /\ p[4] = Len(s) + 1
         /\ p[0] + 1 < p[1] /\ p[1] <= p[0] + 4
         /\ p[1] + 1 < p[2] /\ p[2] <= p[1] + 4
         /\ p[2] + 1 < p[3] /\ p[3] <= p[2] + 4
         /\ p[3] + 1 < p[4] /\ p[4] <= p[3] + 4
         /\ s[p[1]] = Dot /\ s[p[2]] = Dot /\ s[p[3]] = Dot
<1>1. ASSUME NEW k \in 0 .. 3 PROVE p[k] + 1 < p[k + 1] /\ p[k + 1] <= p[k] + 4
  <2>1. p[k] \in Nat /\ p[k + 1] = p[k] + l[k] + 1 /\ l[k] \in 1 .. 3
    BY FieldPlace
  <2> QED BY <2>1
<1>2. 0 + 1 = 1 /\ 1 + 1 = 2 /\ 2 + 1 = 3 /\ 3 + 1 = 4
  OBVIOUS
<1>3. s \in Seq(Char)
  BY DEF LaidOut
<1>4. Len(s) \in Nat
  BY <1>3, LenProperties
<1>5. p \in [0 .. 4 -> Nat] /\ p[0] = 0 /\ p[4] = Len(s) + 1
  BY DEF LaidOut
<1>6. p[1] \in Nat /\ p[2] \in Nat /\ p[3] \in Nat
  BY <1>5
<1>7. \A k \in 1 .. 3 : s[p[k]] = Dot
  BY DEF LaidOut
<1>8. s[p[1]] = Dot /\ s[p[2]] = Dot /\ s[p[3]] = Dot
  BY <1>7
<1>9. /\ p[0] + 1 < p[0 + 1] /\ p[0 + 1] <= p[0] + 4
      /\ p[1] + 1 < p[1 + 1] /\ p[1 + 1] <= p[1] + 4
      /\ p[2] + 1 < p[2 + 1] /\ p[2 + 1] <= p[2] + 4
      /\ p[3] + 1 < p[3 + 1] /\ p[3 + 1] <= p[3] + 4
  BY <1>1
<1> QED BY <1>2, <1>3, <1>4, <1>5, <1>6, <1>8, <1>9

(* Every position holds a digit of a field or one of the three periods. *)
LEMMA DigitsOf ==
  ASSUME NEW s, NEW d, NEW l, NEW p, LaidOut(s, d, l, p), NEW k \in 0 .. 3, NEW m \in p[k] + 1 .. p[k + 1] - 1
  PROVE  s[m] \in Digit /\ s[m] # Dot /\ m - p[k] \in 1 .. l[k] /\ s[m] = d[k][m - p[k]]
<1>1. /\ p[k] \in Nat /\ p[k + 1] = p[k] + l[k] + 1 /\ l[k] \in 1 .. 3
      /\ d[k] \in Seq(Digit) /\ Len(d[k]) = l[k]
  <2>1. p[k] \in Nat /\ p[k + 1] = p[k] + l[k] + 1
    BY FieldPlace
  <2>2. l[k] \in 1 .. 3
    BY FieldPlace
  <2>3. d[k] \in Seq(Digit) /\ Len(d[k]) = l[k]
    BY FieldPlace
  <2> QED BY <2>1, <2>2, <2>3
<1>2. m - p[k] \in 1 .. l[k] /\ p[k] + (m - p[k]) = m
  BY <1>1
<1>3. s[m] = d[k][m - p[k]]
  <2>1. \A j \in 1 .. l[k] : s[p[k] + j] = d[k][j]
    BY FieldDigits
  <2> QED BY <1>1, <1>2, <2>1
<1>4. d[k][m - p[k]] \in Digit
  BY <1>1, <1>2, ElementOfSeq
<1> QED BY <1>2, <1>3, <1>4, Characters

LEMMA DotsOf ==
  ASSUME NEW s, NEW d, NEW l, NEW p, LaidOut(s, d, l, p), NEW m \in 1 .. Len(s)
  PROVE  /\ s[m] \in Digit \cup {Dot}
         /\ s[m] = Dot <=> m \in {p[1], p[2], p[3]}
<1>1. /\ Len(s) \in Nat
      /\ p[0] = 0 /\ p[1] \in Nat /\ p[2] \in Nat /\ p[3] \in Nat /\ p[4] = Len(s) + 1
      /\ s[p[1]] = Dot /\ s[p[2]] = Dot /\ s[p[3]] = Dot
  BY PlacesOf
<1>2. CASE m \in {p[1], p[2], p[3]}
  BY <1>1, <1>2
<1>3. CASE m \notin {p[1], p[2], p[3]}
  <2>1. \/ m \in p[0] + 1 .. p[0 + 1] - 1
        \/ m \in p[1] + 1 .. p[1 + 1] - 1
        \/ m \in p[2] + 1 .. p[2 + 1] - 1
        \/ m \in p[3] + 1 .. p[3 + 1] - 1
    <3>1. 0 + 1 = 1 /\ 1 + 1 = 2 /\ 2 + 1 = 3 /\ 3 + 1 = 4
      OBVIOUS
    <3>2. m < p[1] => m \in p[0] + 1 .. p[1] - 1
      BY <1>1
    <3>3. m > p[1] /\ m < p[2] => m \in p[1] + 1 .. p[2] - 1
      BY <1>1
    <3>4. m > p[2] /\ m < p[3] => m \in p[2] + 1 .. p[3] - 1
      BY <1>1
    <3>5. m > p[3] => m \in p[3] + 1 .. p[4] - 1
      BY <1>1
    <3> QED BY <1>1, <1>3, <3>1, <3>2, <3>3, <3>4, <3>5, SMTT(40)
  <2>2. \E k \in 0 .. 3 : m \in p[k] + 1 .. p[k + 1] - 1
    BY <2>1, Four
  <2> QED BY <1>3, <2>2, DigitsOf
<1> QED BY <1>2, <1>3

LEMMA PeriodsOf ==
  ASSUME NEW s, NEW d, NEW l, NEW p, LaidOut(s, d, l, p)
  PROVE  /\ PeriodNo(s, 1) = p[1] /\ PeriodNo(s, 2) = p[2] /\ PeriodNo(s, 3) = p[3]
         /\ Cardinality(Periods(s, Len(s))) = 3
<1>1. /\ Len(s) \in Nat /\ p[1] \in Nat /\ p[2] \in Nat /\ p[3] \in Nat
      /\ p[0] = 0 /\ p[4] = Len(s) + 1 /\ p[0] + 1 < p[1] /\ p[1] + 1 < p[2]
      /\ p[2] + 1 < p[3] /\ p[3] + 1 < p[4]
  BY PlacesOf
<1>2. p[1] >= 1 /\ p[1] < p[2] /\ p[2] < p[3] /\ p[3] <= Len(s)
  <2>1. p[1] >= 1
    BY <1>1
  <2>2. p[1] < p[2]
    BY <1>1
  <2>3. p[2] < p[3]
    BY <1>1
  <2>4. p[3] <= Len(s)
    BY <1>1
  <2> QED BY <2>1, <2>2, <2>3, <2>4
<1>3. \A m \in 1 .. Len(s) : s[m] = Dot <=> m \in {p[1], p[2], p[3]}
  BY DotsOf
<1> DEFINE one == {p[1]}
           two == one \cup {p[2]}
           three == two \cup {p[3]}
<1>4. /\ Periods(s, p[1]) = one /\ Periods(s, p[2]) = two
      /\ Periods(s, p[3]) = three /\ Periods(s, Len(s)) = three
  <2>1. ASSUME NEW n \in Nat, n <= Len(s)
        PROVE  \A m : m \in Periods(s, n) <=> m \in {p[1], p[2], p[3]} /\ m <= n
    <3>1. \A m : m \in 1 .. n => m \in 1 .. Len(s)
      BY <1>1, <2>1
    <3>2. \A m \in {p[1], p[2], p[3]} : m <= n => m \in 1 .. n
      BY <1>1, <1>2
    <3> QED BY <1>3, <3>1, <3>2 DEF Periods
  <2>2. /\ p[1] <= Len(s) /\ p[2] <= Len(s) /\ p[1] <= p[3] /\ p[1] <= p[1] /\ p[2] <= p[2]
        /\ p[3] <= p[3] /\ ~(p[2] <= p[1]) /\ ~(p[3] <= p[1]) /\ ~(p[3] <= p[2]) /\ Len(s) <= Len(s)
    BY <1>1, <1>2, SMTT(40)
  <2>3. \A m : m \in Periods(s, p[1]) <=> m = p[1]
    BY <1>1, <1>2, <2>1, <2>2, SMTT(40)
  <2>4. \A m : m \in Periods(s, p[2]) <=> m = p[1] \/ m = p[2]
    BY <1>1, <1>2, <2>1, <2>2, SMTT(40)
  <2>5. \A m : m \in Periods(s, p[3]) <=> m = p[1] \/ m = p[2] \/ m = p[3]
    BY <1>1, <1>2, <2>1, <2>2, SMTT(40)
  <2>6. \A m : m \in Periods(s, Len(s)) <=> m = p[1] \/ m = p[2] \/ m = p[3]
    BY <1>1, <1>2, <2>1, <2>2, SMTT(40)
  <2> QED BY <2>3, <2>4, <2>5, <2>6
<1>5. p[2] \notin one /\ p[3] \notin two
  <2>1. p[2] # p[1] /\ p[3] # p[1] /\ p[3] # p[2]
    BY <1>1, <1>2
  <2> QED BY <2>1
<1>6. /\ Cardinality(Periods(s, p[1])) = 1 /\ Cardinality(Periods(s, p[2])) = 2
      /\ Cardinality(Periods(s, p[3])) = 3 /\ Cardinality(Periods(s, Len(s))) = 3
  <2>1. IsFiniteSet(one) /\ Cardinality(one) = 1
    BY FS_Singleton
  <2> HIDE DEF one
  <2>2. IsFiniteSet(two) /\ Cardinality(two) = 2
    BY <1>5, <2>1, FS_AddElement
  <2> HIDE DEF two
  <2>3. Cardinality(three) = 3
    BY <1>5, <2>2, FS_AddElement
  <2> QED BY <1>4, <2>1, <2>2, <2>3
<1>7. p[1] \in Periods(s, Len(s)) /\ p[2] \in Periods(s, Len(s)) /\ p[3] \in Periods(s, Len(s))
  BY <1>4
<1>8. s \in Seq(Char)
  BY DEF LaidOut
<1>9. PeriodNo(s, 1) = p[1]
  BY <1>6, <1>7, <1>8, PeriodNoIs
<1>10. PeriodNo(s, 2) = p[2]
  BY <1>6, <1>7, <1>8, PeriodNoIs
<1>11. PeriodNo(s, 3) = p[3]
  BY <1>6, <1>7, <1>8, PeriodNoIs
<1> QED BY <1>6, <1>9, <1>10, <1>11

LEMMA FieldsOf ==
  ASSUME NEW s, NEW d, NEW l, NEW p, LaidOut(s, d, l, p), NEW k \in 0 .. 3
  PROVE  Field(s, k) = SubSeq(s, p[k] + 1, p[k] + l[k])
<1>1. /\ Len(s) \in Nat /\ p[0] = 0 /\ p[4] = Len(s) + 1
      /\ PeriodNo(s, 1) = p[1] /\ PeriodNo(s, 2) = p[2] /\ PeriodNo(s, 3) = p[3]
      /\ Cardinality(Periods(s, Len(s))) = 3
  BY PlacesOf, PeriodsOf
<1>2. Start(s, k) = p[k] + 1
  <2>1. k = 0 \/ k = 1 \/ k = 2 \/ k = 3
    OBVIOUS
  <2> QED BY <1>1, <2>1 DEF Start
<1>3. p[k] \in Nat /\ l[k] \in Nat /\ p[k + 1] = p[k] + l[k] + 1
  <2>1. p[k] \in Nat /\ l[k] \in 1 .. 3 /\ p[k + 1] = p[k] + l[k] + 1
    BY FieldPlace
  <2> QED BY <2>1
<1>4. CASE k = 3
  <2>1. p[k + 1] = Len(s) + 1
    BY <1>1, <1>4
  <2>2. p[k] + l[k] = Len(s)
    BY <1>1, <1>3, <2>1
  <2> QED BY <1>1, <1>2, <1>4, <2>2, FieldIs
<1>5. CASE k # 3
  <2>1. PeriodNo(s, k + 1) = p[k + 1]
    <3>1. k = 0 \/ k = 1 \/ k = 2
      BY <1>5
    <3>2. 0 + 1 = 1 /\ 1 + 1 = 2 /\ 2 + 1 = 3
      OBVIOUS
    <3> QED BY <1>1, <3>1, <3>2
  <2>2. PeriodNo(s, k + 1) - 1 = p[k] + l[k]
    BY <1>3, <2>1
  <2>3. Field(s, k) = Read(s, k)
    BY <1>1, <1>5, FieldIs
  <2> QED BY <1>2, <2>2, <2>3 DEF Read
<1> QED BY <1>4, <1>5

(* What a reader makes of a field is the octet it was printed from. *)
LEMMA FieldNumber ==
  ASSUME NEW s, NEW n \in Nat, NEW l \in 1 .. 3, NEW e \in [1 .. l -> Digit],
         \A j \in 1 .. l : s[n + j] = e[j]
  PROVE  LET number == Number(SubSeq(s, n + 1, n + l)) IN
         /\ l = 1 => number = e[1]
         /\ l = 2 => number = 10 * e[1] + e[2]
         /\ l = 3 => number = 100 * e[1] + 10 * e[2] + e[3]
<1>1. \A j \in 1 .. l : e[j] \in Digit /\ e[j] \in Nat
  BY Numbers
<1>2. \A m \in n + 1 .. n + l : s[m] \in Digit
  <2> SUFFICES ASSUME NEW m \in n + 1 .. n + l PROVE s[m] \in Digit
    OBVIOUS
  <2>1. m - n \in 1 .. l /\ n + (m - n) = m
    OBVIOUS
  <2> QED BY <1>1, <2>1
<1> DEFINE number == Number(SubSeq(s, n + 1, n + l))
<1>3. number =
        (IF l >= 1 THEN s[n + l] ELSE 0) + 10 * (IF l >= 2 THEN s[n + l - 1] ELSE 0)
          + 100 * (IF l >= 3 THEN s[n + l - 2] ELSE 0)
  <2>1. l \in 0 .. 3
    OBVIOUS
  <2> QED BY <1>2, <2>1, NumberOfLast
<1> HIDE DEF number
<1>4. l = 1 => number = e[1]
  <2> SUFFICES ASSUME l = 1 PROVE number = e[1]
    OBVIOUS
  <2>1. s[n + 1] = e[1] /\ e[1] \in Nat
    BY <1>1
  <2> QED BY <1>3, <2>1
<1>5. l = 2 => number = 10 * e[1] + e[2]
  <2> SUFFICES ASSUME l = 2 PROVE number = 10 * e[1] + e[2]
    OBVIOUS
  <2>1. s[n + 1] = e[1] /\ e[1] \in Nat /\ s[n + 2] = e[2] /\ e[2] \in Nat
    BY <1>1
  <2>2. n + 2 - 1 = n + 1
    OBVIOUS
  <2> QED BY <1>3, <2>1, <2>2
<1>6. l = 3 => number = 100 * e[1] + 10 * e[2] + e[3]
  <2> SUFFICES ASSUME l = 3 PROVE number = 100 * e[1] + 10 * e[2] + e[3]
    OBVIOUS
  <2>1. /\ s[n + 1] = e[1] /\ e[1] \in Nat /\ s[n + 2] = e[2] /\ e[2] \in Nat
        /\ s[n + 3] = e[3] /\ e[3] \in Nat
    BY <1>1
  <2>2. n + 3 - 1 = n + 2 /\ n + 3 - 2 = n + 1
    OBVIOUS
  <2> QED BY <1>3, <2>1, <2>2
<1> QED BY <1>4, <1>5, <1>6 DEF number

LEMMA OctetsOf ==
  ASSUME NEW a \in Address, NEW p, LaidOut(TextOf(a), Decimals(a), Lengths(a), p), NEW k \in 0 .. 3
  PROVE  Number(Field(TextOf(a), k)) = a[k]
<1> DEFINE s == TextOf(a)
           e == Decimal(a[k])
           l == Len(e)
<1>1. Decimals(a)[k] = e /\ Lengths(a)[k] = l /\ a[k] \in Byte
  BY DEF Decimals, Lengths, Address
<1>2. /\ e \in Seq(Digit) /\ l \in 1 .. 3
      /\ l = 1 => e[1] = a[k]
      /\ l = 2 => 10 * e[1] + e[2] = a[k]
      /\ l = 3 => 100 * e[1] + 10 * e[2] + e[3] = a[k]
  BY <1>1, DecimalDenotes
<1>3. e \in [1 .. l -> Digit]
  BY <1>2, LenProperties
<1>4. p[k] \in Nat /\ \A j \in 1 .. Lengths(a)[k] : s[p[k] + j] = Decimals(a)[k][j]
  <2>1. p[k] \in Nat
    BY FieldPlace
  <2> QED BY <2>1, FieldDigits
<1>5. Field(s, k) = SubSeq(s, p[k] + 1, p[k] + Lengths(a)[k])
  BY FieldsOf
<1> HIDE DEF s, e, l
<1>6. PICK n \in Nat : n = p[k]
  BY <1>4
<1>7. \A j \in 1 .. l : s[n + j] = e[j]
  BY <1>1, <1>4, <1>6
<1>8. Field(s, k) = SubSeq(s, n + 1, n + l)
  BY <1>1, <1>5, <1>6
<1>9. Number(Field(s, k)) = a[k]
  <2> DEFINE number == Number(SubSeq(s, n + 1, n + l))
  <2>1. /\ l = 1 => number = e[1]
        /\ l = 2 => number = 10 * e[1] + e[2]
        /\ l = 3 => number = 100 * e[1] + 10 * e[2] + e[3]
    BY ONLY n \in Nat, <1>2, <1>3, <1>7, FieldNumber, ZenonT(40)
  <2> HIDE DEF number
  <2>2. number = a[k]
    BY <1>2, <2>1
  <2> QED BY <1>8, <2>2 DEF number
<1> QED BY <1>9 DEF s

(* Three digits in a row are a whole field. *)
LEMMA WholeField ==
  ASSUME NEW x \in Nat, NEW y \in Nat, y <= x + 4,
         NEW m \in Nat, x < m, m < y, m + 1 # y, m + 2 # y
  PROVE  m = x + 1 /\ y = x + 4
OBVIOUS

LEMMA ThreeInARow ==
  ASSUME NEW s, NEW d, NEW l, NEW p, LaidOut(s, d, l, p),
         NEW m \in Nat, m >= 1, m + 2 <= Len(s), ThreeDigits(s, m)
  PROVE  \E k \in 0 .. 3 : m = p[k] + 1 /\ p[k + 1] = p[k] + 4
<1>1. /\ Len(s) \in Nat
      /\ p[0] = 0 /\ p[1] \in Nat /\ p[2] \in Nat /\ p[3] \in Nat /\ p[4] = Len(s) + 1
      /\ p[1] <= p[0] + 4 /\ p[2] <= p[1] + 4 /\ p[3] <= p[2] + 4 /\ p[4] <= p[3] + 4
  BY PlacesOf
<1>2. s[m] # Dot /\ s[m + 1] # Dot /\ s[m + 2] # Dot
  BY Characters DEF ThreeDigits
<1>3. /\ m # p[1] /\ m # p[2] /\ m # p[3]
      /\ m + 1 # p[1] /\ m + 1 # p[2] /\ m + 1 # p[3]
      /\ m + 2 # p[1] /\ m + 2 # p[2] /\ m + 2 # p[3]
  <2>1. m \in 1 .. Len(s) /\ m + 1 \in 1 .. Len(s) /\ m + 2 \in 1 .. Len(s)
    BY <1>1
  <2> QED BY <1>2, <2>1, DotsOf
<1>4. m < p[4] /\ m + 1 # p[4] /\ m + 2 # p[4] /\ p[4] \in Nat /\ p[0] \in Nat /\ p[0] < m
  BY <1>1, SMTT(40)
<1>5. CASE m < p[1]
  <2>1. m = p[0] + 1 /\ p[0 + 1] = p[0] + 4
    BY <1>1, <1>3, <1>4, <1>5, WholeField, SMTT(40)
  <2> QED BY <2>1
<1>6. CASE p[1] < m /\ m < p[2]
  <2>1. m = p[1] + 1 /\ p[2] = p[1] + 4
    BY <1>1, <1>3, <1>6, WholeField
  <2> QED BY <2>1
<1>7. CASE p[2] < m /\ m < p[3]
  <2>1. m = p[2] + 1 /\ p[3] = p[2] + 4
    BY <1>1, <1>3, <1>7, WholeField
  <2> QED BY <2>1
<1>8. CASE p[3] < m
  <2>1. m = p[3] + 1 /\ p[3 + 1] = p[3] + 4
    BY <1>1, <1>4, <1>8, WholeField
  <2> QED BY <2>1
<1>9. m < p[1] \/ (p[1] < m /\ m < p[2]) \/ (p[2] < m /\ m < p[3]) \/ p[3] < m
  <2>1. /\ p[1] \in Nat /\ p[2] \in Nat /\ p[3] \in Nat
        /\ m # p[1] /\ m # p[2] /\ m # p[3]
    BY <1>1, <1>3
  <2> QED BY ONLY m \in Nat, <2>1
<1> QED BY <1>5, <1>6, <1>7, <1>8, <1>9

LEMMA EndOfField ==
  \A x, y \in Nat : x + 1 < y => y - 1 \in x + 1 .. y - 1
OBVIOUS

LEMMA PrintedIsAcceptable ==
  ASSUME NEW a \in Address, NEW p, LaidOut(TextOf(a), Decimals(a), Lengths(a), p)
  PROVE  Acceptable(TextOf(a), Len(TextOf(a)))
<1> DEFINE s == TextOf(a)
           d == Decimals(a)
           l == Lengths(a)
<1>1. LaidOut(s, d, l, p) /\ s \in Seq(Char)
  BY DEF LaidOut
<1>2. \A k \in 0 .. 3 : d[k] = Decimal(a[k]) /\ l[k] = Len(Decimal(a[k])) /\ a[k] \in Byte
  BY DEF Decimals, Lengths, Address
<1>3. \A k \in 0 .. 3 : l[k] = 3 => 100 * d[k][1] + 10 * d[k][2] + d[k][3] = a[k]
  BY <1>2, DecimalDenotes
<1> HIDE DEF s, d, l
<1>4. /\ Len(s) \in Nat
      /\ p[0] = 0 /\ p[1] \in Nat /\ p[2] \in Nat /\ p[3] \in Nat /\ p[4] = Len(s) + 1
      /\ p[0] + 1 < p[1] /\ p[1] + 1 < p[2] /\ p[2] + 1 < p[3] /\ p[3] + 1 < p[4]
      /\ s[p[1]] = Dot /\ s[p[2]] = Dot /\ s[p[3]] = Dot
  BY <1>1, PlacesOf
<1>5. \A m \in 1 .. Len(s) : s[m] \in Digit \cup {Dot}
  BY <1>1, DotsOf
<1>6. Cardinality(Periods(s, Len(s))) <= 3
  BY <1>1, PeriodsOf
<1>7. ASSUME NEW m \in Periods(s, Len(s)) PROVE m > 1 /\ s[m - 1] \in Digit
  <2>1. m \in 1 .. Len(s) /\ s[m] = Dot
    BY DEF Periods
  <2>2. m = p[1] \/ m = p[2] \/ m = p[3]
    BY <1>1, <2>1, DotsOf
  <2>3. \/ m - 1 \in p[0] + 1 .. p[0 + 1] - 1
        \/ m - 1 \in p[1] + 1 .. p[1 + 1] - 1
        \/ m - 1 \in p[2] + 1 .. p[2 + 1] - 1
    <3>1. 0 + 1 = 1 /\ 1 + 1 = 2 /\ 2 + 1 = 3
      OBVIOUS
    <3>2. p[1] - 1 \in p[0] + 1 .. p[1] - 1
      BY <1>4, EndOfField
    <3>3. p[2] - 1 \in p[1] + 1 .. p[2] - 1
      BY <1>4, EndOfField
    <3>4. p[3] - 1 \in p[2] + 1 .. p[3] - 1
      BY <1>4, EndOfField
    <3> QED BY <2>2, <3>1, <3>2, <3>3, <3>4
  <2>4. \E k \in 0 .. 3 : m - 1 \in p[k] + 1 .. p[k + 1] - 1
    BY <2>3, Four
  <2>5. s[m - 1] \in Digit
    BY <1>1, <2>4, DigitsOf
  <2>6. m > 1
    <3>1. p[1] > 1
      BY <1>4
    <3>2. p[2] > 1
      BY <1>4
    <3>3. p[3] > 1
      BY <1>4
    <3> QED BY <2>2, <3>1, <3>2, <3>3
  <2> QED BY <2>5, <2>6
<1>8. ASSUME NEW m \in 1 .. Len(s) - 3, ThreeDigits(s, m) PROVE s[m + 3] = Dot
  <2>1. m \in Nat /\ m >= 1 /\ m + 2 <= Len(s)
    BY <1>4
  <2>2. PICK k \in 0 .. 3 : m = p[k] + 1 /\ p[k + 1] = p[k] + 4
    BY <1>1, <1>8, <2>1, ThreeInARow
  <2>3. k = 0 \/ k = 1 \/ k = 2 \/ k = 3
    OBVIOUS
  <2>4. m + 3 = p[1] \/ m + 3 = p[2] \/ m + 3 = p[3] \/ m + 3 = p[4]
    <3>1. p[k] \in Nat
      BY <1>1, FieldPlace
    <3>2. m + 3 = p[k + 1]
      BY <2>2, <3>1
    <3>3. 0 + 1 = 1 /\ 1 + 1 = 2 /\ 2 + 1 = 3 /\ 3 + 1 = 4
      OBVIOUS
    <3> QED BY <2>3, <3>2, <3>3
  <2>5. m + 3 # p[4]
    BY <1>4
  <2> QED BY <1>4, <2>4, <2>5
<1>9. ASSUME NEW m \in 1 .. Len(s) - 2, ThreeDigits(s, m)
      PROVE  100 * s[m] + 10 * s[m + 1] + s[m + 2] <= 255
  <2>1. m \in Nat /\ m >= 1 /\ m + 2 <= Len(s)
    BY <1>4
  <2>2. PICK k \in 0 .. 3 : m = p[k] + 1 /\ p[k + 1] = p[k] + 4
    BY <1>1, <1>9, <2>1, ThreeInARow
  <2>3. p[k] \in Nat /\ l[k] = 3 /\ \A j \in 1 .. 3 : s[p[k] + j] = d[k][j]
    <3>1. p[k] \in Nat /\ p[k + 1] = p[k] + l[k] + 1 /\ l[k] \in 1 .. 3
      BY <1>1, FieldPlace
    <3>2. l[k] = 3
      BY <2>2, <3>1
    <3>3. \A j \in 1 .. l[k] : s[p[k] + j] = d[k][j]
      BY <1>1, FieldDigits
    <3> QED BY <3>1, <3>2, <3>3
  <2>4. s[m] = d[k][1] /\ s[m + 1] = d[k][2] /\ s[m + 2] = d[k][3]
    <3>1. m = p[k] + 1 /\ m + 1 = p[k] + 2 /\ m + 2 = p[k] + 3
      BY <2>2, <2>3
    <3>2. s[p[k] + 1] = d[k][1] /\ s[p[k] + 2] = d[k][2] /\ s[p[k] + 3] = d[k][3]
      BY <2>3
    <3> QED BY ONLY <3>1, <3>2, Zenon
  <2>5. 100 * d[k][1] + 10 * d[k][2] + d[k][3] = a[k]
    BY <1>3, <2>3
  <2>6. a[k] <= 255
    BY <1>2, Numbers
  <2> QED BY <2>4, <2>5, <2>6
<1>10. Acceptable(s, Len(s))
  BY <1>5, <1>6, <1>7, <1>8, <1>9 DEF Acceptable
<1> QED BY <1>10 DEF s

-----------------------------------------------------------------------------
(* Ipv4Addr::from returns the address that its text denotes, octet by      *)
(* octet, for every text of any length.                                    *)
THEOREM ReadsEveryText == ParseSpec => []ReadsItsText
<1>1. ReadInv => ReadsItsText
  BY DEF ReadInv
<1> QED BY <1>1, ReadInvariance, PTL

(* from reads back each of the 2^32 addresses that operator std::string    *)
(* prints.                                                                 *)
THEOREM PrintedIsReadBack == ParseSpec => []RoundTrip
<1>1. ReadInv => RoundTrip
  <2> SUFFICES ASSUME ReadInv, result \in Address \cup {Nullopt},
                      NEW a \in Formed, text = TextOf(a)
               PROVE  result = a
    BY DEF RoundTrip
  <2>1. a \in Address
    BY FormedAddresses
  <2>2. PICK p : LaidOut(TextOf(a), Decimals(a), Lengths(a), p)
    BY <2>1, TextIsLaidOut
  <2>3. result \in Address
    <3>1. Acceptable(text, Len(text))
      BY <2>1, <2>2, PrintedIsAcceptable
    <3> QED BY <3>1 DEF ReadInv, ParseInv, Judged
  <2>4. result = [k \in 0 .. 3 |-> Number(Field(text, k))]
    BY <2>3 DEF ReadInv, ReadsItsText
  <2>5. \A k \in 0 .. 3 : Number(Field(text, k)) = a[k]
    BY <2>1, <2>2, OctetsOf
  <2>6. result = [k \in 0 .. 3 |-> a[k]]
    BY <2>4, <2>5
  <2> QED BY <2>1, <2>6 DEF Address
<1> QED BY <1>1, ReadInvariance, PTL

(* operator< is a strict partial order of any addresses: an order is never *)
(* told both ways and carries over.                                        *)
THEOREM OrderIsAlwaysStrict == ParseSpec => []OrderIsStrict
<1>1. OrderIsStrict
  <2> SUFFICES ASSUME result \in Address
               PROVE  /\ ~Less(result, result)
                      /\ \A b \in Formed : Less(result, b) =>
                           /\ ~Less(b, result)
                           /\ \A c \in Formed : Less(b, c) => Less(result, c)
    BY DEF OrderIsStrict
  <2>1. \A b \in Formed : b \in Address
    BY FormedAddresses
  <2> QED BY <2>1, LessIsStrictOrder
<1> QED BY <1>1, PTL

-----------------------------------------------------------------------------
(* The bytes of a block. *)

LEMMA Units ==
  /\ Unit(0) = 256 /\ Unit(8) = 1
  /\ Unit(1) = 128 /\ Unit(2) = 64 /\ Unit(4) = 16 /\ Unit(7) = 2
BY DEF Unit

LEMMA NoBits == \A x \in Byte : x \div 256 = 0
BY DEF Byte
LEMMA AllBits == \A x \in Byte : x \div 1 = x
BY DEF Byte

(* A byte of a block: given, free, or given in its first bits.             *)
ByteInBlock(x, p, bits, k) ==
  /\ bits >= 8 * (k + 1) => x = p
  /\ 8 * k < bits /\ bits < 8 * (k + 1) => x \div Unit(bits - 8 * k) = p \div Unit(bits - 8 * k)

LEMMA InBlockIs ==
  ASSUME NEW a, NEW D \in SUBSET Nat, a \in [D -> Byte],
         NEW p, NEW n \in Nat, \A k \in D : PrefixByte(Block(p, n), k) \in Byte
  PROVE  InBlock(a, Block(p, n)) <=>
           \A k \in D : ByteInBlock(a[k], PrefixByte(Block(p, n), k), n, k)
<1> DEFINE b == Block(p, n)
           In(k) == a[k] \div Unit(BitsOf(b, k)) = PrefixByte(b, k) \div Unit(BitsOf(b, k))
<1>1. ASSUME NEW k \in D PROVE In(k) <=> ByteInBlock(a[k], PrefixByte(b, k), n, k)
  <2>1. a[k] \in Byte /\ PrefixByte(b, k) \in Byte /\ k \in Nat /\ b.bits = n
    BY DEF Block
  <2>2. CASE n >= 8 * (k + 1)
    <3>1. BitsOf(b, k) = 8
      BY <2>1, <2>2 DEF BitsOf
    <3> QED BY <2>1, <2>2, <3>1, Units, AllBits DEF ByteInBlock
  <2>3. CASE n <= 8 * k
    <3>1. BitsOf(b, k) = 0 /\ ~(n >= 8 * (k + 1)) /\ ~(8 * k < n)
      BY <2>1, <2>3 DEF BitsOf
    <3> QED BY <2>1, <3>1, Units, NoBits DEF ByteInBlock
  <2>4. CASE 8 * k < n /\ n < 8 * (k + 1)
    <3>1. BitsOf(b, k) = n - 8 * k /\ ~(n >= 8 * (k + 1))
      BY <2>1, <2>4 DEF BitsOf
    <3> QED BY <2>4, <3>1 DEF ByteInBlock
  <2> QED BY <2>1, <2>2, <2>3, <2>4
<1>2. InBlock(a, b) <=> \A k \in D : In(k)
  BY DEF InBlock
<1> QED BY <1>1, <1>2

LEMMA AddressBytes == ASSUME NEW a \in Address
  PROVE a[0] \in Byte /\ a[1] \in Byte /\ a[2] \in Byte /\ a[3] \in Byte
BY DEF Address

LEMMA FourBytes ==
  ASSUME NEW a \in Address, NEW n \in Nat, NEW p,
         NEW p0 \in Byte, NEW p1 \in Byte, NEW p2 \in Byte, NEW p3 \in Byte,
         /\ PrefixByte(Block(p, n), 0) = p0 /\ PrefixByte(Block(p, n), 1) = p1
         /\ PrefixByte(Block(p, n), 2) = p2 /\ PrefixByte(Block(p, n), 3) = p3
  PROVE  InBlock(a, Block(p, n)) <=>
           /\ ByteInBlock(a[0], p0, n, 0) /\ ByteInBlock(a[1], p1, n, 1)
           /\ ByteInBlock(a[2], p2, n, 2) /\ ByteInBlock(a[3], p3, n, 3)
<1> DEFINE b == Block(p, n)
<1>1. \A k \in 0 .. 3 : PrefixByte(b, k) \in Byte
  BY Four
<1>2. InBlock(a, b) <=> \A k \in 0 .. 3 : ByteInBlock(a[k], PrefixByte(b, k), n, k)
  BY <1>1, InBlockIs, 0 .. 3 \in SUBSET Nat DEF Address
<1> QED BY <1>2, Four

PrefixAt(p, k) == IF k < Len(p) THEN p[k + 1] ELSE 0

(* Every byte of a prefix is a byte. *)
Short(p) == \A k \in 0 .. 3 : PrefixAt(p, k) \in Byte

(* The leading bytes of a prefix, and no others. *)
LEMMA NoPrefix == Short(<<>>) /\ \A k \in 0 .. 3 : PrefixAt(<<>>, k) = 0
BY DEF PrefixAt, Short, Byte

LEMMA OneByte ==
  ASSUME NEW w \in Byte
  PROVE  /\ Short(<<w>>)
         /\ PrefixAt(<<w>>, 0) = w /\ PrefixAt(<<w>>, 1) = 0 /\ PrefixAt(<<w>>, 2) = 0
<1>1. 0 \in Byte
  BY DEF Byte
<1> QED BY <1>1, Four DEF PrefixAt, Short

LEMMA TwoBytes ==
  ASSUME NEW w \in Byte, NEW x \in Byte
  PROVE  /\ Short(<<w, x>>)
         /\ PrefixAt(<<w, x>>, 0) = w /\ PrefixAt(<<w, x>>, 1) = x
<1>1. 0 \in Byte
  BY DEF Byte
<1> QED BY <1>1, Four DEF PrefixAt, Short

LEMMA ThreeBytes ==
  ASSUME NEW w \in Byte, NEW x \in Byte, NEW y \in Byte
  PROVE  /\ Short(<<w, x, y>>)
         /\ PrefixAt(<<w, x, y>>, 0) = w /\ PrefixAt(<<w, x, y>>, 1) = x
         /\ PrefixAt(<<w, x, y>>, 2) = y
<1>1. 0 \in Byte
  BY DEF Byte
<1> QED BY <1>1, Four DEF PrefixAt, Short

LEMMA WholePrefix ==
  ASSUME NEW w \in Byte, NEW x \in Byte, NEW y \in Byte, NEW z \in Byte
  PROVE  /\ Short(<<w, x, y, z>>)
         /\ PrefixAt(<<w, x, y, z>>, 0) = w /\ PrefixAt(<<w, x, y, z>>, 1) = x
         /\ PrefixAt(<<w, x, y, z>>, 2) = y /\ PrefixAt(<<w, x, y, z>>, 3) = z
BY Four DEF PrefixAt, Short

LEMMA BytesCount ==
  ASSUME NEW x
  PROVE  \A p :
         /\ ByteInBlock(x, p, 8, 0) <=> x = p
         /\ ByteInBlock(x, p, 8, 1) /\ ByteInBlock(x, p, 8, 2) /\ ByteInBlock(x, p, 8, 3)
         /\ ByteInBlock(x, p, 16, 0) <=> x = p
         /\ ByteInBlock(x, p, 16, 1) <=> x = p
         /\ ByteInBlock(x, p, 16, 2) /\ ByteInBlock(x, p, 16, 3)
         /\ ByteInBlock(x, p, 24, 0) <=> x = p
         /\ ByteInBlock(x, p, 24, 1) <=> x = p
         /\ ByteInBlock(x, p, 24, 2) <=> x = p
         /\ ByteInBlock(x, p, 24, 3)
         /\ ByteInBlock(x, p, 32, 0) <=> x = p
         /\ ByteInBlock(x, p, 32, 1) <=> x = p
         /\ ByteInBlock(x, p, 32, 2) <=> x = p
         /\ ByteInBlock(x, p, 32, 3) <=> x = p
BY DEF ByteInBlock

LEMMA BitsCount ==
  ASSUME NEW x, NEW p
  PROVE  /\ \A n \in 1 .. 7 :
              /\ ByteInBlock(x, p, n, 0) <=> x \div Unit(n) = p \div Unit(n)
              /\ ByteInBlock(x, p, n, 1) /\ ByteInBlock(x, p, n, 2) /\ ByteInBlock(x, p, n, 3)
         /\ \A n \in 9 .. 15 :
              /\ ByteInBlock(x, p, n, 0) <=> x = p
              /\ ByteInBlock(x, p, n, 1) <=> x \div Unit(n - 8) = p \div Unit(n - 8)
              /\ ByteInBlock(x, p, n, 2) /\ ByteInBlock(x, p, n, 3)
BY DEF ByteInBlock

LEMMA WholeBytes ==
  ASSUME NEW a \in Address, NEW p, Short(p)
  PROVE  /\ InBlock(a, Block(p, 8)) <=> a[0] = PrefixAt(p, 0)
         /\ InBlock(a, Block(p, 16)) <=> a[0] = PrefixAt(p, 0) /\ a[1] = PrefixAt(p, 1)
         /\ InBlock(a, Block(p, 24)) <=>
              a[0] = PrefixAt(p, 0) /\ a[1] = PrefixAt(p, 1) /\ a[2] = PrefixAt(p, 2)
         /\ InBlock(a, Block(p, 32)) <=> \A k \in 0 .. 3 : a[k] = PrefixAt(p, k)
         /\ \A n \in 1 .. 7 :
              InBlock(a, Block(p, n)) <=> a[0] \div Unit(n) = PrefixAt(p, 0) \div Unit(n)
         /\ \A n \in 9 .. 15 :
              InBlock(a, Block(p, n)) <=>
                a[0] = PrefixAt(p, 0) /\ a[1] \div Unit(n - 8) = PrefixAt(p, 1) \div Unit(n - 8)
<1> DEFINE p0 == PrefixAt(p, 0)
           p1 == PrefixAt(p, 1)
           p2 == PrefixAt(p, 2)
           p3 == PrefixAt(p, 3)
<1>0. /\ p0 \in Byte /\ p1 \in Byte /\ p2 \in Byte /\ p3 \in Byte
      /\ \A n \in Nat :
         /\ PrefixByte(Block(p, n), 0) = p0 /\ PrefixByte(Block(p, n), 1) = p1
         /\ PrefixByte(Block(p, n), 2) = p2 /\ PrefixByte(Block(p, n), 3) = p3
  BY DEF Short, PrefixAt, PrefixByte, Block
<1>9. (\A k \in 0 .. 3 : a[k] = PrefixAt(p, k)) <=> a[0] = p0 /\ a[1] = p1 /\ a[2] = p2 /\ a[3] = p3
  BY Four
<1> HIDE DEF p0, p1, p2, p3
<1>1. \A n \in Nat : InBlock(a, Block(p, n)) <=>
           /\ ByteInBlock(a[0], p0, n, 0) /\ ByteInBlock(a[1], p1, n, 1)
           /\ ByteInBlock(a[2], p2, n, 2) /\ ByteInBlock(a[3], p3, n, 3)
  BY <1>0, FourBytes
<1>2. 8 \in Nat /\ 16 \in Nat /\ 24 \in Nat /\ 32 \in Nat
  OBVIOUS
<1>3. InBlock(a, Block(p, 8)) <=> a[0] = p0
  BY <1>1, <1>2, BytesCount
<1>4. InBlock(a, Block(p, 16)) <=> a[0] = p0 /\ a[1] = p1
  BY <1>1, <1>2, BytesCount
<1>5. InBlock(a, Block(p, 24)) <=> a[0] = p0 /\ a[1] = p1 /\ a[2] = p2
  BY <1>1, <1>2, BytesCount
<1>6. InBlock(a, Block(p, 32)) <=> a[0] = p0 /\ a[1] = p1 /\ a[2] = p2 /\ a[3] = p3
  BY <1>1, <1>2, BytesCount
<1>7. ASSUME NEW n \in 1 .. 7
      PROVE InBlock(a, Block(p, n)) <=> a[0] \div Unit(n) = p0 \div Unit(n)
  BY <1>1, BitsCount
<1>8. ASSUME NEW n \in 9 .. 15
      PROVE InBlock(a, Block(p, n)) <=>
                a[0] = p0 /\ a[1] \div Unit(n - 8) = p1 \div Unit(n - 8)
  BY <1>1, BitsCount
<1> QED BY <1>9, <1>3, <1>4, <1>5, <1>6, <1>7, <1>8 DEF p0, p1, p2

-----------------------------------------------------------------------------
(* Each class and its blocks. *)

LEMMA Numerals ==
  /\ 0 \in Byte /\ 2 \in Byte /\ 9 \in Byte /\ 10 \in Byte /\ 16 \in Byte /\ 18 \in Byte
  /\ 51 \in Byte /\ 64 \in Byte /\ 100 \in Byte /\ 113 \in Byte /\ 127 \in Byte /\ 168 \in Byte
  /\ 169 \in Byte /\ 172 \in Byte /\ 192 \in Byte /\ 198 \in Byte /\ 203 \in Byte /\ 224 \in Byte
  /\ 240 \in Byte /\ 254 \in Byte /\ 255 \in Byte
BY DEF Byte

LEMMA ZeroBlocks ==
  ASSUME NEW a \in Address
  PROVE  /\ Of(a, "unspecified") <=> IsUnspecified(a)
         /\ Of(a, "thisNetwork") <=> a[0] = 0
<1>1. InBlock(a, Block(<<>>, 32)) <=> \A k \in 0 .. 3 : a[k] = 0
  BY WholeBytes, NoPrefix
<1>2. InBlock(a, Block(<<>>, 8)) <=> a[0] = 0
  BY WholeBytes, NoPrefix
<1>3. /\ Of(a, "unspecified") <=> InBlock(a, Block(<<>>, 32))
      /\ Of(a, "thisNetwork") <=> InBlock(a, Block(<<>>, 8))
  BY DEF Of, Blocks
<1> QED BY <1>1, <1>2, <1>3 DEF IsUnspecified

LEMMA LoopbackBlock ==
  ASSUME NEW a \in Address PROVE Of(a, "loopback") <=> IsLoopback(a)
<1>1. InBlock(a, Block(<<127>>, 8)) <=> a[0] = 127
  BY WholeBytes, OneByte, Numerals
<1>2. Of(a, "loopback") <=> InBlock(a, Block(<<127>>, 8))
  BY DEF Of, Blocks
<1> QED BY <1>1, <1>2 DEF IsLoopback

LEMMA PrivateBlocks ==
  ASSUME NEW a \in Address PROVE Of(a, "private") <=> IsPrivate(a)
<1>1. InBlock(a, Block(<<10>>, 8)) <=> a[0] = 10
  BY WholeBytes, OneByte, Numerals
<1>2. InBlock(a, Block(<<172, 16>>, 12)) <=> a[0] = 172 /\ a[1] \div 16 = 1
  BY WholeBytes, TwoBytes, Units, Numerals
<1>3. InBlock(a, Block(<<192, 168>>, 16)) <=> a[0] = 192 /\ a[1] = 168
  BY WholeBytes, TwoBytes, Numerals
<1>4. a[1] \div 16 = 1 <=> a[1] >= 16 /\ a[1] <= 31
  BY AddressBytes DEF Byte
<1>5. Of(a, "private") <=>
        \/ InBlock(a, Block(<<10>>, 8))
        \/ InBlock(a, Block(<<172, 16>>, 12))
        \/ InBlock(a, Block(<<192, 168>>, 16))
  BY DEF Of, Blocks
<1> QED BY <1>1, <1>2, <1>3, <1>4, <1>5 DEF IsPrivate

LEMMA LinkLocalBlock ==
  ASSUME NEW a \in Address PROVE Of(a, "linkLocal") <=> IsLinkLocal(a)
<1>1. InBlock(a, Block(<<169, 254>>, 16)) <=> a[0] = 169 /\ a[1] = 254
  BY WholeBytes, TwoBytes, Numerals
<1>2. Of(a, "linkLocal") <=> InBlock(a, Block(<<169, 254>>, 16))
  BY DEF Of, Blocks
<1> QED BY <1>1, <1>2 DEF IsLinkLocal

LEMMA BroadcastBlock ==
  ASSUME NEW a \in Address PROVE Of(a, "broadcast") <=> IsBroadcast(a)
<1> DEFINE p == <<255, 255, 255, 255>>
<1>1. Short(p) /\ \A k \in 0 .. 3 : PrefixAt(p, k) = 255
  BY WholePrefix, Numerals, Four
<1>2. InBlock(a, Block(p, 32)) <=> \A k \in 0 .. 3 : a[k] = 255
  BY <1>1, WholeBytes
<1>3. Of(a, "broadcast") <=> InBlock(a, Block(p, 32))
  BY DEF Of, Blocks
<1> QED BY <1>2, <1>3 DEF IsBroadcast

LEMMA DocumentationBlocks ==
  ASSUME NEW a \in Address PROVE Of(a, "documentation") <=> IsDocumentation(a)
<1>1. InBlock(a, Block(<<192, 0, 2>>, 24)) <=> a[0] = 192 /\ a[1] = 0 /\ a[2] = 2
  BY WholeBytes, ThreeBytes, Numerals
<1>2. InBlock(a, Block(<<198, 51, 100>>, 24)) <=> a[0] = 198 /\ a[1] = 51 /\ a[2] = 100
  BY WholeBytes, ThreeBytes, Numerals
<1>3. InBlock(a, Block(<<203, 0, 113>>, 24)) <=> a[0] = 203 /\ a[1] = 0 /\ a[2] = 113
  BY WholeBytes, ThreeBytes, Numerals
<1>4. Of(a, "documentation") <=>
        \/ InBlock(a, Block(<<192, 0, 2>>, 24))
        \/ InBlock(a, Block(<<198, 51, 100>>, 24))
        \/ InBlock(a, Block(<<203, 0, 113>>, 24))
  BY DEF Of, Blocks
<1> QED BY <1>1, <1>2, <1>3, <1>4 DEF IsDocumentation

LEMMA SharedBlock ==
  ASSUME NEW a \in Address PROVE Of(a, "shared") <=> IsShared(a)
<1>1. InBlock(a, Block(<<100, 64>>, 10)) <=> a[0] = 100 /\ a[1] \div 64 = 1
  BY WholeBytes, TwoBytes, Units, Numerals
<1>2. Of(a, "shared") <=> InBlock(a, Block(<<100, 64>>, 10))
  BY DEF Of, Blocks
<1> QED BY <1>1, <1>2 DEF IsShared

LEMMA ProtocolBlock ==
  ASSUME NEW a \in Address PROVE Of(a, "protocol") <=> IsIetfProtocolAssignment(a)
<1>1. InBlock(a, Block(<<192>>, 24)) <=> a[0] = 192 /\ a[1] = 0 /\ a[2] = 0
  BY WholeBytes, OneByte, Numerals
<1>2. Of(a, "protocol") <=> InBlock(a, Block(<<192>>, 24))
  BY DEF Of, Blocks
<1> QED BY <1>1, <1>2 DEF IsIetfProtocolAssignment

LEMMA ReservedBlock ==
  ASSUME NEW a \in Address
  PROVE  Of(a, "reserved") /\ ~Of(a, "broadcast") <=> IsReserved(a)
<1>1. InBlock(a, Block(<<240>>, 4)) <=> a[0] \div 16 = 15
  BY WholeBytes, OneByte, Units, Numerals
<1>2. Of(a, "reserved") <=> InBlock(a, Block(<<240>>, 4))
  BY DEF Of, Blocks
<1> QED BY <1>1, <1>2, BroadcastBlock DEF IsReserved

LEMMA BenchmarkingBlock ==
  ASSUME NEW a \in Address PROVE Of(a, "benchmarking") <=> IsBenchmarking(a)
<1>1. InBlock(a, Block(<<198, 18>>, 15)) <=> a[0] = 198 /\ a[1] \div 2 = 9
  BY WholeBytes, TwoBytes, Units, Numerals
<1>2. Of(a, "benchmarking") <=> InBlock(a, Block(<<198, 18>>, 15))
  BY DEF Of, Blocks
<1> QED BY <1>1, <1>2 DEF IsBenchmarking

LEMMA MulticastBlock ==
  ASSUME NEW a \in Address PROVE Of(a, "multicast") <=> IsMulticast(a)
<1>1. InBlock(a, Block(<<224>>, 4)) <=> a[0] \div 16 = 14
  BY WholeBytes, OneByte, Units, Numerals
<1>2. a[0] \div 16 = 14 <=> a[0] >= 224 /\ a[0] <= 239
  BY AddressBytes DEF Byte
<1>3. Of(a, "multicast") <=> InBlock(a, Block(<<224>>, 4))
  BY DEF Of, Blocks
<1> QED BY <1>1, <1>2, <1>3 DEF IsMulticast

LEMMA ExceptionBlocks ==
  ASSUME NEW a \in Address
  PROVE  Of(a, "exception") <=> <<a[0], a[1], a[2]>> = <<192, 0, 0>> /\ a[3] \in {9, 10}
<1>1. ASSUME NEW z \in {9, 10}
      PROVE  InBlock(a, Block(<<192, 0, 0, z>>, 32)) <=>
               a[0] = 192 /\ a[1] = 0 /\ a[2] = 0 /\ a[3] = z
  <2> DEFINE p == <<192, 0, 0, z>>
  <2>1. z \in Byte
    BY Numerals
  <2>2. /\ Short(p) /\ PrefixAt(p, 0) = 192 /\ PrefixAt(p, 1) = 0
        /\ PrefixAt(p, 2) = 0 /\ PrefixAt(p, 3) = z
    <3>1. 192 \in Byte /\ 0 \in Byte
      BY Numerals
    <3> QED BY <2>1, <3>1, Four, SMTT(30) DEF Short, PrefixAt
  <2> HIDE DEF p
  <2>3. InBlock(a, Block(p, 32)) <=> a[0] = 192 /\ a[1] = 0 /\ a[2] = 0 /\ a[3] = z
    BY <2>2, WholeBytes, Four
  <2> QED BY <2>3 DEF p
<1>2. Of(a, "exception") <=> \E z \in {9, 10} : InBlock(a, Block(<<192, 0, 0, z>>, 32))
  BY DEF Of, Blocks
<1> QED BY <1>1, <1>2

LEMMA GlobalIsNoOther ==
  ASSUME NEW a \in Address
  PROVE  IsGlobal(a) <=>
           \/ Of(a, "exception")
           \/ \A class \in DOMAIN Blocks \ {"multicast", "exception"} : ~Of(a, class)
<1>1. DOMAIN Blocks \ {"multicast", "exception"} =
        {"unspecified", "loopback", "private", "linkLocal", "broadcast", "documentation",
         "shared", "protocol", "reserved", "benchmarking", "thisNetwork"}
  BY DEF Blocks
<1>2. (\A class \in DOMAIN Blocks \ {"multicast", "exception"} : ~Of(a, class)) <=>
        /\ ~Of(a, "unspecified") /\ ~Of(a, "loopback") /\ ~Of(a, "private")
        /\ ~Of(a, "linkLocal") /\ ~Of(a, "broadcast") /\ ~Of(a, "documentation")
        /\ ~Of(a, "shared") /\ ~Of(a, "protocol") /\ ~Of(a, "reserved")
        /\ ~Of(a, "benchmarking") /\ ~Of(a, "thisNetwork")
  BY <1>1
<1>3. Of(a, "unspecified") => Of(a, "thisNetwork")
  BY ZeroBlocks DEF IsUnspecified
<1> QED
  BY <1>2, <1>3, ZeroBlocks, LoopbackBlock, PrivateBlocks, LinkLocalBlock, BroadcastBlock,
     DocumentationBlocks, SharedBlock, ProtocolBlock, ReservedBlock, BenchmarkingBlock,
     ExceptionBlocks
  DEF IsGlobal

LEMMA AddressesInClasses == result \in Address => ClassesAreBlocks
<1> SUFFICES ASSUME result \in Address PROVE ClassesAreBlocks
  BY DEF ClassesAreBlocks
<1>1. \A class : Of(result, class) \in BOOLEAN
  BY DEF Of
<1>2. /\ IsUnspecified(result) \in BOOLEAN /\ IsLoopback(result) \in BOOLEAN
      /\ IsPrivate(result) \in BOOLEAN /\ IsLinkLocal(result) \in BOOLEAN
      /\ IsBroadcast(result) \in BOOLEAN /\ IsDocumentation(result) \in BOOLEAN
      /\ IsShared(result) \in BOOLEAN /\ IsIetfProtocolAssignment(result) \in BOOLEAN
      /\ IsReserved(result) \in BOOLEAN /\ IsBenchmarking(result) \in BOOLEAN
      /\ IsMulticast(result) \in BOOLEAN /\ IsGlobal(result) \in BOOLEAN
  BY DEF IsUnspecified, IsLoopback, IsPrivate, IsLinkLocal, IsBroadcast, IsDocumentation,
     IsShared, IsIetfProtocolAssignment, IsReserved, IsBenchmarking, IsMulticast, IsGlobal
<1> QED
  BY <1>1, <1>2, ZeroBlocks, LoopbackBlock, PrivateBlocks, LinkLocalBlock, BroadcastBlock,
     DocumentationBlocks, SharedBlock, ProtocolBlock, ReservedBlock, BenchmarkingBlock,
     MulticastBlock, GlobalIsNoOther
  DEF ClassesAreBlocks

(* Each class of an IPv4 address is the union of the blocks its            *)
(* description names, for each of the 2^32 addresses.                      *)
THEOREM ClassesAlwaysBlocks == ParseSpec => []ClassesAreBlocks
<1>1. ClassesAreBlocks
  BY AddressesInClasses DEF ClassesAreBlocks
<1> QED BY <1>1, PTL
=============================================================================
