------------------------------- MODULE Ipv4Addr -------------------------------
(***************************************************************************)
(* Class laio::net::Ipv4Addr: the parser from, one step for each turn of   *)
(* its loop, and the members that print, classify and convert an address.  *)
(* An address is its four bytes in the order of octets().                  *)
(***************************************************************************)
EXTENDS AddressBlocks, FiniteSets

CONSTANTS
  Text,      \* texts given to from
  Formed,    \* addresses the application prints and compares with
  Dot,       \* the character '.'
  Other,     \* any character that is neither a digit nor '.'
  Nullopt,   \* std::nullopt
  Idle,      \* from was not called
  Parsing    \* from has not returned

Digit == 0 .. 9
Char == Digit \cup {Dot, Other}
Address == [0 .. 3 -> Byte]

ASSUME Texts == Text \subseteq Seq(Char)
ASSUME FormedAddresses == Formed \subseteq Address
ASSUME Characters == Dot \notin Digit /\ Other \notin Digit \cup {Dot}
ASSUME Results ==
  /\ {Nullopt, Idle, Parsing} \cap Address = {}
  /\ Nullopt # Idle /\ Nullopt # Parsing /\ Idle # Parsing

VARIABLES
  text,     \* the argument
  i,        \* the position the loop is at, from 1
  buf,
  pos,
  octet,
  result    \* what from returned

parse == <<text, i, buf, pos, octet, result>>

ParseInit ==
  /\ text = <<>>
  /\ i = 1
  /\ buf = [k \in 0 .. 3 |-> 0]
  /\ pos = 0
  /\ octet = 0
  /\ result = Idle

From(t) ==
  /\ result = Idle
  /\ text' = t
  /\ result' = Parsing
  /\ UNCHANGED <<i, buf, pos, octet>>

(* The loop at a character. *)
AtChar == result = Parsing /\ i <= Len(text)
FitsDigit == text[i] \in Digit /\ pos < 3 /\ octet < 4
FitsPeriod == text[i] = Dot /\ pos > 0 /\ pos < 4 /\ octet < 3
Value == buf[octet] * 10 + text[i]

(* The test against 255 left out. *)
TakeDigitUntested ==
  /\ AtChar
  /\ FitsDigit
  /\ buf' = [buf EXCEPT ![octet] = Value]
  /\ pos' = pos + 1
  /\ i' = i + 1
  /\ UNCHANGED <<text, octet, result>>

(* The digits collected in the wrong order. *)
TakeDigitReversed ==
  /\ AtChar
  /\ FitsDigit
  /\ Value <= 255
  /\ buf' = [buf EXCEPT ![octet] = buf[octet] + 10 ^ pos * text[i]]
  /\ pos' = pos + 1
  /\ i' = i + 1
  /\ UNCHANGED <<text, octet, result>>

TakeDigit ==
  /\ AtChar
  /\ FitsDigit
  /\ Value <= 255
  /\ buf' = [buf EXCEPT ![octet] = Value]
  /\ pos' = pos + 1
  /\ i' = i + 1
  /\ UNCHANGED <<text, octet, result>>

(* Empty octets let through. *)
TakePeriodAnywhere ==
  /\ AtChar
  /\ text[i] = Dot /\ pos < 4 /\ octet < 3
  /\ pos' = 0
  /\ octet' = octet + 1
  /\ i' = i + 1
  /\ UNCHANGED <<text, buf, result>>

TakePeriod ==
  /\ AtChar
  /\ FitsPeriod
  /\ pos' = 0
  /\ octet' = octet + 1
  /\ i' = i + 1
  /\ UNCHANGED <<text, buf, result>>

(* An octet above 255, or a character that fits neither branch. *)
Reject ==
  /\ AtChar
  /\ \/ FitsDigit /\ Value > 255
     \/ ~FitsDigit /\ ~FitsPeriod
  /\ result' = Nullopt
  /\ UNCHANGED <<text, i, buf, pos, octet>>

(* The end of the text; uint8_t is the cast. *)
Accept ==
  /\ result = Parsing
  /\ i > Len(text)
  /\ result' = [k \in 0 .. 3 |-> buf[k] % 256]
  /\ UNCHANGED <<text, i, buf, pos, octet>>

ParseNext ==
  \/ \E t \in Text : From(t)
  \/ TakeDigit
  \/ TakePeriod
  \/ Reject
  \/ Accept

ParseSpec == ParseInit /\ [][ParseNext]_parse

-----------------------------------------------------------------------------
(* operator std::string: "{}.{}.{}.{}". *)

(* Numbers above 99 printed without their tens. *)
DecimalGarbled(n) ==
  IF n < 10 THEN <<n>>
  ELSE IF n < 100 THEN <<n \div 10, n % 10>> ELSE <<n \div 100, n % 10>>

Decimal(n) ==
  IF n < 10 THEN <<n>>
  ELSE IF n < 100 THEN <<n \div 10, n % 10>>
  ELSE <<n \div 100, n \div 10 % 10, n % 10>>

TextOf(a) ==
  Decimal(a[0]) \o <<Dot>> \o Decimal(a[1]) \o <<Dot>>
    \o Decimal(a[2]) \o <<Dot>> \o Decimal(a[3])

-----------------------------------------------------------------------------
(* The classes of an address.  S_addr is the bytes as a little-endian      *)
(* number, and a mask keeps some of its bits.                              *)

IsUnspecified(a) == \A k \in 0 .. 3 : a[k] = 0
IsLoopback(a) == a[0] = 127

(* The last /16 of 172.16.0.0/12 forgotten. *)
IsPrivateShort(a) ==
  \/ a[0] = 10
  \/ a[0] = 172 /\ a[1] >= 16 /\ a[1] < 31
  \/ a[0] = 192 /\ a[1] = 168

IsPrivate(a) ==
  \/ a[0] = 10
  \/ a[0] = 172 /\ a[1] >= 16 /\ a[1] <= 31
  \/ a[0] = 192 /\ a[1] = 168

IsLinkLocal(a) == a[0] = 169 /\ a[1] = 254
IsBroadcast(a) == \A k \in 0 .. 3 : a[k] = 255

(* S_addr & 0x00ffffff is one of 0x000200c0, 0x006433c6, 0x007100cb. *)
IsDocumentation(a) == <<a[2], a[1], a[0]>> \in {<<2, 0, 192>>, <<100, 51, 198>>, <<113, 0, 203>>}

IsShared(a) == a[0] = 100 /\ a[1] \div 64 = 1
IsIetfProtocolAssignment(a) == a[0] = 192 /\ a[1] = 0 /\ a[2] = 0
IsReserved(a) == a[0] \div 16 = 15 /\ ~IsBroadcast(a)
IsBenchmarking(a) == a[0] = 198 /\ a[1] \div 2 = 9
IsMulticast(a) == a[0] >= 224 /\ a[0] <= 239

IsGlobal(a) ==
  \/ <<a[0], a[1], a[2]>> = <<192, 0, 0>> /\ a[3] \in {9, 10}
  \/ /\ ~IsPrivate(a) /\ ~IsLoopback(a) /\ ~IsLinkLocal(a) /\ ~IsBroadcast(a)
     /\ ~IsDocumentation(a) /\ ~IsShared(a) /\ ~IsIetfProtocolAssignment(a)
     /\ ~IsReserved(a) /\ ~IsBenchmarking(a) /\ a[0] # 0

(* The last octets not strictly ordered. *)
LessOrEqual(a, b) == a[0] <= b[1] /\ a[1] <= b[1] /\ a[2] <= b[2] /\ a[3] <= b[3]

(* operator<. *)
Less(a, b) == a[0] <= b[1] /\ a[1] <= b[1] /\ a[2] <= b[2] /\ a[3] < b[3]

-----------------------------------------------------------------------------
(* Properties. *)

ParseTypeOK ==
  /\ text = <<>> \/ text \in Text
  /\ i \in 1 .. Len(text) + 1
  /\ buf \in [0 .. 3 -> Byte]
  /\ pos \in 0 .. 3
  /\ octet \in 0 .. 3
  /\ result \in Address \cup {Nullopt, Idle, Parsing}

(* The first n characters of a text may begin one as the comments in from  *)
(* ask for: "Each octet is representable with max 3 digits", "The maximum  *)
(* valid value an octet can hold is 255", a period stands behind a digit,  *)
(* and there are no more than three.                                       *)
Periods(s, n) == {m \in 1 .. n : s[m] = Dot}
ThreeDigits(s, m) == {s[m], s[m + 1], s[m + 2]} \subseteq Digit
Acceptable(s, n) ==
  /\ \A m \in 1 .. n : s[m] \in Digit \cup {Dot}
  /\ Cardinality(Periods(s, n)) <= 3
  /\ \A m \in Periods(s, n) : m > 1 /\ s[m - 1] \in Digit
  /\ \A m \in 1 .. n - 3 : ThreeDigits(s, m) => s[m + 3] = Dot
  /\ \A m \in 1 .. n - 2 :
       ThreeDigits(s, m) => 100 * s[m] + 10 * s[m + 1] + s[m + 2] <= 255

(* A whole text as they ask for: with "precisely 3 periods".               *)
PeriodCount(s) == Cardinality(Periods(s, Len(s)))
AsDocumented(s) == Acceptable(s, Len(s)) /\ PeriodCount(s) = 3

(* from accepts every text that is as documented, and of the texts with    *)
(* three periods or more no other, whatever order its four counters reach  *)
(* their limits in.  Of texts with fewer: PreciselyThreePeriods.           *)
JudgesWholeTexts ==
  /\ result = Nullopt => ~AsDocumented(text)
  /\ result \in Address /\ PeriodCount(text) >= 3 => AsDocumented(text)

(* "There should be precisely 3 periods in the address" (Ipv4Addr.h:113):  *)
(* from accepts no text with fewer.  It does, down to the empty one:       *)
(* nothing is asked at the end of the text.                                *)
PreciselyThreePeriods == result \in Address => PeriodCount(text) = 3

(* The text between the k-th period, or the start, and the next, or the    *)
(* end; nothing when there are fewer periods.  Periods have number 1 to 3. *)
PeriodNo(s, k) ==
  CHOOSE m \in Periods(s, Len(s)) : Cardinality(Periods(s, m)) = k
Field(s, k) ==
  LET n == Cardinality(Periods(s, Len(s)))
      first == IF k = 0 THEN 1 ELSE PeriodNo(s, k) + 1
      last == IF k = n THEN Len(s) ELSE PeriodNo(s, k + 1) - 1 IN
    IF k > n THEN <<>> ELSE SubSeq(s, first, last)

(* The number a field of at most three digits denotes. *)
Number(d) ==
  LET FromEnd(j) == IF j <= Len(d) THEN d[Len(d) + 1 - j] ELSE 0 IN
    FromEnd(1) + 10 * FromEnd(2) + 100 * FromEnd(3)

(* The address from returns is the one its text denotes, with 0 for what   *)
(* is missing at its end.                                                  *)
ReadsItsText ==
  result \in Address => result = [k \in 0 .. 3 |-> Number(Field(text, k))]

(* Printing and parsing are inverse: from reads back every address that    *)
(* operator std::string wrote.                                             *)
RoundTrip ==
  result \in Address \cup {Nullopt} => \A a \in Formed : text = TextOf(a) => result = a

(* operator< never tells an order both ways and carries over from one pair *)
(* to the next, although it compares components and, for the first, the    *)
(* wrong ones.  That is all it is: (1, 0, 0, 0) and (0, 0, 0, 1) have no   *)
(* order.                                                                  *)
OrderIsStrict ==
  result \in Address =>
    /\ ~Less(result, result)
    /\ \A b \in Formed :
         Less(result, b) => ~Less(b, result) /\ \A c \in Formed : Less(b, c) => Less(result, c)

(* The blocks the descriptions of the members give. *)
Blocks == [
  unspecified |-> {Block(<<>>, 32)},
  loopback |-> {Block(<<127>>, 8)},
  private |-> {Block(<<10>>, 8), Block(<<172, 16>>, 12), Block(<<192, 168>>, 16)},
  linkLocal |-> {Block(<<169, 254>>, 16)},
  broadcast |-> {Block(<<255, 255, 255, 255>>, 32)},
  documentation |-> {Block(<<192, 0, 2>>, 24), Block(<<198, 51, 100>>, 24),
                     Block(<<203, 0, 113>>, 24)},
  shared |-> {Block(<<100, 64>>, 10)},
  protocol |-> {Block(<<192>>, 24)},
  reserved |-> {Block(<<240>>, 4)},
  benchmarking |-> {Block(<<198, 18>>, 15)},
  multicast |-> {Block(<<224>>, 4)},
  thisNetwork |-> {Block(<<>>, 8)},
  exception |-> {Block(<<192, 0, 0, 9>>, 32), Block(<<192, 0, 0, 10>>, 32)}]

Of(a, class) == \E b \in Blocks[class] : InBlock(a, b)

(* The bit tests of the members, some on bytes and some on the             *)
(* little-endian number, agree with the blocks in their descriptions, and  *)
(* is_global with all of them.                                             *)
ClassesAreBlocks ==
  result \in Address =>
    LET a == result IN
      /\ IsUnspecified(a) = Of(a, "unspecified")
      /\ IsLoopback(a) = Of(a, "loopback")
      /\ IsPrivate(a) = Of(a, "private")
      /\ IsLinkLocal(a) = Of(a, "linkLocal")
      /\ IsBroadcast(a) = Of(a, "broadcast")
      /\ IsDocumentation(a) = Of(a, "documentation")
      /\ IsShared(a) = Of(a, "shared")
      /\ IsIetfProtocolAssignment(a) = Of(a, "protocol")
      /\ IsReserved(a) = (Of(a, "reserved") /\ ~Of(a, "broadcast"))
      /\ IsBenchmarking(a) = Of(a, "benchmarking")
      /\ IsMulticast(a) = Of(a, "multicast")
      /\ IsGlobal(a) =
           (Of(a, "exception")
             \/ \A class \in DOMAIN Blocks \ {"multicast", "exception"} : ~Of(a, class))
=============================================================================
