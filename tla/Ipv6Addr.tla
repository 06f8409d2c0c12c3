------------------------------- MODULE Ipv6Addr -------------------------------
(***************************************************************************)
(* Class laio::net::Ipv6Addr: operator std::string, one step for each turn *)
(* of its search for the longest run of zero segments, and the members     *)
(* that classify an address.  An address is its eight Words as they lie in *)
(* memory, in network order, read by a little-endian machine.              *)
(***************************************************************************)
EXTENDS AddressBlocks

CONSTANTS
  Given,     \* addresses the application makes
  Absent,    \* no address was made
  Printing   \* operator std::string has not returned

MaxWord == 65535
Word == 0 .. MaxWord
RawAddress == [0 .. 7 -> Word]

ASSUME Addresses == Given \subseteq RawAddress
ASSUME NoAddress == Absent \notin RawAddress

VARIABLES
  addr,            \* the address
  at,              \* i of the loop
  zero_span_len,
  zero_span_at,
  cur_span_len,
  cur_span_at,
  out              \* the text returned

loop == <<at, zero_span_len, zero_span_at, cur_span_len, cur_span_at>>
print == <<addr, loop, out>>

(* segments(): the bytes of each Word exchanged. *)
Swap(w) == (w % 256) * 256 + w \div 256
Segments(a) == [k \in 0 .. 7 |-> Swap(a[k])]
seg == Segments(addr)

(* A text: hexadecimal segments, "::", hexadecimal segments, a dotted quad.*)
Written(left, gap, right, quad) ==
  [left |-> left, gap |-> gap, right |-> right, quad |-> quad]

Bytes(s) == <<s \div 256, s % 256>>

PrintInit ==
  /\ addr = Absent
  /\ at = 0
  /\ zero_span_len = 0
  /\ zero_span_at = 0
  /\ cur_span_len = 0
  /\ cur_span_at = 0
  /\ out = Printing

Make(a) ==
  /\ addr = Absent
  /\ addr' = a
  /\ UNCHANGED <<loop, out>>

-----------------------------------------------------------------------------
(* operator std::string. *)

Called == addr # Absent /\ out = Printing

(* "IPv4 convertible addresses, that require special formatting".          *)
Convertible(s) == (\A k \in 0 .. 4 : s[k] = 0) /\ s[5] \in {0, 65535}

(* The dotted quad of its last two segments. *)
Quad == Bytes(seg[6]) \o Bytes(seg[7])

Ffff == <<65535>>

ConvertibleText ==
  IF seg[6] = 0 /\ seg[7] = 0 THEN Written(<<>>, TRUE, <<>>, <<>>)
  ELSE IF seg[6] = 0 /\ seg[7] = 1 THEN Written(<<>>, TRUE, <<1>>, <<>>)
  ELSE IF seg[5] = 0 THEN Written(<<>>, TRUE, <<>>, Quad)
  ELSE Written(<<>>, TRUE, Ffff, Quad)

PrintConvertible ==
  /\ Called
  /\ Convertible(seg)
  /\ out' = ConvertibleText
  /\ UNCHANGED <<addr, loop>>

(* The loop at a segment. *)
AtSegment == Called /\ ~Convertible(seg) /\ at < 8

(* >= for >: the last of the longest runs. *)
CountZeroLast ==
  /\ AtSegment
  /\ seg[at] = 0
  /\ cur_span_at' = IF cur_span_len = 0 THEN at ELSE cur_span_at
  /\ cur_span_len' = cur_span_len + 1
  /\ IF cur_span_len' >= zero_span_len
       THEN zero_span_len' = cur_span_len' /\ zero_span_at' = cur_span_at'
       ELSE UNCHANGED <<zero_span_len, zero_span_at>>
  /\ at' = at + 1
  /\ UNCHANGED <<addr, out>>

CountZero ==
  /\ AtSegment
  /\ seg[at] = 0
  /\ cur_span_at' = IF cur_span_len = 0 THEN at ELSE cur_span_at
  /\ cur_span_len' = cur_span_len + 1
  /\ IF cur_span_len' > zero_span_len
       THEN zero_span_len' = cur_span_len' /\ zero_span_at' = cur_span_at'
       ELSE UNCHANGED <<zero_span_len, zero_span_at>>
  /\ at' = at + 1
  /\ UNCHANGED <<addr, out>>

EndSpan ==
  /\ AtSegment
  /\ seg[at] # 0
  /\ cur_span_len' = 0
  /\ cur_span_at' = 0
  /\ at' = at + 1
  /\ UNCHANGED <<addr, zero_span_len, zero_span_at, out>>

(* Segments first .. last as a sequence. *)
Part(first, last) == [k \in 1 .. last - first + 1 |-> seg[first + k - 1]]

(* The last segment of the run written too: i not moved past the run. *)
SpanTextLate ==
  Written(Part(0, zero_span_at - 1), TRUE,
          Part(zero_span_at + zero_span_len - 1, 7), <<>>)

(* "::" for the run; the segments before or behind it may be none. *)
SpanText ==
  Written(Part(0, zero_span_at - 1), TRUE,
          Part(zero_span_at + zero_span_len, 7), <<>>)

FullText == Written(Part(0, 7), FALSE, <<>>, <<>>)

(* Runs of two and more are contracted. *)
PrintGeneral ==
  /\ Called
  /\ ~Convertible(seg)
  /\ at = 8
  /\ out' = IF zero_span_len > 1 THEN SpanText ELSE FullText
  /\ UNCHANGED <<addr, loop>>

PrintStep == PrintConvertible \/ CountZero \/ EndSpan \/ PrintGeneral

PrintNext ==
  \/ \E a \in Given : Make(a)
  \/ PrintStep

PrintSpec == PrintInit /\ [][PrintNext]_print

-----------------------------------------------------------------------------
(* Classes: masks on the Words in memory, whose low byte comes first.      *)

Low(w) == w % 256
High(w) == w \div 256

IsMulticast6(a) == Low(a[0]) = 255

Scopes == [s \in {1, 2, 3, 4, 5, 8, 14} |->
  CASE s = 1 -> "InterfaceLocal" [] s = 2 -> "LinkLocal" [] s = 3 -> "RealmLocal"
    [] s = 4 -> "AdminLocal" [] s = 5 -> "SiteLocal" [] s = 8 -> "OrganizationLocal"
    [] s = 14 -> "Global"]

MulticastScope(a) ==
  LET s == High(a[0]) % 16 IN
    IF IsMulticast6(a) /\ s \in DOMAIN Scopes THEN Scopes[s] ELSE "nullopt"

IsUnspecified6(a) == \A k \in 0 .. 7 : a[k] = 0
IsLoopback6(a) == (\A k \in 0 .. 6 : a[k] = 0) /\ a[7] = 256

(* The bytes of the mask taken in the other order. *)
IsUniqueLocalSwapped(a) == High(a[0]) \div 2 = 126

IsUniqueLocal(a) == Low(a[0]) \div 2 = 126
IsUnicastLinkLocalStrict(a) ==
  Low(a[0]) = 254 /\ High(a[0]) = 128 /\ \A k \in 1 .. 3 : a[k] = 0
IsUnicastLinkLocal(a) == Low(a[0]) = 254 /\ High(a[0]) \div 64 = 2
IsUnicastSiteLocal(a) == Low(a[0]) = 254 /\ High(a[0]) \div 64 = 3
IsDocumentation6(a) == a[0] = 32 + 256 * 1 /\ a[1] = 13 + 256 * 184

IsUnicastGlobal(a) ==
  /\ ~IsMulticast6(a) /\ ~IsLoopback6(a) /\ ~IsUnicastLinkLocal(a)
  /\ ~IsUniqueLocal(a) /\ ~IsUnspecified6(a) /\ ~IsDocumentation6(a)

IsGlobal6(a) == MulticastScope(a) = "Global" \/ IsUnicastGlobal(a)

(* The tuples of Words in memory order. *)
Less6InMemory(a, b) == Precedes(a, b)

(* operator<: the segments compared as tuples. *)
Less6(a, b) == Precedes(Segments(a), Segments(b))

(* operator==. *)
Equal6(a, b) == \A k \in 0 .. 7 : a[k] = b[k]

-----------------------------------------------------------------------------
(* Properties. *)

PrintTypeOK ==
  /\ addr \in RawAddress \cup {Absent}
  /\ at \in 0 .. 8
  /\ zero_span_len \in 0 .. 8 /\ zero_span_at \in 0 .. 7
  /\ cur_span_len \in 0 .. 8 /\ cur_span_at \in 0 .. 7
  /\ out \in [left : Seq(Word), gap : BOOLEAN, right : Seq(Word), quad : Seq(Byte)]
              \cup {Printing}

(* Zero segments from first on, len of them, among the first n. *)
IsSpan(first, len, n) ==
  first + len <= n /\ \A k \in first .. first + len - 1 : seg[k] = 0

(* The comments in operator std::string: "Determine the longest span of    *)
(* consecutive zero-segments".  After every turn of the loop it knows a    *)
(* longest one of the segments seen, and of several the first.             *)
SpanIsLongest ==
  addr # Absent =>
    /\ IsSpan(zero_span_at, zero_span_len, at)
    /\ \A first \in 0 .. at - 1 : \A len \in 1 .. at - first :
         IsSpan(first, len, at) =>
           \/ len < zero_span_len
           \/ len = zero_span_len /\ zero_span_at <= first

(* The segments a text gives behind "::", those of its dotted quad last.   *)
Trailing(t) ==
  IF t.quad = <<>> THEN t.right
  ELSE t.right \o <<256 * t.quad[1] + t.quad[2], 256 * t.quad[3] + t.quad[4]>>

(* The address a reader of a text understands: "::" stands for the zeros   *)
(* that are missing.                                                       *)
Understood(t) ==
  LET l == Len(t.left)
      r == Len(Trailing(t)) IN
    [k \in 0 .. 7 |-> IF k < l THEN t.left[k + 1]
                      ELSE IF k >= 8 - r THEN Trailing(t)[k - 7 + r] ELSE 0]

(* The comments in operator std::string give "::" and "::1" to the two     *)
(* addresses whose other segments are all 0: a text denotes the address it *)
(* was made from.  Refuted by ::ffff:0.0.0.0 and ::ffff:0.0.0.1.           *)
TextDenotesAddress == out # Printing => Understood(out) = seg

(* Apart from these two every address prints as a text that denotes it, so *)
(* that no two of them print alike, and "::" never stands for one segment. *)
MappedZeroOrOne == Convertible(seg) /\ seg[5] # 0 /\ seg[6] = 0 /\ seg[7] \in {0, 1}
OthersDenoteThemselves ==
  out # Printing /\ ~MappedZeroOrOne =>
    /\ Understood(out) = seg
    /\ out.gap <=> Len(out.left) + Len(out.right) < 7

(* The blocks the descriptions of the members give. *)
Blocks6 == [
  multicast |-> Block(<<255>>, 8),
  unspecified |-> Block(<<>>, 128),
  loopback |-> Block(<<0, 0, 0, 0, 0, 0, 0, 0, 0, 0, 0, 0, 0, 0, 0, 1>>, 128),
  uniqueLocal |-> Block(<<252>>, 7),
  linkLocal |-> Block(<<254, 128>>, 10),
  linkLocalStrict |-> Block(<<254, 128>>, 64),
  siteLocal |-> Block(<<254, 192>>, 10),
  documentation |-> Block(<<32, 1, 13, 184>>, 32)]

(* The bytes of an address in network order, which is that of memory.      *)
InMemory(a) == [k \in 0 .. 15 |-> IF k % 2 = 0 THEN Low(a[k \div 2]) ELSE High(a[k \div 2])]

(* operator< orders addresses as numbers of 128 bits, most significant     *)
(* byte first, and tells of two of them that neither is smaller when       *)
(* operator== tells that they are equal.                                   *)
OrderIsNumeric ==
  out # Printing =>
    \A b \in Given :
      /\ Less6(addr, b) <=> Precedes(InMemory(addr), InMemory(b))
      /\ Less6(addr, b) \/ Less6(b, addr) \/ Equal6(addr, b)
      /\ ~(Less6(addr, b) /\ Less6(b, addr)) /\ ~(Less6(addr, b) /\ Equal6(addr, b))

(* The masks on Words in memory order agree with the blocks in the         *)
(* members' descriptions, and is_global with all of them.                  *)
ClassesAreBlocks6 ==
  out # Printing =>
    LET a == addr
        Of6(class) == InBlock(InMemory(a), Blocks6[class]) IN
      /\ IsMulticast6(a) = Of6("multicast")
      /\ IsUnspecified6(a) = Of6("unspecified")
      /\ IsLoopback6(a) = Of6("loopback")
      /\ IsUniqueLocal(a) = Of6("uniqueLocal")
      /\ IsUnicastLinkLocal(a) = Of6("linkLocal")
      /\ IsUnicastLinkLocalStrict(a) = Of6("linkLocalStrict")
      /\ IsUnicastSiteLocal(a) = Of6("siteLocal")
      /\ IsDocumentation6(a) = Of6("documentation")
      /\ IsGlobal6(a) =
           IF Of6("multicast") THEN seg[0] % 16 = 14
           ELSE ~\E class \in DOMAIN Blocks6 \ {"siteLocal"} : Of6(class)
=============================================================================
