-------------------------------- MODULE IpAddr --------------------------------
(***************************************************************************)
(* IPv4 and IPv6 addresses together: a text is parsed as an IPv4 address,  *)
(* the address is made an IPv6 address in one of two ways and printed, or  *)
(* an IPv6 address is made directly and printed.                           *)
(***************************************************************************)
EXTENDS Ipv4Addr, Ipv6Addr

(* The bytes of a Word taken in the host's order. *)
CombinedHostOrder(a, sixth) ==
  [k \in 0 .. 7 |->
    CASE k = 5 -> sixth
      [] k = 6 -> 256 * a[0] + a[1]
      [] k = 7 -> 256 * a[2] + a[3]
      [] OTHER -> 0]

Combined(a, sixth) ==
  [k \in 0 .. 7 |->
    CASE k = 5 -> sixth
      [] k = 6 -> a[0] + 256 * a[1]
      [] k = 7 -> a[2] + 256 * a[3]
      [] OTHER -> 0]

ToIpv6Compatible(a) == Combined(a, 0)
ToIpv6Mapped(a) == Combined(a, 65535)

(* Mapped addresses forgotten. *)
ToIpv4CompatibleOnly(a) ==
  LET s == Segments(a) IN
    IF \A k \in 0 .. 5 : s[k] = 0
      THEN [k \in 0 .. 3 |-> Bytes(s[6 + k \div 2])[1 + (k % 2)]] ELSE Nullopt

(* Ipv6Addr::to_ipv4. *)
ToIpv4(a) ==
  LET s == Segments(a) IN
    IF Convertible(s)
      THEN [k \in 0 .. 3 |-> Bytes(s[6 + k \div 2])[1 + (k % 2)]] ELSE Nullopt

Init == ParseInit /\ PrintInit

(* The address that was read is converted, to be printed. *)
Convert ==
  /\ result \in Address
  /\ Make(ToIpv6Compatible(result)) \/ Make(ToIpv6Mapped(result))

Next ==
  \/ addr = Absent /\ ParseNext /\ UNCHANGED print
  \/ \E a \in Given : result = Idle /\ Make(a) /\ UNCHANGED parse
  \/ Convert /\ UNCHANGED parse
  \/ PrintStep /\ UNCHANGED parse

Spec == Init /\ [][Next]_<<parse, print>>

-----------------------------------------------------------------------------
(* Properties. *)

TypeOK == ParseTypeOK /\ PrintTypeOK

(* to_ipv4's description: of an address made from an IPv4 address in       *)
(* either way it gives that address back; of others, only when they are    *)
(* IPv4-compatible or IPv4-mapped.                                         *)
ConvertsBack ==
  addr # Absent =>
    IF result \in Address THEN ToIpv4(addr) = result
    ELSE ToIpv4(addr) # Nullopt =>
           addr \in {ToIpv6Compatible(ToIpv4(addr)), ToIpv6Mapped(ToIpv4(addr))}

(* 0.0.0.0 and 0.0.0.1. *)
FirstTwo == {[k \in 0 .. 3 |-> IF k = 3 THEN n ELSE 0] : n \in {0, 1}}

(* From text to text through two byte orders: an IPv4 address that was     *)
(* read, converted and printed ends in the dotted quad of its own octets,  *)
(* behind "::ffff:" exactly when it was mapped.  The first two, taken for  *)
(* "::" and "::1", have no quad.                                           *)
KeepsItsQuad ==
  out # Printing /\ result \in Address =>
    IF result \in FirstTwo THEN out.quad = <<>>
    ELSE /\ out.quad = <<result[0], result[1], result[2], result[3]>>
         /\ out.right = IF addr = ToIpv6Mapped(result) THEN Ffff ELSE <<>>
=============================================================================
