-------------------------- MODULE LocalClasses_proofs --------------------------
(***************************************************************************)
(* Theorems about Socket, the plain values and IoSpanMut, for any number   *)
(* of objects, descriptors and sockets, for all ports and offsets, and for *)
(* buffers of every size; and about these and the addresses side by side.  *)
(***************************************************************************)
EXTENDS LocalClasses, IpAddr_proofs

-----------------------------------------------------------------------------
(* Socket. *)

(* A socket of the system stays under one value for its whole life, and an *)
(* object made for it keeps that value.                                    *)
OnePlaceEach ==
  /\ \A d, e \in Desc : table[d] # NoConn /\ table[d] = table[e] => d = e
  /\ \A s \in Storage, d \in Desc :
       Built(s) /\ title[s] # NoConn /\ table[d] = title[s] => d = raw[s]
  /\ \A d \in Desc : table[d] \in used \cup {NoConn}
  /\ \A s \in Storage : title[s] \in used \cup {NoConn}

(* What the application has not wrapped is open. *)
AppHeld == winsock # "cleaned" => \A d \in app \ spread : table[d] # NoConn

SocketInv == SocketTypeOK /\ OnePlaceEach /\ AppHeld /\ HeldUnlessSpread

LEMMA SocketInitInv == SocketInit => SocketInv
BY SocketSentinels DEF SocketInit, SocketInv, SocketTypeOK, OnePlaceEach, AppHeld,
   HeldUnlessSpread, Built

LEMMA StartUpInv ==
  ASSUME SocketInv, NEW ok \in BOOLEAN, StartUp(ok) PROVE SocketInv'
<1>1. SocketTypeOK'
  BY DEF StartUp, SocketInv, SocketTypeOK
<1>2. OnePlaceEach'
  BY DEF StartUp, SocketInv, OnePlaceEach, Built
<1>3. AppHeld' /\ HeldUnlessSpread'
  BY DEF StartUp, SocketInv, AppHeld, HeldUnlessSpread, Built
<1> QED BY <1>1, <1>2, <1>3 DEF SocketInv

LEMMA ExitInv == SocketInv /\ Exit => SocketInv'
<1> SUFFICES ASSUME SocketInv, Exit PROVE SocketInv'
  OBVIOUS
<1>1. SocketTypeOK'
  BY DEF Exit, SocketInv, SocketTypeOK
<1>2. OnePlaceEach'
  BY DEF Exit, SocketInv, OnePlaceEach, Built
<1>3. AppHeld' /\ HeldUnlessSpread'
  BY DEF Exit, SocketInv, AppHeld, HeldUnlessSpread, Built
<1> QED BY <1>1, <1>2, <1>3 DEF SocketInv

(* The value given out is one that no unspread object has. *)
LEMMA OpenInv ==
  ASSUME SocketInv, NEW c \in Conn, NEW d \in Desc, Open(c, d) PROVE SocketInv'
<1>1. SocketTypeOK'
  BY DEF Open, SocketInv, SocketTypeOK
<1>2. \A e \in Desc : table'[e] = IF e = d THEN c ELSE table[e]
  BY DEF Open, SocketInv, SocketTypeOK
<1>3. c # NoConn /\ c \notin used /\ used' = used \cup {c} /\ table[d] = NoConn
  BY SocketSentinels DEF Open
<1>4. OnePlaceEach'
  BY <1>2, <1>3 DEF Open, SocketInv, OnePlaceEach, Built
<1>5. AppHeld' /\ HeldUnlessSpread'
  BY <1>2, <1>3 DEF Open, SocketInv, SocketTypeOK, AppHeld, HeldUnlessSpread, Built
<1> QED BY <1>1, <1>4, <1>5 DEF SocketInv

LEMMA CloseRawInv ==
  ASSUME SocketInv, NEW d \in Desc, CloseRaw(d) PROVE SocketInv'
<1>1. SocketTypeOK'
  BY DEF CloseRaw, Close, SocketInv, SocketTypeOK
<1>2. \A e \in Desc : table'[e] = IF e = d THEN NoConn ELSE table[e]
  BY DEF CloseRaw, Close, SocketInv, SocketTypeOK
<1>3. OnePlaceEach'
  BY <1>2 DEF CloseRaw, SocketInv, OnePlaceEach, Built
<1>4. AppHeld' /\ HeldUnlessSpread'
  BY <1>2 DEF CloseRaw, SocketInv, SocketTypeOK, AppHeld, HeldUnlessSpread, Built
<1> QED BY <1>1, <1>3, <1>4 DEF SocketInv

LEMMA ConstructSocketInv ==
  ASSUME SocketInv, NEW s \in Storage, NEW d \in Desc, ConstructSocket(s, d)
  PROVE  SocketInv'
<1>1. SocketTypeOK'
  BY DEF ConstructSocket, SocketInv, SocketTypeOK
<1>2. /\ \A r \in Storage : raw'[r] = IF r = s THEN d ELSE raw[r]
      /\ \A r \in Storage : title'[r] = IF r = s THEN table[d] ELSE title[r]
      /\ d # NoSocket
  BY SocketSentinels DEF ConstructSocket, SocketInv, SocketTypeOK
<1>3. OnePlaceEach'
  BY <1>2 DEF ConstructSocket, SocketInv, OnePlaceEach, Built
<1>4. AppHeld'
  BY DEF ConstructSocket, SocketInv, AppHeld
<1>5. HeldUnlessSpread'
  BY <1>2 DEF ConstructSocket, SocketInv, AppHeld, HeldUnlessSpread, Built
<1> QED BY <1>1, <1>3, <1>4, <1>5 DEF SocketInv

(* A copy, in storage that was free or over another object: both objects   *)
(* hold a value that is spread from now on.                                *)
LEMMA GiveInv ==
  ASSUME SocketInv, NEW s \in Storage, NEW r \in Storage, Built(r),
         spread' = spread \cup {raw[r]}, Give(s, r)
  PROVE  SocketInv'
<1>1. SocketTypeOK'
  BY DEF Give, SocketInv, SocketTypeOK, Built
<1>2. /\ \A q \in Storage : raw'[q] = IF q = s THEN raw[r] ELSE raw[q]
      /\ \A q \in Storage : title'[q] = IF q = s THEN title[r] ELSE title[q]
  BY DEF Give, SocketInv, SocketTypeOK
<1>3. OnePlaceEach'
  BY <1>2 DEF Give, SocketInv, OnePlaceEach, Built
<1>4. AppHeld'
  BY DEF Give, SocketInv, AppHeld
<1>5. HeldUnlessSpread'
  BY <1>2 DEF Give, SocketInv, HeldUnlessSpread, Built
<1> QED BY <1>1, <1>3, <1>4, <1>5 DEF SocketInv

LEMMA DestroySocketInv ==
  ASSUME SocketInv, NEW s \in Storage, DestroySocket(s) PROVE SocketInv'
<1>1. SocketTypeOK'
  BY DEF DestroySocket, Close, SocketInv, SocketTypeOK
<1>2. raw[s] \in Desc
  BY DEF DestroySocket, Built, SocketInv, SocketTypeOK
<1>3. /\ \A e \in Desc : table'[e] = IF e = raw[s] THEN NoConn ELSE table[e]
      /\ \A r \in Storage : raw'[r] = IF r = s THEN NoSocket ELSE raw[r]
      /\ \A r \in Storage : title'[r] = IF r = s THEN NoConn ELSE title[r]
  BY <1>2 DEF DestroySocket, Close, SocketInv, SocketTypeOK
<1>4. OnePlaceEach'
  BY <1>3 DEF DestroySocket, SocketInv, OnePlaceEach, Built
<1>5. AppHeld'
  BY <1>2, <1>3 DEF DestroySocket, SocketInv, SocketTypeOK, AppHeld, HeldUnlessSpread, Built
<1>6. HeldUnlessSpread'
  BY <1>2, <1>3 DEF DestroySocket, SocketInv, SocketTypeOK, HeldUnlessSpread, Built
<1> QED BY <1>1, <1>4, <1>5, <1>6 DEF SocketInv

LEMMA SocketStep == SocketInv /\ [SocketNext]_sockets => SocketInv'
<1> SUFFICES ASSUME SocketInv, [SocketNext]_sockets PROVE SocketInv'
  OBVIOUS
<1>1. CASE UNCHANGED sockets
  BY <1>1 DEF sockets, SocketInv, SocketTypeOK, OnePlaceEach, AppHeld, HeldUnlessSpread, Built
<1>2. CASE \E ok \in BOOLEAN : StartUp(ok)
  BY <1>2, StartUpInv
<1>3. CASE Exit
  BY <1>3, ExitInv
<1>4. CASE \E c \in Conn, d \in Desc : Open(c, d)
  BY <1>4, OpenInv
<1>5. CASE \E d \in Desc : CloseRaw(d)
  BY <1>5, CloseRawInv
<1>6. CASE \E s \in Storage, d \in Desc : ConstructSocket(s, d)
  BY <1>6, ConstructSocketInv
<1>7. CASE \E s, r \in Storage : CopySocket(s, r)
  BY <1>7, GiveInv DEF CopySocket
<1>8. CASE \E s, r \in Storage : AssignSocket(s, r)
  BY <1>8, GiveInv DEF AssignSocket
<1>9. CASE \E s \in Storage : DestroySocket(s)
  BY <1>9, DestroySocketInv
<1> QED
  BY Zenon, <1>1, <1>2, <1>3, <1>4, <1>5, <1>6, <1>7, <1>8, <1>9 DEF SocketNext

(* The invariant of the socket table holds throughout. *)
THEOREM SocketInvHolds == SocketSpec => []SocketInv
BY SocketInitInv, SocketStep, PTL DEF SocketSpec

(* Socket.h: an object whose value was never copied denotes the socket it  *)
(* was made for, alone, until the process ends.                            *)
THEOREM UnspreadSocketsHold == SocketSpec => []HeldUnlessSpread
<1>1. SocketInv => HeldUnlessSpread
  BY DEF SocketInv
<1> QED BY <1>1, SocketInvHolds, PTL

(* The types of the socket model. *)
THEOREM SocketTypes == SocketSpec => []SocketTypeOK
<1>1. SocketInv => SocketTypeOK
  BY DEF SocketInv
<1> QED BY <1>1, SocketInvHolds, PTL

(* Socket.h: a socket stays open without an object only behind an          *)
(* assignment: a destructor closes the value its socket is under.          *)
THEOREM OnlyAssignLeaks == SocketSpec => LeakOnlyByAssign
<1>1. ASSUME SocketInv, [SocketNext]_sockets,
             NEW c \in Conn, Keepers(c) # {}, Keepers(c)' = {},
             NEW e \in Desc, table'[e] = c
      PROVE  \E s \in Keepers(c) : raw'[s] # NoSocket
  <2>1. PICK s \in Storage : Built(s) /\ title[s] = c
    BY <1>1 DEF Keepers
  <2>2. SUFFICES ASSUME raw'[s] = NoSocket PROVE FALSE
    BY <2>1, <1>1 DEF Keepers
  <2>3. DestroySocket(s)
    <3>1. ASSUME NEW d \in Desc, ConstructSocket(s, d) PROVE FALSE
      BY <3>1, <2>1 DEF ConstructSocket
    <3>2. ASSUME NEW q \in Storage, NEW r \in Storage, Give(q, r), Built(r) PROVE FALSE
      BY <3>2, <2>1, <2>2, <1>1 DEF Give, Built, SocketInv, SocketTypeOK
    <3>3. ASSUME NEW q \in Storage, NEW d \in Desc, ConstructSocket(q, d) PROVE FALSE
      BY <3>3, <2>1, <2>2, <1>1, SocketSentinels
         DEF ConstructSocket, Built, SocketInv, SocketTypeOK
    <3>4. ASSUME NEW q \in Storage, DestroySocket(q) PROVE q = s
      BY <3>4, <2>1, <2>2, <1>1 DEF DestroySocket, Built, SocketInv, SocketTypeOK
    <3>5. raw' # raw
      BY <2>1, <2>2 DEF Built
    <3>6. SocketNext
      BY <1>1, <3>5 DEF sockets
    <3> QED
      BY <3>2, <3>3, <3>4, <3>5, <3>6
         DEF SocketNext, StartUp, Exit, Open, CloseRaw, CopySocket, AssignSocket
  <2>4. raw[s] \in Desc
    BY <2>1, <1>1 DEF Built, SocketInv, SocketTypeOK
  <2>5. e # raw[s] /\ table[e] = c
    BY <2>3, <2>4, <1>1, SocketSentinels DEF DestroySocket, Close, SocketInv, SocketTypeOK
  <2> QED BY <2>1, <2>5, <1>1, SocketSentinels DEF SocketInv, OnePlaceEach
<1>2. SocketInv /\ [SocketNext]_sockets =>
        [\A c \in Conn :
           LET lost == Keepers(c) # {} /\ Keepers(c)' = {} IN
             (lost /\ (\E d \in Desc : table[d] = c) /\ (\E d \in Desc : table'[d] = c)) =>
               \E s \in Keepers(c) : raw'[s] # NoSocket]_sockets
  BY <1>1 DEF sockets
<1> QED BY <1>2, SocketInvHolds, PTL DEF SocketSpec, LeakOnlyByAssign

-----------------------------------------------------------------------------
(* The plain values. *)

(* A port in network order, exchanged again, is the port. *)
LEMMA NetworkOrderTwice ==
  ASSUME NEW p \in PortNumber
  PROVE  NetworkOrder(p) \in PortNumber /\ NetworkOrder(NetworkOrder(p)) = p
<1>1. p \in Nat /\ p <= 65535
  <2>1. p \in Nat /\ p <= MaxPort
    BY DEF PortNumber
  <2> QED BY <2>1 DEF MaxPort
<1>2. PICK h \in Nat, l \in Nat : h <= 255 /\ l <= 255 /\ p = h * 256 + l
  <2>1. p \div 256 \in Nat
    BY <1>1
  <2>2. p \div 256 <= 255
    BY <1>1
  <2>3. p % 256 \in Nat /\ p % 256 <= 255
    BY <1>1
  <2>4. p % 256 = p - 256 * (p \div 256)
    BY <1>1
  <2> QED BY <1>1, <2>1, <2>2, <2>3, <2>4
<1>3. ASSUME NEW a \in Nat, NEW b \in Nat, a <= 255, b <= 255
      PROVE  NetworkOrder(a * 256 + b) = b * 256 + a
  <2>1. (a * 256 + b) \div 256 = a
    BY <1>3
  <2>2. ((a * 256 + b) * 256) % 65536 = b * 256
    BY <1>3
  <2> QED BY <2>1, <2>2 DEF NetworkOrder, MaxPort
<1>4. NetworkOrder(p) = l * 256 + h /\ NetworkOrder(l * 256 + h) = p
  BY <1>2, <1>3
<1>5. l * 256 + h \in Nat /\ l * 256 + h <= 65535
  BY <1>2
<1>6. l * 256 + h \in PortNumber
  <2>1. ASSUME NEW n \in Nat, n <= MaxPort PROVE n \in PortNumber
    BY <2>1 DEF PortNumber
  <2> QED BY <1>5, <2>1 DEF MaxPort
<1> QED BY SMTT(30), <1>4, <1>6

(* The halves of an offset are DWORDs, and together the offset. *)
LEMMA HalvesOfOffset ==
  ASSUME NEW n \in Qword
  PROVE  /\ LowHalf(n) \in Dword
         /\ HighHalf(n) \in Dword
         /\ LowHalf(n) + HighHalf(n) * DwordLimit = n
<1>1. n \in Nat /\ DwordLimit \in Nat /\ DwordLimit > 0 /\ n < DwordLimit * DwordLimit
  BY ValueConstants DEF Qword
<1>2. n % DwordLimit \in Nat /\ n % DwordLimit < DwordLimit
  BY <1>1
<1>3. n \div DwordLimit \in Nat
  BY <1>1
<1>4. n % DwordLimit = n - DwordLimit * (n \div DwordLimit)
  BY <1>1
<1>5. ASSUME NEW q \in Nat, NEW r \in Nat, NEW D \in Nat, D > 0, r = n - D * q, n < D * D
      PROVE  q < D /\ r + q * D = n
  <2>1. SUFFICES ASSUME q >= D PROVE FALSE
    BY <1>1, <1>5
  <2>2. D * q >= D * D
    BY <1>5, <2>1
  <2> QED BY <1>1, <1>5, <2>2
<1>6. /\ n \div DwordLimit < DwordLimit
      /\ (n % DwordLimit) + (n \div DwordLimit) * DwordLimit = n
  BY <1>1, <1>2, <1>3, <1>4, <1>5
<1> QED BY <1>1, <1>2, <1>3, <1>6 DEF LowHalf, HighHalf, Dword

(* What the getters tell, class by class. *)
LEMMA GettersV4 ==
  ASSUME NEW s \in SockaddrIn
  PROVE  Getters(s) = In4(s.family, PortOf(s), s.addr) /\ s = In4(s.family, s.port, s.addr)
BY DEF SockaddrIn, Getters, In4

LEMMA GettersV6 ==
  ASSUME NEW s \in SockaddrIn6
  PROVE  /\ Getters(s) = In6(s.family, PortOf(s), s.flow, s.addr, s.scope)
         /\ s = In6(s.family, s.port, s.flow, s.addr, s.scope)
BY DEF SockaddrIn6, Getters, In6

LEMMA GettersOv ==
  ASSUME NEW s \in OvStructure
  PROVE  /\ Getters(s) = [class |-> "Overlapped", offset |-> OffsetOf(s), event |-> s.event]
         /\ s = Ov(s.low, s.high, s.event)
BY DEF OvStructure, Getters, Ov

LEMMA GettersPlain ==
  ASSUME NEW s \in Ip4Object \cup Ip6Object \cup StatusEntry
  PROVE  Getters(s) = s
BY DEF Ip4Object, Ip6Object, StatusEntry, Getters

(* The class of a structure says which it is. *)
LEMMA StructureOfClass ==
  ASSUME NEW s \in Structure
  PROVE  /\ s.class \in Class
         /\ s.class = "SocketAddrV4" => s \in SockaddrIn
         /\ s.class = "SocketAddrV6" => s \in SockaddrIn6
         /\ s.class = "Overlapped" => s \in OvStructure
BY DEF Structure, Ip4Object, Ip6Object, SockaddrIn, SockaddrIn6, OvStructure, StatusEntry,
   Class, AddressClass, SocketClass, IocpClass

LEMMA GettersKeepClass == ASSUME NEW s \in Structure PROVE Getters(s).class = s.class
<1>1. CASE s \in SockaddrIn
  BY <1>1, GettersV4 DEF In4
<1>2. CASE s \in SockaddrIn6
  BY <1>2, GettersV6 DEF In6
<1>3. CASE s \in OvStructure
  BY <1>3, GettersOv DEF Ov
<1>4. CASE s \in Ip4Object \cup Ip6Object \cup StatusEntry
  BY <1>4, GettersPlain
<1> QED BY <1>1, <1>2, <1>3, <1>4 DEF Structure

LEMMA BlankStructure == ASSUME NEW c \in Class PROVE Blank[c] \in Structure /\ Blank[c].class = c
<1>1. 0 \in PortNumber /\ 0 \in Number32 /\ 0 \in Dword
  <2>1. MaxPort \in Nat
    BY DEF MaxPort
  <2> QED BY <2>1, ValueConstants DEF PortNumber, Dword
<1>2. Ip("Ipv4Addr", Zero4) \in Ip4Object /\ Ip("Ipv6Addr", Zero6) \in Ip6Object
  BY ValueConstants DEF Ip, Ip4Object, Ip6Object
<1>3. In4("none", 0, Zero4) \in SockaddrIn
  BY <1>1, ValueConstants DEF In4, SockaddrIn, Family
<1>4. In6("none", 0, 0, Zero6, 0) \in SockaddrIn6
  BY <1>1, ValueConstants DEF In6, SockaddrIn6, Family
<1>5. Ov(0, 0, Null) \in OvStructure
  BY <1>1, ValueConstants DEF Ov, OvStructure
<1>6. Entry(Null, Null, 0) \in StatusEntry
  BY <1>1, ValueConstants DEF Entry, StatusEntry
<1>7. /\ Blank["Ipv4Addr"] = Ip("Ipv4Addr", Zero4)
      /\ Blank["Ipv6Addr"] = Ip("Ipv6Addr", Zero6)
      /\ Blank["SocketAddrV4"] = In4("none", 0, Zero4)
      /\ Blank["SocketAddrV6"] = In6("none", 0, 0, Zero6, 0)
      /\ Blank["Overlapped"] = Ov(0, 0, Null)
      /\ Blank["CompletionStatus"] = Entry(Null, Null, 0)
  BY DEF Blank
<1>8. Blank[c] \in Structure
  <2>1. \A b \in {Blank["Ipv4Addr"], Blank["Ipv6Addr"], Blank["SocketAddrV4"],
                 Blank["SocketAddrV6"], Blank["Overlapped"], Blank["CompletionStatus"]} :
          b \in Structure
    BY ONLY <1>2, <1>3, <1>4, <1>5, <1>6, <1>7 DEF Structure
  <2> QED BY ONLY <2>1, c \in Class DEF Class, AddressClass, SocketClass, IocpClass
<1>9. Blank[c].class = c
  BY <1>7 DEF Class, AddressClass, SocketClass, IocpClass, Ip, In4, In6, Ov, Entry
<1> QED BY <1>8, <1>9

(* What is told, v, of a socket address s whose flow information was set.  *)
Strayed(s, v, a) ==
  /\ s \in SockaddrIn6 /\ v \in SockaddrIn6
  /\ v.family = s.family /\ v.addr = s.addr /\ v.scope = s.scope
  /\ "port" \notin a => v.port = NetworkOrder(s.port)
  /\ "flow" \in a

Fits(s, v, a) ==
  \/ s = NoObject /\ v = NoObject /\ a = {}
  \/ s # NoObject /\ v = Getters(s) /\ a = {}
  \/ s # NoObject /\ Strayed(s, v, a)

(* The objects and what was told of them, together. *)
ValueInv ==
  /\ ValueTypeOK
  /\ DOMAIN told = Object
  /\ \A o \in Object : Fits(inner[o], told[o], astray[o])

LEMMA ValueInitInv == ValueInit => ValueInv
BY DEF ValueInit, Promise!Init, ValueInv, ValueTypeOK, Fits

(* One object changes, and the promise with it. *)
LEMMA OneChanges ==
  ASSUME ValueInv, NEW o \in Object, NEW s \in Structure \cup {NoObject}, NEW v,
         NEW a \in SUBSET {"port", "flow"},
         inner' = [inner EXCEPT ![o] = s],
         told' = [told EXCEPT ![o] = v],
         astray' = [astray EXCEPT ![o] = a],
         Fits(s, v, a)
  PROVE  ValueInv'
<1>1. ValueTypeOK'
  BY DEF ValueInv, ValueTypeOK
<1>2. DOMAIN told' = Object
  BY DEF ValueInv
<1>3. \A p \in Object : /\ inner'[p] = IF p = o THEN s ELSE inner[p]
                        /\ told'[p] = IF p = o THEN v ELSE told[p]
                        /\ astray'[p] = IF p = o THEN a ELSE astray[p]
  BY DEF ValueInv, ValueTypeOK
<1>4. \A p \in Object : Fits(inner'[p], told'[p], astray'[p])
  BY <1>3 DEF ValueInv
<1> QED BY <1>1, <1>2, <1>4 DEF ValueInv

LEMMA AstrayStays ==
  ASSUME ValueInv, NEW o \in Object
  PROVE  /\ astray[o] \in SUBSET {"port", "flow"}
         /\ astray = [astray EXCEPT ![o] = astray[o]]
BY DEF ValueInv, ValueTypeOK

LEMMA BuildInv ==
  ASSUME ValueInv, NEW o \in Object, NEW s \in Structure, Build(o, s, Getters(s))
  PROVE  ValueInv'
<1>1. s # NoObject /\ s \in Structure \cup {NoObject}
  BY ValueSentinel
<1>2. astray[o] = {}
  <2>1. Fits(inner[o], told[o], astray[o]) /\ inner[o] = NoObject
    BY DEF ValueInv, Build
  <2> QED BY <2>1 DEF Fits
<1>3. Fits(s, Getters(s), astray[o])
  BY <1>1, <1>2 DEF Fits
<1>4. /\ inner' = [inner EXCEPT ![o] = s] /\ told' = [told EXCEPT ![o] = Getters(s)]
      /\ astray' = [astray EXCEPT ![o] = astray[o]]
  BY AstrayStays DEF Build, Promise!Construct
<1> QED BY <1>1, <1>3, <1>4, AstrayStays, OneChanges

LEMMA MakeInv ==
  ASSUME ValueInv, NEW o \in Object,
         \/ \E class \in Class : MakeBlank(o, class)
         \/ \E ip \in Ip4 : MakeIp(o, "Ipv4Addr", ip)
         \/ \E ip \in Ip6 : MakeIp(o, "Ipv6Addr", ip)
         \/ \E s \in Filled : Wrap(o, s)
         \/ \E ip \in Ip4, port \in Number16 : MakeV4(o, ip, port)
         \/ \E ip \in Ip6, port \in Number16, flow, scope \in Number32 :
              MakeV6(o, ip, port, flow, scope)
         \/ \E bytes \in Number32, token, overlapped \in Pointer :
              MakeStatus(o, bytes, token, overlapped)
  PROVE  ValueInv'
<1>1. CASE \E class \in Class : MakeBlank(o, class)
  BY <1>1, BlankStructure, BuildInv DEF MakeBlank
<1>2. CASE \E ip \in Ip4 : MakeIp(o, "Ipv4Addr", ip)
  <2>1. PICK ip \in Ip4 : MakeIp(o, "Ipv4Addr", ip)
    BY <1>2
  <2>2. Ip("Ipv4Addr", ip) \in Ip4Object
    BY DEF Ip, Ip4Object
  <2>3. Ip("Ipv4Addr", ip) \in Structure /\ Getters(Ip("Ipv4Addr", ip)) = Ip("Ipv4Addr", ip)
    BY <2>2, GettersPlain DEF Structure
  <2> QED BY <2>1, <2>3, BuildInv DEF MakeIp
<1>3. CASE \E ip \in Ip6 : MakeIp(o, "Ipv6Addr", ip)
  <2>1. PICK ip \in Ip6 : MakeIp(o, "Ipv6Addr", ip)
    BY <1>3
  <2>2. Ip("Ipv6Addr", ip) \in Ip6Object
    BY DEF Ip, Ip6Object
  <2>3. Ip("Ipv6Addr", ip) \in Structure /\ Getters(Ip("Ipv6Addr", ip)) = Ip("Ipv6Addr", ip)
    BY <2>2, GettersPlain DEF Structure
  <2> QED BY <2>1, <2>3, BuildInv DEF MakeIp
<1>4. CASE \E s \in Filled : Wrap(o, s)
  <2>1. PICK s \in Filled : Wrap(o, s)
    BY <1>4
  <2>2. s \in Structure
    <3>1. CASE s \in [class : {"SocketAddrV4"}, family : {"inet"}, port : Number16, addr : Ip4]
      <4>1. s \in SockaddrIn
        BY <3>1, ValueConstants DEF SockaddrIn, Family
      <4> QED BY <4>1 DEF Structure
    <3>2. CASE s \in [class : {"SocketAddrV6"}, family : {"inet6"}, port : Number16,
                      flow : Number32, addr : Ip6, scope : {0}]
      <4>1. s \in SockaddrIn6
        BY <3>2, ValueConstants DEF SockaddrIn6, Family
      <4> QED BY <4>1 DEF Structure
    <3>3. CASE s \in {Ov(LowHalf(n), HighHalf(n), Null) : n \in Offset}
      <4>1. PICK n \in Offset : s = Ov(LowHalf(n), HighHalf(n), Null)
        BY <3>3
      <4>2. n \in Qword /\ Null \in Pointer
        BY ValueConstants
      <4>3. LowHalf(n) \in Dword /\ HighHalf(n) \in Dword
        BY ONLY <4>2, HalvesOfOffset
      <4>4. s \in OvStructure
        BY <4>1, <4>2, <4>3 DEF Ov, OvStructure
      <4> QED BY <4>4 DEF Structure
    <3> QED BY <3>1, <3>2, <3>3 DEF Filled
  <2> QED BY <2>1, <2>2, BuildInv DEF Wrap
<1>5. CASE \E ip \in Ip4, port \in Number16 : MakeV4(o, ip, port)
  <2>1. PICK ip \in Ip4, port \in Number16 : MakeV4(o, ip, port)
    BY <1>5
  <2>2. NetworkOrder(port) \in PortNumber /\ NetworkOrder(NetworkOrder(port)) = port
    BY NetworkOrderTwice, ValueConstants
  <2> DEFINE s == In4("inet", NetworkOrder(port), ip)
  <2>3. s \in SockaddrIn /\ s.family = "inet" /\ s.port = NetworkOrder(port) /\ s.addr = ip
    BY <2>2 DEF In4, SockaddrIn, Family
  <2>4. Getters(s) = In4("inet", port, ip)
    BY <2>2, <2>3, GettersV4 DEF PortOf
  <2> QED BY <2>1, <2>3, <2>4, BuildInv DEF MakeV4, Structure
<1>6. CASE \E ip \in Ip6, port \in Number16, flow, scope \in Number32 :
             MakeV6(o, ip, port, flow, scope)
  <2>1. PICK ip \in Ip6, port \in Number16, flow \in Number32, scope \in Number32 :
          MakeV6(o, ip, port, flow, scope)
    BY <1>6
  <2>2. NetworkOrder(port) \in PortNumber /\ NetworkOrder(NetworkOrder(port)) = port
    BY NetworkOrderTwice, ValueConstants
  <2> DEFINE s == In6("inet6", NetworkOrder(port), flow, ip, scope)
  <2>3. /\ s \in SockaddrIn6 /\ s.family = "inet6" /\ s.port = NetworkOrder(port)
        /\ s.flow = flow /\ s.addr = ip /\ s.scope = scope
    BY <2>2 DEF In6, SockaddrIn6, Family
  <2>4. Getters(s) = In6("inet6", port, flow, ip, scope)
    BY <2>2, <2>3, GettersV6 DEF PortOf
  <2> QED BY <2>1, <2>3, <2>4, BuildInv DEF MakeV6, Structure
<1>7. CASE \E bytes \in Number32, token, overlapped \in Pointer :
             MakeStatus(o, bytes, token, overlapped)
  <2>1. PICK bytes \in Number32, token \in Pointer, overlapped \in Pointer :
          MakeStatus(o, bytes, token, overlapped)
    BY <1>7
  <2> DEFINE s == Entry(token, overlapped, bytes)
  <2>2. s \in StatusEntry
    BY DEF Entry, StatusEntry
  <2>3. s \in Structure /\ Getters(s) = s
    BY <2>2, GettersPlain DEF Structure
  <2> QED BY <2>1, <2>3, BuildInv DEF MakeStatus
<1> QED BY <1>1, <1>2, <1>3, <1>4, <1>5, <1>6, <1>7

(* A copy, into storage that was free or over another object.              *)
LEMMA CopyInv ==
  ASSUME ValueInv, NEW o \in Object, NEW p \in Object, inner[p] # NoObject,
         inner' = [inner EXCEPT ![o] = inner[p]],
         told' = [told EXCEPT ![o] = told[p]],
         astray' = [astray EXCEPT ![o] = astray[p]]
  PROVE  ValueInv'
<1>1. inner[p] \in Structure /\ Fits(inner[p], told[p], astray[p])
  BY DEF ValueInv, ValueTypeOK
<1> QED BY <1>1, AstrayStays, OneChanges

(* What is told of an object has its class. *)
LEMMA FitsClass ==
  ASSUME NEW s \in Structure, NEW v, NEW a, Fits(s, v, a)
  PROVE  v.class = s.class /\ (s.class # "SocketAddrV6" => a = {} /\ v = Getters(s))
<1>1. s # NoObject
  BY ValueSentinel
<1>2. CASE v = Getters(s) /\ a = {}
  BY <1>2, GettersKeepClass
<1>3. CASE Strayed(s, v, a)
  BY <1>3 DEF Strayed, SockaddrIn6
<1> QED BY <1>1, <1>2, <1>3 DEF Fits

(* A move: the object that was moved from is blank, and so it is promised. *)
LEMMA MoveInv ==
  ASSUME ValueInv, NEW o \in Object, NEW p \in Object, Move(o, p) PROVE ValueInv'
<1>1. o # p /\ inner[p] \in Structure /\ Fits(inner[p], told[p], astray[p])
  BY DEF Move, ValueInv, ValueTypeOK
<1>2. inner[p].class \in Class /\ told[p].class = inner[p].class
  BY <1>1, StructureOfClass, FitsClass
<1> DEFINE blank == Blank[inner[p].class]
<1>3. blank \in Structure /\ blank # NoObject /\ inner[p] # NoObject
  BY <1>1, <1>2, BlankStructure, ValueSentinel
<1>4. /\ inner' = [inner EXCEPT ![o] = inner[p], ![p] = blank]
      /\ told' = [told EXCEPT ![o] = told[p], ![p] = Getters(blank)]
      /\ astray' = [astray EXCEPT ![o] = astray[p], ![p] = {}]
  BY <1>2 DEF Move, Promise!Move
<1> HIDE DEF blank
<1>5. ValueTypeOK' /\ DOMAIN told' = Object
  BY <1>1, <1>3, <1>4 DEF ValueInv, ValueTypeOK
<1>6. \A q \in Object :
        /\ inner'[q] = IF q = p THEN blank ELSE IF q = o THEN inner[p] ELSE inner[q]
        /\ told'[q] = IF q = p THEN Getters(blank) ELSE IF q = o THEN told[p] ELSE told[q]
        /\ astray'[q] = IF q = p THEN {} ELSE IF q = o THEN astray[p] ELSE astray[q]
  BY <1>1, <1>4 DEF ValueInv, ValueTypeOK
<1>7. Fits(blank, Getters(blank), {})
  BY <1>3 DEF Fits
<1>8. \A q \in Object : Fits(inner'[q], told'[q], astray'[q])
  BY <1>1, <1>6, <1>7 DEF ValueInv
<1> QED BY <1>5, <1>8 DEF ValueInv

(* A setter of a socket address: one field of the structure, and one of    *)
(* what was told.                                                          *)
LEMMA SettingV4 ==
  ASSUME NEW s \in SockaddrIn, NEW port \in PortNumber, NEW ip \in Ip4
  PROVE  /\ [s EXCEPT !["port"] = port] = In4(s.family, port, s.addr)
         /\ [s EXCEPT !["addr"] = ip] = In4(s.family, s.port, ip)
<1> DEFINE u == [s EXCEPT !["port"] = port]
           w == [s EXCEPT !["addr"] = ip]
<1>1. u \in SockaddrIn /\ u.family = s.family /\ u.port = port /\ u.addr = s.addr
  BY DEF SockaddrIn
<1>2. w \in SockaddrIn /\ w.family = s.family /\ w.port = s.port /\ w.addr = ip
  BY DEF SockaddrIn
<1> QED BY <1>1, <1>2, GettersV4

LEMMA SettingV6 ==
  ASSUME NEW s \in SockaddrIn6, NEW port \in PortNumber, NEW ip \in Ip6,
         NEW scope \in Number32
  PROVE  /\ [s EXCEPT !["port"] = port] = In6(s.family, port, s.flow, s.addr, s.scope)
         /\ [s EXCEPT !["addr"] = ip] = In6(s.family, s.port, s.flow, ip, s.scope)
         /\ [s EXCEPT !["scope"] = scope] = In6(s.family, s.port, s.flow, s.addr, scope)
<1> DEFINE u == [s EXCEPT !["port"] = port]
           w == [s EXCEPT !["addr"] = ip]
           z == [s EXCEPT !["scope"] = scope]
<1>1. /\ u \in SockaddrIn6 /\ u.family = s.family /\ u.port = port /\ u.flow = s.flow
      /\ u.addr = s.addr /\ u.scope = s.scope
  BY DEF SockaddrIn6
<1>2. /\ w \in SockaddrIn6 /\ w.family = s.family /\ w.port = s.port /\ w.flow = s.flow
      /\ w.addr = ip /\ w.scope = s.scope
  BY DEF SockaddrIn6
<1>3. /\ z \in SockaddrIn6 /\ z.family = s.family /\ z.port = s.port /\ z.flow = s.flow
      /\ z.addr = s.addr /\ z.scope = scope
  BY DEF SockaddrIn6
<1> QED BY <1>1, <1>2, <1>3, GettersV6

LEMMA In4Members ==
  ASSUME NEW family \in Family, NEW port \in PortNumber, NEW ip \in Ip4
  PROVE  /\ In4(family, port, ip) \in SockaddrIn
         /\ Getters(In4(family, port, ip)) = In4(family, NetworkOrder(port), ip)
<1> DEFINE s == In4(family, port, ip)
<1>1. s \in SockaddrIn /\ s.family = family /\ s.port = port /\ s.addr = ip
  BY DEF In4, SockaddrIn
<1> QED BY <1>1, GettersV4 DEF PortOf

LEMMA In6Members ==
  ASSUME NEW family \in Family, NEW port \in PortNumber, NEW flow \in Number32,
         NEW ip \in Ip6, NEW scope \in Number32
  PROVE  /\ In6(family, port, flow, ip, scope) \in SockaddrIn6
         /\ Getters(In6(family, port, flow, ip, scope))
              = In6(family, NetworkOrder(port), flow, ip, scope)
<1> DEFINE s == In6(family, port, flow, ip, scope)
<1>1. /\ s \in SockaddrIn6 /\ s.family = family /\ s.port = port /\ s.flow = flow
      /\ s.addr = ip /\ s.scope = scope
  BY DEF In6, SockaddrIn6
<1> QED BY <1>1, GettersV6 DEF PortOf

(* What is told of a socket address is a socket address too: its port is   *)
(* exchanged.                                                              *)
LEMMA GettersAreV4 ==
  ASSUME NEW s \in SockaddrIn
  PROVE  /\ Getters(s) \in SockaddrIn /\ Getters(s).family = s.family
         /\ Getters(s).port = NetworkOrder(s.port) /\ Getters(s).addr = s.addr
<1>1. s.family \in Family /\ s.port \in PortNumber /\ s.addr \in Ip4
  BY DEF SockaddrIn
<1>2. NetworkOrder(s.port) \in PortNumber /\ Getters(s) = In4(s.family, NetworkOrder(s.port), s.addr)
  BY <1>1, NetworkOrderTwice, GettersV4 DEF PortOf
<1>3. \A p, a, b : In4(a, p, b).family = a /\ In4(a, p, b).port = p /\ In4(a, p, b).addr = b
  BY DEF In4
<1> QED BY <1>1, <1>2, <1>3, In4Members

LEMMA GettersAreV6 ==
  ASSUME NEW s \in SockaddrIn6
  PROVE  /\ Getters(s) \in SockaddrIn6 /\ Getters(s).family = s.family
         /\ Getters(s).port = NetworkOrder(s.port) /\ Getters(s).flow = s.flow
         /\ Getters(s).addr = s.addr /\ Getters(s).scope = s.scope
<1>1. /\ s.family \in Family /\ s.port \in PortNumber /\ s.flow \in Number32 /\ s.addr \in Ip6
      /\ s.scope \in Number32
  BY DEF SockaddrIn6
<1>2. /\ NetworkOrder(s.port) \in PortNumber
      /\ Getters(s) = In6(s.family, NetworkOrder(s.port), s.flow, s.addr, s.scope)
  BY <1>1, NetworkOrderTwice, GettersV6 DEF PortOf
<1>3. \A a, p, f, b, c :
        LET t == In6(a, p, f, b, c) IN
          t.family = a /\ t.port = p /\ t.flow = f /\ t.addr = b /\ t.scope = c
  BY DEF In6
<1> QED BY <1>1, <1>2, <1>3, In6Members

(* A setter that gives a field of one object x, and tells of it y. *)
LEMMA SetFieldInv ==
  ASSUME ValueInv, NEW o \in Object, NEW field, NEW x, NEW y,
         NEW a \in SUBSET {"port", "flow"},
         [inner[o] EXCEPT ![field] = x] \in Structure,
         Fits([inner[o] EXCEPT ![field] = x], [told[o] EXCEPT ![field] = y], a),
         Update(o, [inner[o] EXCEPT ![field] = x]),
         Promise!Set(o, field, y),
         astray' = [astray EXCEPT ![o] = a]
  PROVE  ValueInv'
<1> DEFINE t == [inner[o] EXCEPT ![field] = x]
           v == [told[o] EXCEPT ![field] = y]
<1>1. inner' = [inner EXCEPT ![o] = t] /\ told' = [told EXCEPT ![o] = v]
  BY DEF Update, Promise!Set
<1>2. t \in Structure /\ Fits(t, v, a)
  OBVIOUS
<1> HIDE DEF t, v
<1> QED BY <1>1, <1>2, OneChanges

(* The fields of a socket address, and of what is told of it, set alike.   *)
LEMMA StrayedSetting ==
  ASSUME NEW s, NEW v, NEW a, Strayed(s, v, a), NEW port \in PortNumber,
         NEW ip \in Ip6, NEW scope \in Number32
  PROVE  /\ Strayed([s EXCEPT !["addr"] = ip], [v EXCEPT !["addr"] = ip], a)
         /\ Strayed([s EXCEPT !["scope"] = scope], [v EXCEPT !["scope"] = scope], a)
         /\ Strayed([s EXCEPT !["port"] = port], [v EXCEPT !["port"] = NetworkOrder(port)],
                    a \ {"port"})
<1>1. ASSUME NEW r \in SockaddrIn6, NEW n \in PortNumber
      PROVE  /\ LET u == [r EXCEPT !["addr"] = ip] IN
                  /\ u \in SockaddrIn6 /\ u.family = r.family /\ u.addr = ip
                  /\ u.scope = r.scope /\ u.port = r.port
             /\ LET u == [r EXCEPT !["scope"] = scope] IN
                  /\ u \in SockaddrIn6 /\ u.family = r.family /\ u.addr = r.addr
                  /\ u.scope = scope /\ u.port = r.port
             /\ LET u == [r EXCEPT !["port"] = n] IN
                  /\ u \in SockaddrIn6 /\ u.family = r.family /\ u.addr = r.addr
                  /\ u.scope = r.scope /\ u.port = n
  BY DEF SockaddrIn6
<1>2. s \in SockaddrIn6 /\ v \in SockaddrIn6 /\ NetworkOrder(port) \in PortNumber
  BY NetworkOrderTwice DEF Strayed
<1>3. Strayed([s EXCEPT !["addr"] = ip], [v EXCEPT !["addr"] = ip], a)
  BY <1>1, <1>2 DEF Strayed
<1>4. Strayed([s EXCEPT !["scope"] = scope], [v EXCEPT !["scope"] = scope], a)
  BY <1>1, <1>2 DEF Strayed
<1>5. Strayed([s EXCEPT !["port"] = port], [v EXCEPT !["port"] = NetworkOrder(port)],
              a \ {"port"})
  <2> DEFINE t == [s EXCEPT !["port"] = port]
             u == [v EXCEPT !["port"] = NetworkOrder(port)]
  <2>1. /\ t \in SockaddrIn6 /\ t.family = s.family /\ t.addr = s.addr /\ t.scope = s.scope
        /\ t.port = port
    BY <1>1, <1>2
  <2>2. /\ u \in SockaddrIn6 /\ u.family = v.family /\ u.addr = v.addr /\ u.scope = v.scope
        /\ u.port = NetworkOrder(port)
    BY <1>1, <1>2
  <2> HIDE DEF t, u
  <2>3. Strayed(t, u, a \ {"port"})
    BY <2>1, <2>2 DEF Strayed
  <2> QED BY <2>3 DEF t, u
<1> QED BY <1>3, <1>4, <1>5

LEMMA PortSetting ==
  ASSUME NEW s \in Structure, s.class \in SocketClass, NEW port \in PortNumber
  PROVE  /\ [s EXCEPT !["port"] = port] \in Structure
         /\ [Getters(s) EXCEPT !["port"] = NetworkOrder(port)]
              = Getters([s EXCEPT !["port"] = port])
<1>1. NetworkOrder(port) \in PortNumber
  BY NetworkOrderTwice
<1>2. CASE s.class = "SocketAddrV4"
  <2>1. s \in SockaddrIn
    BY <1>2, StructureOfClass
  <2>2. s.family \in Family /\ s.addr \in Ip4
    BY <2>1 DEF SockaddrIn
  <2> DEFINE t == [s EXCEPT !["port"] = port]
             g == Getters(s)
  <2>3. t = In4(s.family, port, s.addr)
    BY <2>1, <2>2, SettingV4
  <2>4. g \in SockaddrIn /\ g.family = s.family /\ g.addr = s.addr
    BY <2>1, GettersAreV4
  <2> HIDE DEF t, g
  <2>5. [g EXCEPT !["port"] = NetworkOrder(port)] = In4(s.family, NetworkOrder(port), s.addr)
    BY <1>1, <2>2, <2>4, SettingV4
  <2>6. t \in SockaddrIn /\ Getters(t) = In4(s.family, NetworkOrder(port), s.addr)
    BY <2>2, <2>3, In4Members
  <2>7. t \in Structure /\ [g EXCEPT !["port"] = NetworkOrder(port)] = Getters(t)
    BY <2>5, <2>6 DEF Structure
  <2> QED BY <2>7 DEF t, g
<1>3. CASE s.class = "SocketAddrV6"
  <2>1. s \in SockaddrIn6
    BY <1>3, StructureOfClass
  <2>2. s.family \in Family /\ s.flow \in Number32 /\ s.addr \in Ip6 /\ s.scope \in Number32
    BY <2>1 DEF SockaddrIn6
  <2> DEFINE t == [s EXCEPT !["port"] = port]
             g == Getters(s)
  <2>3. t = In6(s.family, port, s.flow, s.addr, s.scope)
    BY <2>1, <2>2, SettingV6
  <2>4. /\ g \in SockaddrIn6 /\ g.family = s.family /\ g.flow = s.flow /\ g.addr = s.addr
        /\ g.scope = s.scope
    BY <2>1, GettersAreV6
  <2> HIDE DEF t, g
  <2>5. [g EXCEPT !["port"] = NetworkOrder(port)]
          = In6(s.family, NetworkOrder(port), s.flow, s.addr, s.scope)
    BY ZenonT(60), <1>1, <2>2, <2>4, SettingV6
  <2>6. /\ t \in SockaddrIn6
        /\ Getters(t) = In6(s.family, NetworkOrder(port), s.flow, s.addr, s.scope)
    BY <2>2, <2>3, In6Members
  <2>7. t \in Structure /\ [g EXCEPT !["port"] = NetworkOrder(port)] = Getters(t)
    BY <2>5, <2>6 DEF Structure
  <2> QED BY <2>7 DEF t, g
<1> QED BY <1>2, <1>3 DEF SocketClass

LEMMA AddrSetting ==
  ASSUME NEW s \in Structure, s.class \in SocketClass,
         NEW ip \in IF s.class = "SocketAddrV4" THEN Ip4 ELSE Ip6
  PROVE  /\ [s EXCEPT !["addr"] = ip] \in Structure
         /\ [Getters(s) EXCEPT !["addr"] = ip] = Getters([s EXCEPT !["addr"] = ip])
<1>1. CASE s.class = "SocketAddrV4"
  <2>1. s \in SockaddrIn /\ ip \in Ip4
    BY <1>1, StructureOfClass
  <2>2. s.family \in Family /\ s.port \in PortNumber
    BY <2>1 DEF SockaddrIn
  <2> DEFINE t == [s EXCEPT !["addr"] = ip]
             g == Getters(s)
  <2>3. t = In4(s.family, s.port, ip)
    BY <2>1, <2>2, SettingV4
  <2>4. /\ g \in SockaddrIn /\ g.family = s.family /\ g.port = NetworkOrder(s.port)
        /\ g.port \in PortNumber
    BY <2>1, <2>2, GettersAreV4, NetworkOrderTwice
  <2> HIDE DEF t, g
  <2>5. [g EXCEPT !["addr"] = ip] = In4(s.family, NetworkOrder(s.port), ip)
    BY ZenonT(60), <2>1, <2>4, SettingV4
  <2>6. t \in SockaddrIn /\ Getters(t) = In4(s.family, NetworkOrder(s.port), ip)
    BY <2>1, <2>2, <2>3, In4Members
  <2>7. t \in Structure /\ [g EXCEPT !["addr"] = ip] = Getters(t)
    BY <2>5, <2>6 DEF Structure
  <2> QED BY <2>7 DEF t, g
<1>2. CASE s.class = "SocketAddrV6"
  <2>1. s \in SockaddrIn6 /\ ip \in Ip6
    BY <1>2, StructureOfClass
  <2>2. /\ s.family \in Family /\ s.port \in PortNumber /\ s.flow \in Number32
        /\ s.scope \in Number32
    BY <2>1 DEF SockaddrIn6
  <2> DEFINE t == [s EXCEPT !["addr"] = ip]
             g == Getters(s)
  <2>3. t = In6(s.family, s.port, s.flow, ip, s.scope)
    BY <2>1, <2>2, SettingV6
  <2>4. /\ g \in SockaddrIn6 /\ g.family = s.family /\ g.port = NetworkOrder(s.port)
        /\ g.port \in PortNumber /\ g.flow = s.flow /\ g.scope = s.scope
    BY <2>1, <2>2, GettersAreV6, NetworkOrderTwice
  <2> HIDE DEF t, g
  <2>5. [g EXCEPT !["addr"] = ip] = In6(s.family, NetworkOrder(s.port), s.flow, ip, s.scope)
    BY ZenonT(60), <2>1, <2>2, <2>4, SettingV6
  <2>6. t \in SockaddrIn6 /\ Getters(t) = In6(s.family, NetworkOrder(s.port), s.flow, ip, s.scope)
    BY <2>1, <2>2, <2>3, In6Members
  <2>7. t \in Structure /\ [g EXCEPT !["addr"] = ip] = Getters(t)
    BY <2>5, <2>6 DEF Structure
  <2> QED BY <2>7 DEF t, g
<1> QED BY <1>1, <1>2 DEF SocketClass

LEMMA ScopeSetting ==
  ASSUME NEW s \in SockaddrIn6, NEW scope \in Number32
  PROVE  /\ [s EXCEPT !["scope"] = scope] \in Structure
         /\ [Getters(s) EXCEPT !["scope"] = scope] = Getters([s EXCEPT !["scope"] = scope])
<1>1. /\ s.family \in Family /\ s.port \in PortNumber /\ s.flow \in Number32 /\ s.addr \in Ip6
  BY DEF SockaddrIn6
<1> DEFINE t == [s EXCEPT !["scope"] = scope]
           g == Getters(s)
<1>2. t = In6(s.family, s.port, s.flow, s.addr, scope)
  BY <1>1, SettingV6
<1>3. /\ g \in SockaddrIn6 /\ g.family = s.family /\ g.port = NetworkOrder(s.port)
      /\ g.port \in PortNumber /\ g.flow = s.flow /\ g.addr = s.addr
  BY <1>1, GettersAreV6, NetworkOrderTwice
<1> HIDE DEF t, g
<1>4. [g EXCEPT !["scope"] = scope]
        = In6(s.family, NetworkOrder(s.port), s.flow, s.addr, scope)
  <2>1. g \in SockaddrIn6 /\ g.port \in PortNumber /\ g.addr \in Ip6
    BY <1>1, <1>3
  <2>2. [g EXCEPT !["scope"] = scope] = In6(g.family, g.port, g.flow, g.addr, scope)
    BY ONLY <2>1, scope \in Number32, SettingV6
  <2> QED BY <1>3, <2>2
<1>5. t \in SockaddrIn6 /\ Getters(t) = In6(s.family, NetworkOrder(s.port), s.flow, s.addr, scope)
  BY <1>1, <1>2, In6Members
<1>6. t \in Structure /\ [g EXCEPT !["scope"] = scope] = Getters(t)
  BY <1>4, <1>5 DEF Structure
<1> QED BY <1>6 DEF t, g

(* A setter keeps what is told fitting, whether the flow information was   *)
(* set before or not.                                                      *)
LEMMA StructuresStay ==
  ASSUME NEW s \in SockaddrIn6, NEW v, NEW a, Strayed(s, v, a)
  PROVE  Fits(s, v, a)
BY ValueSentinel DEF Fits, Structure

LEMMA AddrFits ==
  ASSUME NEW s \in Structure, s.class \in SocketClass, NEW v, NEW a, Fits(s, v, a),
         NEW ip \in IF s.class = "SocketAddrV4" THEN Ip4 ELSE Ip6
  PROVE  /\ [s EXCEPT !["addr"] = ip] \in Structure
         /\ Fits([s EXCEPT !["addr"] = ip], [v EXCEPT !["addr"] = ip], a)
<1> DEFINE t == [s EXCEPT !["addr"] = ip]
<1>1. t \in Structure /\ [Getters(s) EXCEPT !["addr"] = ip] = Getters(t)
  BY AddrSetting
<1>2. CASE v = Getters(s) /\ a = {}
  BY <1>1, <1>2, ValueSentinel DEF Fits
<1>3. CASE Strayed(s, v, a)
  <2>1. ip \in Ip6
    BY <1>3 DEF Strayed, SockaddrIn6
  <2>2. 0 \in PortNumber /\ 0 \in Number32
    <3>1. MaxPort \in Nat
      BY DEF MaxPort
    <3> QED BY <3>1, ValueConstants DEF PortNumber
  <2>3. Strayed(t, [v EXCEPT !["addr"] = ip], a)
    BY <1>3, <2>1, <2>2, StrayedSetting
  <2> QED BY <1>1, <2>3, StructuresStay DEF Strayed
<1> QED BY <1>1, <1>2, <1>3, ValueSentinel DEF Fits

LEMMA ScopeFits ==
  ASSUME NEW s \in SockaddrIn6, NEW v, NEW a, Fits(s, v, a), NEW scope \in Number32
  PROVE  /\ [s EXCEPT !["scope"] = scope] \in Structure
         /\ Fits([s EXCEPT !["scope"] = scope], [v EXCEPT !["scope"] = scope], a)
<1> DEFINE t == [s EXCEPT !["scope"] = scope]
<1>1. t \in Structure /\ [Getters(s) EXCEPT !["scope"] = scope] = Getters(t)
  BY ScopeSetting
<1>2. CASE v = Getters(s) /\ a = {}
  BY <1>1, <1>2, ValueSentinel DEF Fits
<1>3. CASE Strayed(s, v, a)
  <2>1. s.port \in PortNumber /\ s.addr \in Ip6
    BY DEF SockaddrIn6
  <2>2. Strayed(t, [v EXCEPT !["scope"] = scope], a)
    BY <1>3, <2>1, StrayedSetting
  <2> QED BY <1>1, <2>2, StructuresStay DEF Strayed
<1>4. s # NoObject
  BY ValueSentinel DEF Structure
<1> QED BY <1>2, <1>3, <1>4 DEF Fits

LEMMA PortFits ==
  ASSUME NEW s \in Structure, s.class \in SocketClass, NEW v, NEW a, Fits(s, v, a),
         NEW port \in PortNumber
  PROVE  /\ [s EXCEPT !["port"] = port] \in Structure
         /\ Fits([s EXCEPT !["port"] = port], [v EXCEPT !["port"] = NetworkOrder(port)],
                 a \ {"port"})
<1> DEFINE t == [s EXCEPT !["port"] = port]
<1>1. /\ t \in Structure
      /\ [Getters(s) EXCEPT !["port"] = NetworkOrder(port)] = Getters(t)
  BY PortSetting
<1>2. CASE v = Getters(s) /\ a = {}
  BY <1>1, <1>2, ValueSentinel DEF Fits
<1>3. CASE Strayed(s, v, a)
  <2>1. s.scope \in Number32 /\ s.addr \in Ip6
    BY <1>3 DEF Strayed, SockaddrIn6
  <2>2. Strayed(t, [v EXCEPT !["port"] = NetworkOrder(port)], a \ {"port"})
    BY <1>3, <2>1, StrayedSetting
  <2> QED BY <1>1, <2>2, StructuresStay DEF Strayed
<1> QED BY <1>2, <1>3, ValueSentinel DEF Fits

(* The setter of the flow information: the port astray, and the flow       *)
(* information not what was given.                                         *)
LEMMA FlowFits ==
  ASSUME NEW s \in SockaddrIn6, NEW v, NEW a, Fits(s, v, a), NEW half \in PortNumber,
         NEW flow \in Number32
  PROVE  /\ [s EXCEPT !["port"] = half] \in Structure
         /\ Fits([s EXCEPT !["port"] = half], [v EXCEPT !["flow"] = flow], {"port", "flow"})
<1> DEFINE t == [s EXCEPT !["port"] = half]
           u == [v EXCEPT !["flow"] = flow]
<1>1. s # NoObject
  BY ValueSentinel DEF Structure
<1>2. v \in SockaddrIn6 /\ v.family = s.family /\ v.addr = s.addr /\ v.scope = s.scope
  <2>1. CASE v = Getters(s)
    BY <2>1, GettersAreV6
  <2>2. CASE Strayed(s, v, a)
    BY <2>2 DEF Strayed
  <2> QED BY <1>1, <2>1, <2>2 DEF Fits
<1>3. t \in SockaddrIn6 /\ t.family = s.family /\ t.addr = s.addr /\ t.scope = s.scope
  BY DEF SockaddrIn6
<1>4. u \in SockaddrIn6 /\ u.family = v.family /\ u.addr = v.addr /\ u.scope = v.scope
  BY <1>2 DEF SockaddrIn6
<1> HIDE DEF t, u
<1>5. Strayed(t, u, {"port", "flow"})
  BY <1>2, <1>3, <1>4 DEF Strayed
<1>6. t \in Structure /\ Fits(t, u, {"port", "flow"})
  BY <1>3, <1>5, StructuresStay DEF Structure
<1> QED BY <1>6 DEF t, u

(* What is told of an OVERLAPPED is its offset and its event. *)
OvTold == [class : {"Overlapped"}, offset : Nat, event : Pointer]

LEMMA GettersAreOv ==
  ASSUME NEW s \in OvStructure
  PROVE  /\ Getters(s) \in OvTold
         /\ Getters(s).offset = OffsetOf(s) /\ Getters(s).event = s.event
<1>1. s.low \in Dword /\ s.high \in Dword /\ s.event \in Pointer
  BY DEF OvStructure
<1>2. OffsetOf(s) \in Nat
  <2>1. \A a, b, D \in Nat : a + b * D \in Nat
    OBVIOUS
  <2> QED BY <1>1, <2>1, ValueConstants DEF Dword, OffsetOf
<1> QED BY <1>1, <1>2, GettersOv DEF OvTold

LEMMA SettingTold ==
  ASSUME NEW g \in OvTold, NEW n \in Nat, NEW e \in Pointer
  PROVE  /\ [g EXCEPT !["offset"] = n]
              = [class |-> "Overlapped", offset |-> n, event |-> g.event]
         /\ [g EXCEPT !["event"] = e]
              = [class |-> "Overlapped", offset |-> g.offset, event |-> e]
<1> DEFINE u == [g EXCEPT !["offset"] = n]
           w == [g EXCEPT !["event"] = e]
<1>1. u \in OvTold /\ u.offset = n /\ u.event = g.event
  BY DEF OvTold
<1>2. w \in OvTold /\ w.offset = g.offset /\ w.event = e
  BY DEF OvTold
<1>3. \A r \in OvTold : r = [class |-> "Overlapped", offset |-> r.offset, event |-> r.event]
  BY DEF OvTold
<1> QED BY <1>1, <1>2, <1>3

LEMMA EventSetting ==
  ASSUME NEW s \in OvStructure, NEW event \in Pointer
  PROVE  /\ [s EXCEPT !["event"] = event] \in Structure
         /\ [Getters(s) EXCEPT !["event"] = event] = Getters([s EXCEPT !["event"] = event])
<1> DEFINE t == [s EXCEPT !["event"] = event]
           g == Getters(s)
<1>1. t \in OvStructure /\ t.low = s.low /\ t.high = s.high /\ t.event = event
  BY DEF OvStructure
<1>2. g \in OvTold /\ g.offset = OffsetOf(s)
  BY GettersAreOv
<1>3. 0 \in Nat
  OBVIOUS
<1> HIDE DEF t, g
<1>4. Getters(t) = [class |-> "Overlapped", offset |-> OffsetOf(s), event |-> event]
  BY <1>1, GettersOv DEF OffsetOf
<1>5. [g EXCEPT !["event"] = event]
        = [class |-> "Overlapped", offset |-> OffsetOf(s), event |-> event]
  BY <1>2, <1>3, SettingTold
<1>6. t \in Structure /\ [g EXCEPT !["event"] = event] = Getters(t)
  BY <1>1, <1>4, <1>5 DEF Structure
<1> QED BY <1>6 DEF t, g

(* The two halves are written together, and one offset is told. *)
LEMMA OffsetSetting ==
  ASSUME NEW s \in OvStructure, NEW n \in Qword
  PROVE  /\ [s EXCEPT !.low = LowHalf(n), !.high = HighHalf(n)] \in Structure
         /\ [Getters(s) EXCEPT !["offset"] = n]
              = Getters([s EXCEPT !.low = LowHalf(n), !.high = HighHalf(n)])
<1> DEFINE t == [s EXCEPT !.low = LowHalf(n), !.high = HighHalf(n)]
           g == Getters(s)
<1>1. /\ LowHalf(n) \in Dword /\ HighHalf(n) \in Dword
      /\ LowHalf(n) + HighHalf(n) * DwordLimit = n
  BY HalvesOfOffset
<1>2. t \in OvStructure /\ t.low = LowHalf(n) /\ t.high = HighHalf(n) /\ t.event = s.event
  BY <1>1 DEF OvStructure
<1>3. g \in OvTold /\ g.event = s.event
  BY GettersAreOv
<1>4. n \in Nat /\ s.event \in Pointer
  BY ValueConstants DEF Qword, OvStructure
<1> HIDE DEF t, g
<1>5. Getters(t) = [class |-> "Overlapped", offset |-> n, event |-> s.event]
  BY <1>1, <1>2, GettersOv DEF OffsetOf
<1>6. [g EXCEPT !["offset"] = n] = [class |-> "Overlapped", offset |-> n, event |-> s.event]
  BY <1>3, <1>4, SettingTold
<1>7. t \in Structure /\ [g EXCEPT !["offset"] = n] = Getters(t)
  BY <1>2, <1>5, <1>6 DEF Structure
<1> QED BY <1>7 DEF t, g

LEMMA SetterInv ==
  ASSUME ValueInv, NEW o \in Object,
         \/ \E ip \in Ip4 \cup Ip6 : SetIp(o, ip)
         \/ \E port \in Number16 : SetPort(o, port)
         \/ \E flow \in Number32 : SetFlowInfo(o, flow)
         \/ \E scope \in Number32 : SetScopeId(o, scope)
         \/ \E n \in Offset : SetOffset(o, n)
         \/ \E event \in Pointer : SetEvent(o, event)
  PROVE  ValueInv'
<1> DEFINE s == inner[o]
           v == told[o]
           a == astray[o]
<1>1. s # NoObject
  BY Zenon DEF SetIp, SetPort, SetFlowInfo, SetScopeId, SetOffset, SetEvent, Is
<1>2. s \in Structure /\ Fits(s, v, a) /\ a \in SUBSET {"port", "flow"}
  BY <1>1 DEF ValueInv, ValueTypeOK
<1>3. CASE \E ip \in Ip4 \cup Ip6 : SetIp(o, ip)
  <2>1. PICK ip \in Ip4 \cup Ip6 : SetIp(o, ip)
    BY <1>3
  <2>2. s.class \in SocketClass /\ ip \in IF s.class = "SocketAddrV4" THEN Ip4 ELSE Ip6
    BY <2>1 DEF SetIp, Is
  <2>3. /\ [s EXCEPT !["addr"] = ip] \in Structure
        /\ Fits([s EXCEPT !["addr"] = ip], [v EXCEPT !["addr"] = ip], a)
    BY ONLY <1>2, <2>2, AddrFits
  <2>4. /\ Update(o, [s EXCEPT !["addr"] = ip]) /\ Promise!Set(o, "addr", ip)
        /\ astray' = [astray EXCEPT ![o] = a]
    BY <2>1, AstrayStays DEF SetIp
  <2> QED BY ONLY ValueInv, o \in Object, <1>2, <2>3, <2>4, SetFieldInv
<1>4. CASE \E port \in Number16 : SetPort(o, port)
  <2>1. PICK port \in Number16 : SetPort(o, port)
    BY <1>4
  <2>2. s.class \in SocketClass
    BY <2>1 DEF SetPort, Is
  <2> DEFINE wire == NetworkOrder(port)
  <2>3. wire \in PortNumber /\ NetworkOrder(wire) = port
    BY NetworkOrderTwice, ValueConstants
  <2>4. /\ Update(o, [s EXCEPT !["port"] = wire]) /\ Promise!Set(o, "port", port)
        /\ astray' = [astray EXCEPT ![o] = a \ {"port"}]
    BY <2>1, AstrayStays DEF SetPort
  <2> HIDE DEF wire
  <2>5. /\ [s EXCEPT !["port"] = wire] \in Structure
        /\ Fits([s EXCEPT !["port"] = wire], [v EXCEPT !["port"] = port], a \ {"port"})
    BY ONLY <1>2, <2>2, <2>3, PortFits
  <2>6. a \ {"port"} \in SUBSET {"port", "flow"}
    BY <1>2
  <2> QED BY ONLY ValueInv, o \in Object, <2>4, <2>5, <2>6, SetFieldInv
<1>5. CASE \E flow \in Number32 : SetFlowInfo(o, flow)
  <2>1. PICK flow \in Number32 : SetFlowInfo(o, flow)
    BY <1>5
  <2>2. s \in SockaddrIn6
    BY <1>2, <2>1, StructureOfClass DEF SetFlowInfo, Is
  <2> DEFINE half == flow % (MaxPort + 1)
  <2>3. half \in PortNumber
    <3>1. flow \in Nat
      BY ValueConstants
    <3>2. flow % (MaxPort + 1) \in Nat /\ flow % (MaxPort + 1) <= MaxPort
      BY <3>1 DEF MaxPort
    <3>3. MaxPort \in Nat
      BY DEF MaxPort
    <3> QED BY <3>2, <3>3 DEF PortNumber
  <2> DEFINE t == [s EXCEPT !["port"] = half]
             u == [v EXCEPT !["flow"] = flow]
  <2>4. /\ inner' = [inner EXCEPT ![o] = t] /\ told' = [told EXCEPT ![o] = u]
        /\ astray' = [astray EXCEPT ![o] = {"port", "flow"}]
    BY <2>1 DEF SetFlowInfo, Update, Promise!Set
  <2> HIDE DEF half
  <2>5. t \in Structure /\ Fits(t, u, {"port", "flow"})
    BY ONLY <1>2, <2>2, <2>3, flow \in Number32, FlowFits
  <2> HIDE DEF t, u
  <2> QED BY ONLY ValueInv, o \in Object, <2>4, <2>5, OneChanges
<1>6. CASE \E scope \in Number32 : SetScopeId(o, scope)
  <2>1. PICK scope \in Number32 : SetScopeId(o, scope)
    BY <1>6
  <2>2. s \in SockaddrIn6
    BY <1>2, <2>1, StructureOfClass DEF SetScopeId, Is
  <2>3. /\ [s EXCEPT !["scope"] = scope] \in Structure
        /\ Fits([s EXCEPT !["scope"] = scope], [v EXCEPT !["scope"] = scope], a)
    BY ONLY <1>2, <2>2, scope \in Number32, ScopeFits
  <2>4. /\ Update(o, [s EXCEPT !["scope"] = scope]) /\ Promise!Set(o, "scope", scope)
        /\ astray' = [astray EXCEPT ![o] = a]
    BY <2>1, AstrayStays DEF SetScopeId
  <2> QED BY ONLY ValueInv, o \in Object, <1>2, <2>3, <2>4, SetFieldInv
<1>7. CASE \E n \in Offset : SetOffset(o, n)
  <2>1. PICK n \in Offset : SetOffset(o, n)
    BY <1>7
  <2>2. s.class = "Overlapped" /\ s \in OvStructure /\ n \in Qword
    <3>1. s.class = "Overlapped"
      BY Zenon, <2>1 DEF SetOffset, Is
    <3> QED BY <1>2, <3>1, StructureOfClass, ValueConstants
  <2>3. a = {} /\ v = Getters(s)
    BY <1>2, <2>2, FitsClass
  <2> DEFINE t == [s EXCEPT !.low = LowHalf(n), !.high = HighHalf(n)]
  <2>4. t \in Structure /\ [Getters(s) EXCEPT !["offset"] = n] = Getters(t)
    <3> HIDE DEF s
    <3> QED BY Zenon, <2>2, OffsetSetting
  <2>5. /\ inner' = [inner EXCEPT ![o] = t]
        /\ told' = [told EXCEPT ![o] = [told[o] EXCEPT !["offset"] = n]]
        /\ astray' = [astray EXCEPT ![o] = a]
    BY <2>1, AstrayStays DEF SetOffset, Update, Promise!Set
  <2>6. Fits(t, Getters(t), a)
    BY <2>3, <2>4, ValueSentinel DEF Fits
  <2>7. told' = [told EXCEPT ![o] = Getters(t)]
    BY <2>3, <2>4, <2>5
  <2> HIDE DEF t
  <2> QED BY <1>2, <2>4, <2>5, <2>6, <2>7, OneChanges
<1>8. CASE \E event \in Pointer : SetEvent(o, event)
  <2>1. PICK event \in Pointer : SetEvent(o, event)
    BY <1>8
  <2>2. s.class = "Overlapped" /\ s \in OvStructure
    BY <1>2, <2>1, StructureOfClass DEF SetEvent, Is
  <2>3. a = {} /\ v = Getters(s)
    BY <1>2, <2>2, FitsClass
  <2>4. /\ [s EXCEPT !["event"] = event] \in Structure
        /\ [Getters(s) EXCEPT !["event"] = event] = Getters([s EXCEPT !["event"] = event])
    BY ONLY <2>2, event \in Pointer, EventSetting
  <2>5. Fits([s EXCEPT !["event"] = event], [v EXCEPT !["event"] = event], a)
    BY <2>3, <2>4, ValueSentinel DEF Fits
  <2>6. /\ Update(o, [s EXCEPT !["event"] = event]) /\ Promise!Set(o, "event", event)
        /\ astray' = [astray EXCEPT ![o] = a]
    BY <2>1, AstrayStays DEF SetEvent
  <2> QED BY ONLY ValueInv, o \in Object, <1>2, <2>4, <2>5, <2>6, SetFieldInv
<1> QED BY <1>3, <1>4, <1>5, <1>6, <1>7, <1>8

LEMMA ValueStep == ASSUME ValueInv, [ValueNext]_values PROVE ValueInv'
<1>1. CASE UNCHANGED values
  BY <1>1 DEF values, ValueInv, ValueTypeOK, Fits, Strayed
<1>2. CASE \/ \E o \in Object, class \in Class : MakeBlank(o, class)
           \/ \E o \in Object, ip \in Ip4 : MakeIp(o, "Ipv4Addr", ip)
           \/ \E o \in Object, ip \in Ip6 : MakeIp(o, "Ipv6Addr", ip)
           \/ \E o \in Object, s \in Filled : Wrap(o, s)
           \/ \E o \in Object, ip \in Ip4, port \in Number16 : MakeV4(o, ip, port)
           \/ \E o \in Object, ip \in Ip6, port \in Number16, flow, scope \in Number32 :
                MakeV6(o, ip, port, flow, scope)
           \/ \E o \in Object, bytes \in Number32, token, overlapped \in Pointer :
                MakeStatus(o, bytes, token, overlapped)
  BY Zenon, <1>2, MakeInv
<1>3. CASE \E o, p \in Object : Copy(o, p) \/ Assign(o, p)
  BY <1>3, CopyInv DEF Copy, Assign, Promise!Copy, Promise!Assign
<1>4. CASE \E o, p \in Object : Move(o, p)
  BY <1>4, MoveInv
<1>5. CASE \E o \in Object : Destroy(o)
  <2>1. PICK o \in Object : Destroy(o)
    BY <1>5
  <2>2. Fits(NoObject, NoObject, {})
    BY DEF Fits
  <2> QED BY <2>1, <2>2, OneChanges DEF Destroy, Promise!Destroy
<1>6. CASE \/ \E o \in Object, ip \in Ip4 \cup Ip6 : SetIp(o, ip)
           \/ \E o \in Object, port \in Number16 : SetPort(o, port)
           \/ \E o \in Object, flow \in Number32 : SetFlowInfo(o, flow)
           \/ \E o \in Object, scope \in Number32 : SetScopeId(o, scope)
           \/ \E o \in Object, n \in Offset : SetOffset(o, n)
           \/ \E o \in Object, event \in Pointer : SetEvent(o, event)
  BY Zenon, <1>6, SetterInv
<1> QED
  BY Zenon, <1>1, <1>2, <1>3, <1>4, <1>5, <1>6 DEF ValueNext

LEMMA ValueInvHolds == ValueSpec => []ValueInv
BY ValueInitInv, ValueStep, PTL DEF ValueSpec

(* SocketAddrV4.h, SocketAddrV6.h, Overlapped.h, CompletionStatus.h: after *)
(* any sequence of calls, for every set of objects, addresses, ports and   *)
(* offsets, the getters tell what was last given, except for the two       *)
(* fields that the setter of the flow information of SocketAddrV6.h leaves *)
(* wrong.                                                                  *)
THEOREM GettersAlwaysTell == ValueSpec => []GettersTell
<1>1. ASSUME NEW s \in Structure, NEW v, NEW a, Fits(s, v, a)
      PROVE  /\ DOMAIN v = DOMAIN Getters(s)
             /\ \A field \in DOMAIN v \ a : v[field] = Getters(s)[field]
  <2>0. s # NoObject
    BY ValueSentinel
  <2>1. CASE v = Getters(s)
    BY <2>1
  <2>2. CASE Strayed(s, v, a)
    <3> DEFINE g == Getters(s)
    <3>1. /\ g \in SockaddrIn6 /\ g.family = s.family /\ g.port = NetworkOrder(s.port)
          /\ g.addr = s.addr /\ g.scope = s.scope
      BY <2>2, GettersAreV6 DEF Strayed
    <3> HIDE DEF g
    <3>2. /\ v \in SockaddrIn6 /\ v.family = g.family /\ v.addr = g.addr /\ v.scope = g.scope
          /\ "port" \notin a => v.port = g.port
          /\ "flow" \in a
      BY <2>2, <3>1 DEF Strayed
    <3>3. /\ DOMAIN v = {"class", "family", "port", "flow", "addr", "scope"}
          /\ DOMAIN g = {"class", "family", "port", "flow", "addr", "scope"}
          /\ v.class = g.class
      BY <3>1, <3>2 DEF SockaddrIn6
    <3>4. DOMAIN v = DOMAIN g /\ \A field \in DOMAIN v \ a : v[field] = g[field]
      BY <3>2, <3>3
    <3> QED BY <3>4 DEF g
  <2>3. v = Getters(s) \/ Strayed(s, v, a)
    BY <1>1, <2>0 DEF Fits
  <2> QED BY <2>1, <2>2, <2>3
<1>2. ValueInv => GettersTell
  <2> SUFFICES ASSUME ValueInv, NEW o \in Object
               PROVE  IF inner[o] = NoObject THEN told[o] = NoObject
                      ELSE /\ DOMAIN told[o] = DOMAIN Getters(inner[o])
                           /\ \A field \in DOMAIN told[o] \ astray[o] :
                                told[o][field] = Getters(inner[o])[field]
    BY DEF GettersTell
  <2>1. Fits(inner[o], told[o], astray[o]) /\ inner[o] \in Structure \cup {NoObject}
    BY DEF ValueInv, ValueTypeOK
  <2>2. CASE inner[o] = NoObject
    <3>1. NoObject \notin SockaddrIn6
      BY ValueSentinel DEF Structure
    <3> QED BY <2>1, <2>2, <3>1 DEF Fits
  <2>3. CASE inner[o] # NoObject
    BY <1>1, <2>1, <2>3
  <2> QED BY <2>2, <2>3
<1> QED BY <1>2, ValueInvHolds, PTL

(* Every object holds a structure of its class, each field within its      *)
(* width: both halves of an offset are DWORDs.                             *)
THEOREM ValueTypes == ValueSpec => []ValueTypeOK
<1>1. ValueInv => ValueTypeOK
  BY DEF ValueInv
<1> QED BY <1>1, ValueInvHolds, PTL

(* What is told of an address in a structure, and, from what is told of    *)
(* two IPv4 socket addresses, their ports.                                 *)
LEMMA GettersKeepAddr ==
  ASSUME NEW s \in Structure, s.class \notin IocpClass
  PROVE  Getters(s).addr = s.addr
<1>1. CASE s \in SockaddrIn
  BY <1>1, GettersAreV4
<1>2. CASE s \in SockaddrIn6
  BY <1>2, GettersAreV6
<1>3. CASE s \in Ip4Object \cup Ip6Object
  BY <1>3, GettersPlain
<1>4. s \notin OvStructure \cup StatusEntry
  BY DEF OvStructure, StatusEntry, IocpClass
<1> QED BY <1>1, <1>2, <1>3, <1>4 DEF Structure

LEMMA PortsOfV4 ==
  ASSUME NEW s \in SockaddrIn, NEW t \in SockaddrIn
  PROVE  Getters(s).port = Getters(t).port <=> s.port = t.port
<1>1. s.port \in PortNumber /\ t.port \in PortNumber
  BY DEF SockaddrIn
<1> QED BY <1>1, GettersAreV4, NetworkOrderTwice

(* SocketAddrV4.h, Ipv4Addr.h, Ipv6Addr.h: for every pair of objects,      *)
(* operator== tells, through exchanged bytes, whether their callers gave   *)
(* them the same.                                                          *)
THEOREM EqualityTells == ValueSpec => []EqualityAgrees
<1>1. ASSUME ValueInv, NEW o \in Object, NEW p \in Object, inner[o] # NoObject,
             inner[p] # NoObject, inner[o].class \in AddressClass \cup {"SocketAddrV4"}
      PROVE  Equal(o, p) <=>
               /\ told[p].class = told[o].class
               /\ told[p].addr = told[o].addr
               /\ told[o].class = "SocketAddrV4" => told[p].port = told[o].port
  <2> DEFINE s == inner[o]
             t == inner[p]
  <2>1. /\ s \in Structure /\ t \in Structure
        /\ Fits(s, told[o], astray[o]) /\ Fits(t, told[p], astray[p])
    BY <1>1 DEF ValueInv, ValueTypeOK
  <2>2. /\ told[o].class = s.class /\ told[p].class = t.class
        /\ s.class # "SocketAddrV6" /\ s.class \notin IocpClass
    BY <1>1, <2>1, FitsClass DEF AddressClass, IocpClass
  <2>3. /\ told[o] = Getters(s) /\ told[o].addr = s.addr
        /\ t.class = s.class => told[p] = Getters(t) /\ told[p].addr = t.addr
    BY <2>1, <2>2, FitsClass, GettersKeepAddr
  <2>4. (s.class = "SocketAddrV4" /\ t.class = s.class) =>
          (told[p].port = told[o].port <=> s.port = t.port)
    BY <2>1, <2>3, StructureOfClass, PortsOfV4
  <2>5. CASE s.class \in AddressClass
    <3>1. Equal(o, p) <=> t.class = s.class /\ s.addr = t.addr
      BY <2>5 DEF Equal, AddressClass
    <3> QED BY <2>5, <3>1, <2>2, <2>3 DEF AddressClass
  <2>6. CASE s.class = "SocketAddrV4"
    <3>1. Equal(o, p) <=> t.class = s.class /\ s.port = t.port /\ s.addr = t.addr
      BY <2>6 DEF Equal, Equal4, AddressClass
    <3> QED BY <2>6, <3>1, <2>2, <2>3, <2>4
  <2> QED BY <1>1, <2>5, <2>6
<1>2. ValueInv => EqualityAgrees
  BY <1>1 DEF EqualityAgrees
<1> QED BY <1>2, ValueInvHolds, PTL

-----------------------------------------------------------------------------
(* IoSpanMut. *)

(* The length is what is left of the buffer, up to the number of times it  *)
(* has wrapped.                                                            *)
Remains(k) == len = size - ptr + k * UlongLimit

SpanInv ==
  /\ SpanTypeOK
  /\ size = NoSpan => ptr = 0 /\ view = NoSpan
  /\ size # NoSpan => \E k \in Nat : Remains(k)
  /\ ViewIsTheRest

LEMMA SpanInitInv == SpanInit => SpanInv
<1> SUFFICES ASSUME SpanInit PROVE SpanInv
  OBVIOUS
<1>1. SpanTypeOK
  BY SpanConstants DEF SpanInit, SpanTypeOK, Ulong
<1>2. ViewIsTheRest
  BY DEF SpanInit, ViewIsTheRest
<1> QED BY <1>1, <1>2 DEF SpanInit, SpanInv

LEMMA MakeSpanInv ==
  ASSUME SpanInv, NEW n \in Ulong, MakeSpan(n) PROVE SpanInv'
<1>1. ptr' = 0 /\ view' = NoSpan /\ size' = n /\ len' = n
  BY DEF MakeSpan, SpanInv
<1>2. SpanTypeOK'
  BY <1>1, SpanConstants DEF SpanTypeOK
<1>3. Remains(0)'
  BY <1>1, SpanConstants DEF Remains, Ulong
<1>4. ViewIsTheRest'
  BY <1>1 DEF ViewIsTheRest
<1> QED BY <1>1, <1>2, <1>3, <1>4 DEF SpanInv

(* A subtraction that is cut to the width of the length wraps, at least    *)
(* never backwards.                                                        *)
LEMMA CutSubtraction ==
  ASSUME NEW a \in Ulong, NEW n \in Nat
  PROVE  /\ (a - n) % UlongLimit \in Ulong
         /\ \E j \in Nat : (a - n) % UlongLimit = a - n + j * UlongLimit
<1> DEFINE m == a - n
<1>1. /\ UlongLimit \in Nat /\ UlongLimit > 0
      /\ m \in Int /\ m < UlongLimit
  BY SpanConstants DEF Ulong
<1> HIDE DEF m
<1>2. m % UlongLimit \in Nat /\ m % UlongLimit < UlongLimit
  BY <1>1
<1>3. m \div UlongLimit \in Int
  BY <1>1
<1>4. m % UlongLimit = m - UlongLimit * (m \div UlongLimit)
  BY <1>1
<1>5. ASSUME NEW q \in Int, NEW r \in Nat, NEW L \in Nat, L > 0, m < L, r = m - L * q
      PROVE  0 - q \in Nat /\ r = m + (0 - q) * L
  <2>1. SUFFICES ASSUME q >= 1 PROVE FALSE
    BY <1>1, <1>5
  <2>2. L * q >= L
    BY <1>5, <2>1
  <2> QED BY <1>1, <1>5, <2>2
<1>6. /\ 0 - (m \div UlongLimit) \in Nat
      /\ m % UlongLimit = m + (0 - (m \div UlongLimit)) * UlongLimit
  BY <1>1, <1>2, <1>3, <1>4, <1>5
<1>7. \E j \in Nat : m % UlongLimit = m + j * UlongLimit
  <2> DEFINE j == 0 - (m \div UlongLimit)
  <2>1. j \in Nat /\ m % UlongLimit = m + j * UlongLimit
    BY <1>6
  <2> HIDE DEF j
  <2> QED BY <2>1
<1>8. m % UlongLimit \in Ulong
  BY <1>1, <1>2 DEF Ulong
<1> QED BY <1>7, <1>8 DEF m

LEMMA AdvanceInv ==
  ASSUME SpanInv, NEW n \in Step, Advance(n) PROVE SpanInv'
<1>1. n \in Nat /\ ptr \in Nat /\ len \in Ulong /\ size \in Ulong /\ size # NoSpan
  BY SpanConstants DEF Advance, Alive, SpanInv, SpanTypeOK
<1>2. CASE LenSize < n
  <2>1. UNCHANGED <<ptr, len, size, view>>
    BY <1>2 DEF Advance
  <2> QED BY <2>1 DEF SpanInv, SpanTypeOK, Remains, ViewIsTheRest
<1>3. CASE ~(LenSize < n)
  <2>1. /\ len' = (len - n) % UlongLimit /\ ptr' = ptr + n /\ ptr + n <= MaxAt
        /\ size' = size /\ view' = view
    BY <1>3 DEF Advance
  <2>2. PICK k \in Nat : Remains(k)
    BY <1>1 DEF SpanInv
  <2>3. /\ len' \in Ulong
        /\ \E j \in Nat : len' = len - n + j * UlongLimit
    BY <1>1, <2>1, CutSubtraction
  <2>4. PICK j \in Nat : len' = len - n + j * UlongLimit
    BY <2>3
  <2>5. len' = size' - ptr' + (k + j) * UlongLimit
    <3>1. len \in Int /\ size \in Int /\ UlongLimit \in Nat
      BY <1>1, SpanConstants DEF Ulong
    <3> DEFINE x == k * UlongLimit
               y == j * UlongLimit
    <3>2. (k + j) * UlongLimit = x + y /\ x \in Nat /\ y \in Nat
      BY <3>1
    <3>3. len = size - ptr + x /\ len' = len - n + y
      BY <2>2, <2>4 DEF Remains
    <3> HIDE DEF x, y
    <3> QED BY <1>1, <2>1, <3>1, <3>2, <3>3
  <2>6. SpanTypeOK'
    <3>1. ptr' \in 0 .. MaxAt
      BY <1>1, <2>1, SpanConstants
    <3> QED BY <1>1, <2>1, <2>3, <3>1 DEF SpanInv, SpanTypeOK
  <2>7. ViewIsTheRest'
    BY <2>1 DEF SpanInv, ViewIsTheRest
  <2>8. k + j \in Nat /\ Remains(k + j)'
    BY <2>5 DEF Remains
  <2> QED BY <1>1, <2>1, <2>6, <2>7, <2>8 DEF SpanInv
<1> QED BY <1>2, <1>3

(* A view that does not terminate has a length below 2^31, which leaves    *)
(* one wrap, or none, to be told from the position.                        *)
LEMMA AsSpanInv == SpanInv /\ AsSpan => SpanInv'
<1> SUFFICES ASSUME SpanInv, AsSpan PROVE SpanInv'
  OBVIOUS
<1>1. /\ size \in Nat /\ size < UlongLimit /\ len \in Nat /\ len < UlongLimit
      /\ ptr \in Nat /\ ptr <= MaxAt /\ size # NoSpan /\ UNCHANGED <<size, ptr, len>>
      /\ UlongLimit \in Nat /\ UlongLimit > 0
  BY SpanConstants DEF AsSpan, Alive, SpanInv, SpanTypeOK, Ulong
<1>2. CASE AsInt(len) < 0
  <2>1. view' = Terminated
    BY <1>2 DEF AsSpan
  <2> QED BY <1>1, <2>1 DEF SpanInv, SpanTypeOK, Remains, ViewIsTheRest
<1>3. CASE ~(AsInt(len) < 0)
  <2>1. view' = [at |-> ptr, len |-> AsInt(len)]
    BY <1>3 DEF AsSpan
  <2>2. AsInt(len) = len /\ len < UlongLimit \div 2
    BY <1>1, <1>3 DEF AsInt
  <2>3. PICK k \in Nat : len = size - ptr + k * UlongLimit
    BY <1>1 DEF SpanInv, Remains
  <2>4. k = 0 \/ k * UlongLimit >= UlongLimit
    <3>1. \A q, L \in Nat : q = 0 \/ q * L >= L
      OBVIOUS
    <3> QED BY <1>1, <3>1
  <2>5. k * UlongLimit \in Nat /\ (k = 0 => k * UlongLimit = 0)
    BY <1>1
  <2>6. /\ UlongLimit \div 2 \in Nat /\ UlongLimit \div 2 + UlongLimit \div 2 <= UlongLimit
    BY <1>1
  <2> DEFINE w == k * UlongLimit
             h == UlongLimit \div 2
  <2>7. ptr <= size => ptr + len = size
    <3>1. /\ w \in Nat /\ h \in Nat /\ h + h <= UlongLimit /\ len = size - ptr + w
          /\ w = 0 \/ w >= UlongLimit
          /\ len < h
      BY <2>2, <2>3, <2>4, <2>5, <2>6
    <3> HIDE DEF w, h
    <3> QED BY <1>1, <3>1
  <2>8. /\ view'.at = ptr /\ view'.len = len
        /\ view' \in [at : 0 .. MaxAt, len : 0 .. UlongLimit \div 2]
    BY <1>1, <2>1, <2>2, <2>6, SpanConstants
  <2>9. SpanTypeOK' /\ ViewIsTheRest'
    BY <1>1, <2>7, <2>8 DEF SpanInv, SpanTypeOK, ViewIsTheRest
  <2> QED BY <1>1, <2>9 DEF SpanInv, Remains
<1> QED BY <1>2, <1>3

LEMMA SpanStep == SpanInv /\ [SpanNext]_span => SpanInv'
<1> SUFFICES ASSUME SpanInv, [SpanNext]_span PROVE SpanInv'
  OBVIOUS
<1>1. CASE CreateSpan
  <2>1. 1 \in Ulong
    BY SpanConstants DEF Ulong
  <2> QED BY <1>1, <2>1, MakeSpanInv DEF CreateSpan
<1>2. CASE \E n \in Length : WrapBuffer(n)
  BY <1>2, MakeSpanInv, SpanConstants DEF WrapBuffer, Ulong
<1>3. CASE \E n \in Step : Advance(n)
  BY <1>3, AdvanceInv
<1>4. CASE AsSpan
  BY <1>4, AsSpanInv
<1>5. CASE UNCHANGED span
  BY <1>5 DEF span, SpanInv, SpanTypeOK, Remains, ViewIsTheRest
<1> QED BY <1>1, <1>2, <1>3, <1>4, <1>5 DEF SpanNext

(* IoSpanMut.h: for every buffer below 4 GiB and every sequence of calls   *)
(* of advance, a view that is taken within the buffer is the rest of it.   *)
THEOREM ViewsAreTheRest == SpanSpec => []ViewIsTheRest
<1>1. SpanInv => ViewIsTheRest
  BY DEF SpanInv
<1> QED BY <1>1, SpanInitInv, SpanStep, PTL DEF SpanSpec

LEMMA SpanTypes == SpanSpec => []SpanTypeOK
<1>1. SpanInv => SpanTypeOK
  BY DEF SpanInv
<1> QED BY <1>1, SpanInitInv, SpanStep, PTL DEF SpanSpec

-----------------------------------------------------------------------------
(* The classes side by side. *)

LEMMA LocalSteps ==
  ASSUME [LocalNext]_<<parse, print, values, sockets, span>>
  PROVE  /\ [Next]_<<parse, print>>
         /\ [ValueNext]_values
         /\ [SocketNext]_sockets
         /\ [SpanNext]_span
<1>1. CASE Next /\ UNCHANGED <<values, sockets, span>>
  BY <1>1
<1>2. CASE ValueNext /\ UNCHANGED <<parse, print, sockets, span>>
  BY <1>2
<1>3. CASE SocketNext /\ UNCHANGED <<parse, print, values, span>>
  BY <1>3
<1>4. CASE SpanNext /\ UNCHANGED <<parse, print, values, sockets>>
  BY <1>4
<1>5. CASE UNCHANGED <<parse, print, values, sockets, span>>
  BY <1>5
<1> QED BY <1>1, <1>2, <1>3, <1>4, <1>5 DEF LocalNext

(* Every behaviour of the classes together is one of each of them, so that *)
(* what is proved of a class alone holds of it here.                       *)
THEOREM EachClassAlone == LocalSpec => Spec /\ ValueSpec /\ SocketSpec /\ SpanSpec
<1>1. LocalInit => Init /\ ValueInit /\ SocketInit /\ SpanInit
  BY DEF LocalInit
<1>2. [LocalNext]_<<parse, print, values, sockets, span>> =>
        /\ [Next]_<<parse, print>> /\ [ValueNext]_values
        /\ [SocketNext]_sockets /\ [SpanNext]_span
  BY LocalSteps
<1> QED BY <1>1, <1>2, PTL DEF LocalSpec, Spec, ValueSpec, SocketSpec, SpanSpec

(* The types of all of them. *)
THEOREM LocalTypes == LocalSpec => []LocalTypeOK
<1>1. TypeOK /\ ValueTypeOK /\ SocketTypeOK /\ SpanTypeOK => LocalTypeOK
  BY DEF LocalTypeOK
<1> QED BY <1>1, EachClassAlone, TypeCorrect, ValueTypes, SocketTypes, SpanTypes, PTL

(* What the addresses promise, among the other classes. *)
THEOREM LocalAddresses ==
  LocalSpec => [](/\ JudgesWholeTexts /\ ReadsItsText /\ RoundTrip
                  /\ ClassesAreBlocks /\ OrderIsStrict
                  /\ SpanIsLongest /\ OthersDenoteThemselves
                  /\ ClassesAreBlocks6 /\ OrderIsNumeric
                  /\ ConvertsBack /\ KeepsItsQuad)
BY EachClassAlone, ParsesAlone, AcceptsTheDocumented, ReadsEveryText, PrintedIsReadBack,
   ClassesAlwaysBlocks, OrderIsAlwaysStrict, ConvertedPrintToo, ClassesAlwaysBlocks6,
   SegmentsOrderNumbers, ConversionsAreInverse, QuadsAreKept, PTL

(* What the values, the sockets and the spans promise, among the others.   *)
THEOREM LocalObjects ==
  LocalSpec => /\ [](GettersTell /\ EqualityAgrees /\ HeldUnlessSpread /\ ViewIsTheRest)
               /\ LeakOnlyByAssign
BY EachClassAlone, GettersAlwaysTell, EqualityTells, UnspreadSocketsHold, ViewsAreTheRest,
   OnlyAssignLeaks, PTL
=============================================================================
