----------------------------- MODULE ValueClasses -----------------------------
(***************************************************************************)
(* The classes that are plain values: Ipv4Addr, Ipv6Addr, SocketAddrV4 and *)
(* SocketAddrV6 as objects, Overlapped and CompletionStatus.  An object is *)
(* the Windows structure it wraps, with ports in network byte order and    *)
(* the offset in two halves.  Beside it runs what its users were told: the *)
(* same object as ValueObjects has it, in the terms of the members'        *)
(* parameters.                                                             *)
(***************************************************************************)
EXTENDS Integers

CONSTANTS
  Object,      \* storage for objects
  NoObject,      \* storage without an object
  Ip4, Ip6,    \* addresses
  Zero4, Zero6,  \* 0.0.0.0 and ::
  Number16,    \* ports the callers use
  Number32,    \* flow informations, scopes, counts of bytes
  Offset,      \* 64-bit offsets
  Pointer,     \* events, tokens and OVERLAPPED structures
  Null,        \* nullptr and 0 among them
  DwordLimit   \* 2^32: a DWORD holds 0 .. DwordLimit - 1

MaxPort == 65535
PortNumber == 0 .. MaxPort
Dword == 0 .. DwordLimit - 1
Qword == 0 .. DwordLimit * DwordLimit - 1

ASSUME ValueConstants ==
  /\ DwordLimit \in Nat \ {0}
  /\ Zero4 \in Ip4
  /\ Zero6 \in Ip6
  /\ Number16 \subseteq PortNumber
  /\ Number32 \subseteq Nat
  /\ 0 \in Number32
  /\ Offset \subseteq Qword
  /\ Null \in Pointer

VARIABLES
  inner,   \* the structure in each object
  told,    \* what the members' callers were promised of it
  astray   \* history: the fields that a setter of the flow information left wrong

values == <<inner, told, astray>>

AddressClass == {"Ipv4Addr", "Ipv6Addr"}
SocketClass == {"SocketAddrV4", "SocketAddrV6"}
IocpClass == {"Overlapped", "CompletionStatus"}
Class == AddressClass \cup SocketClass \cup IocpClass

(* The result of the shifts not cut to 16 bits. *)
NetworkOrderUncut(p) == p * 256 + p \div 256

(* Exchange of the bytes of a uint16_t, shifted as an int and cut.         *)
NetworkOrder(p) == ((p * 256) % (MaxPort + 1)) + p \div 256

(* The structures, and the two halves of an offset.                        *)
In4(family, port, addr) ==
  [class |-> "SocketAddrV4", family |-> family, port |-> port, addr |-> addr]
In6(family, port, flow, addr, scope) ==
  [class |-> "SocketAddrV6", family |-> family, port |-> port, flow |-> flow,
   addr |-> addr, scope |-> scope]
LowHalf(n) == n % DwordLimit
HighHalf(n) == n \div DwordLimit
Ov(low, high, event) ==
  [class |-> "Overlapped", low |-> low, high |-> high, event |-> event]
Entry(key, overlapped, bytes) ==
  [class |-> "CompletionStatus", key |-> key, overlapped |-> overlapped, bytes |-> bytes]
Ip(class, addr) == [class |-> class, addr |-> addr]

Blank == [
  Ipv4Addr |-> Ip("Ipv4Addr", Zero4),
  Ipv6Addr |-> Ip("Ipv6Addr", Zero6),
  SocketAddrV4 |-> In4("none", 0, Zero4),
  SocketAddrV6 |-> In6("none", 0, 0, Zero6, 0),
  Overlapped |-> Ov(0, 0, Null),
  CompletionStatus |-> Entry(Null, Null, 0)]

(* What the getters tell. *)
PortOf(s) == NetworkOrder(s.port)
OffsetOf(s) == s.low + s.high * DwordLimit
Getters(s) ==
  CASE s.class = "SocketAddrV4" -> [s EXCEPT !.port = PortOf(s)]
    [] s.class = "SocketAddrV6" -> [s EXCEPT !.port = PortOf(s)]
    [] s.class = "Overlapped" ->
         [class |-> s.class, offset |-> OffsetOf(s), event |-> s.event]
    [] OTHER -> s

(* The comparison of the addresses forgotten. *)
EqualPorts4(s, t) == s.port = t.port

Equal4(s, t) == s.port = t.port /\ s.addr = t.addr

(* operator==.  The one of SocketAddrV6 compares two arrays, that is,      *)
(* where they are; none of the iocp classes has one.                       *)
Equal(o, p) ==
  LET s == inner[o]
      t == inner[p] IN
    \/ s.class \in AddressClass /\ t.class = s.class /\ s.addr = t.addr
    \/ s.class = "SocketAddrV4" /\ t.class = s.class /\ Equal4(s, t)
    \/ s.class = "SocketAddrV6" /\ t.class = s.class /\ s.port = t.port /\ o = p

Promise == INSTANCE ValueObjects WITH
  value <- told, Absent <- NoObject, Default <- [c \in Class |-> Getters(Blank[c])]

ValueInit ==
  /\ inner = [o \in Object |-> NoObject]
  /\ astray = [o \in Object |-> {}]
  /\ Promise!Init

-----------------------------------------------------------------------------
(* Constructors. *)

Build(o, s, promised) ==
  /\ inner[o] = NoObject
  /\ inner' = [inner EXCEPT ![o] = s]
  /\ Promise!Construct(o, promised)
  /\ UNCHANGED astray

(* The default constructors. *)
MakeBlank(o, class) == Build(o, Blank[class], Getters(Blank[class]))

(* From the bytes or segments, or the IN_ADDR or IN6_ADDR, of an address.  *)
MakeIp(o, class, addr) == Build(o, Ip(class, addr), Ip(class, addr))

(* From a structure, as the system fills one in. *)
Wrap(o, s) == Build(o, s, Getters(s))

MakeV4(o, ip, port) ==
  Build(o, In4("inet", NetworkOrder(port), ip), In4("inet", port, ip))

MakeV6(o, ip, port, flow, scope) ==
  Build(o, In6("inet6", NetworkOrder(port), flow, ip, scope), In6("inet6", port, flow, ip, scope))

(* CompletionStatus::create. *)
MakeStatus(o, bytes, token, overlapped) ==
  Build(o, Entry(token, overlapped, bytes), Entry(token, overlapped, bytes))

Copy(o, p) ==
  /\ inner[o] = NoObject
  /\ inner[p] # NoObject
  /\ inner' = [inner EXCEPT ![o] = inner[p]]
  /\ Promise!Copy(o, p)
  /\ astray' = [astray EXCEPT ![o] = astray[p]]

(* The classes whose move constructor clears what it moved from.           *)
ClearingClass == {"Ipv4Addr"} \cup SocketClass

(* The port not cleared. *)
MoveKeepingPort(o, p) ==
  /\ inner[o] = NoObject
  /\ inner[p] # NoObject
  /\ inner[p].class \in ClearingClass
  /\ inner' = [inner EXCEPT ![o] = inner[p],
                 ![p] = IF inner[p].class \in SocketClass
                          THEN [Blank[inner[p].class] EXCEPT !.port = inner[p].port]
                          ELSE Blank[inner[p].class]]
  /\ Promise!Move(o, p)
  /\ astray' = [astray EXCEPT ![o] = astray[p], ![p] = {}]

Move(o, p) ==
  /\ inner[o] = NoObject
  /\ inner[p] # NoObject
  /\ inner[p].class \in ClearingClass
  /\ inner' = [inner EXCEPT ![o] = inner[p], ![p] = Blank[inner[p].class]]
  /\ Promise!Move(o, p)
  /\ astray' = [astray EXCEPT ![o] = astray[p], ![p] = {}]

(* A move constructor of their own leaves the clearing classes without an  *)
(* assignment.  The others are copied, whether from an lvalue or not.      *)
Assign(o, p) ==
  /\ inner[o] # NoObject
  /\ inner[p] # NoObject
  /\ inner[p].class = inner[o].class
  /\ inner[p].class \notin ClearingClass
  /\ inner' = [inner EXCEPT ![o] = inner[p]]
  /\ Promise!Assign(o, p)
  /\ astray' = [astray EXCEPT ![o] = astray[p]]

Destroy(o) ==
  /\ inner[o] # NoObject
  /\ inner' = [inner EXCEPT ![o] = NoObject]
  /\ Promise!Destroy(o)
  /\ astray' = [astray EXCEPT ![o] = {}]

-----------------------------------------------------------------------------
(* Setters. *)

Is(o, classes) == inner[o] # NoObject /\ inner[o].class \in classes
Update(o, s) == inner' = [inner EXCEPT ![o] = s]

SetIp(o, ip) ==
  /\ Is(o, SocketClass)
  /\ ip \in IF inner[o].class = "SocketAddrV4" THEN Ip4 ELSE Ip6
  /\ Update(o, [inner[o] EXCEPT !.addr = ip])
  /\ Promise!Set(o, "addr", ip)
  /\ UNCHANGED astray

SetPort(o, port) ==
  /\ Is(o, SocketClass)
  /\ Update(o, [inner[o] EXCEPT !.port = NetworkOrder(port)])
  /\ Promise!Set(o, "port", port)
  /\ astray' = [astray EXCEPT ![o] = @ \ {"port"}]

(* The member flow_info with a parameter promises the flow information and *)
(* writes the port, in whatever order the bytes of its lower half are.     *)
SetFlowInfo(o, flow) ==
  /\ Is(o, {"SocketAddrV6"})
  /\ Update(o, [inner[o] EXCEPT !.port = flow % (MaxPort + 1)])
  /\ Promise!Set(o, "flow", flow)
  /\ astray' = [astray EXCEPT ![o] = {"port", "flow"}]

SetScopeId(o, scope) ==
  /\ Is(o, {"SocketAddrV6"})
  /\ Update(o, [inner[o] EXCEPT !.scope = scope])
  /\ Promise!Set(o, "scope", scope)
  /\ UNCHANGED astray

SetOffset(o, n) ==
  /\ Is(o, {"Overlapped"})
  /\ Update(o, [inner[o] EXCEPT !.low = LowHalf(n), !.high = HighHalf(n)])
  /\ Promise!Set(o, "offset", n)
  /\ UNCHANGED astray

SetEvent(o, event) ==
  /\ Is(o, {"Overlapped"})
  /\ Update(o, [inner[o] EXCEPT !.event = event])
  /\ Promise!Set(o, "event", event)
  /\ UNCHANGED astray

-----------------------------------------------------------------------------

Family == {"none", "inet", "inet6"}
Ip4Object == [class : {"Ipv4Addr"}, addr : Ip4]
Ip6Object == [class : {"Ipv6Addr"}, addr : Ip6]
SockaddrIn == [class : {"SocketAddrV4"}, family : Family, port : PortNumber, addr : Ip4]
SockaddrIn6 == [class : {"SocketAddrV6"}, family : Family, port : PortNumber, flow : Number32,
                addr : Ip6, scope : Number32]
OvStructure == [class : {"Overlapped"}, low : Dword, high : Dword, event : Pointer]
StatusEntry == [class : {"CompletionStatus"}, key : Pointer, overlapped : Pointer,
                bytes : Number32]
Structure ==
  Ip4Object \cup Ip6Object \cup SockaddrIn \cup SockaddrIn6 \cup OvStructure \cup StatusEntry

ASSUME ValueSentinel == NoObject \notin Structure

(* Structures that the system or a caller filled in. *)
Filled ==
  [class : {"SocketAddrV4"}, family : {"inet"}, port : Number16, addr : Ip4]
    \cup [class : {"SocketAddrV6"}, family : {"inet6"}, port : Number16, flow : Number32,
          addr : Ip6, scope : {0}]
    \cup {Ov(LowHalf(n), HighHalf(n), Null) : n \in Offset}

ValueNext ==
  \/ \E o \in Object, class \in Class : MakeBlank(o, class)
  \/ \E o \in Object, ip \in Ip4 : MakeIp(o, "Ipv4Addr", ip)
  \/ \E o \in Object, ip \in Ip6 : MakeIp(o, "Ipv6Addr", ip)
  \/ \E o \in Object, s \in Filled : Wrap(o, s)
  \/ \E o \in Object, ip \in Ip4, port \in Number16 : MakeV4(o, ip, port)
  \/ \E o \in Object, ip \in Ip6, port \in Number16, flow, scope \in Number32 :
       MakeV6(o, ip, port, flow, scope)
  \/ \E o \in Object, bytes \in Number32, token, overlapped \in Pointer :
       MakeStatus(o, bytes, token, overlapped)
  \/ \E o, p \in Object : Copy(o, p)
  \/ \E o, p \in Object : Move(o, p)
  \/ \E o, p \in Object : Assign(o, p)
  \/ \E o \in Object : Destroy(o)
  \/ \E o \in Object, ip \in Ip4 \cup Ip6 : SetIp(o, ip)
  \/ \E o \in Object, port \in Number16 : SetPort(o, port)
  \/ \E o \in Object, flow \in Number32 : SetFlowInfo(o, flow)
  \/ \E o \in Object, scope \in Number32 : SetScopeId(o, scope)
  \/ \E o \in Object, n \in Offset : SetOffset(o, n)
  \/ \E o \in Object, event \in Pointer : SetEvent(o, event)

ValueSpec == ValueInit /\ [][ValueNext]_values

-----------------------------------------------------------------------------
(* Properties. *)

ValueTypeOK ==
  /\ inner \in [Object -> Structure \cup {NoObject}]
  /\ astray \in [Object -> SUBSET {"port", "flow"}]

(* After any sequence of constructions, copies, moves and setters, through *)
(* exchanged bytes and divided offsets, every getter tells what was last   *)
(* given for its field, and an object moved from is a default-constructed  *)
(* one.  Excepted are the two fields that the setter of the flow           *)
(* information leaves wrong, in that object and its copies, the port until *)
(* it is set again: FlowInfoTold.                                          *)
GettersTell ==
  \A o \in Object :
    IF inner[o] = NoObject THEN told[o] = NoObject
    ELSE /\ DOMAIN told[o] = DOMAIN Getters(inner[o])
         /\ \A field \in DOMAIN told[o] \ astray[o] : told[o][field] = Getters(inner[o])[field]

(* operator== of the address classes and of SocketAddrV4 holds between an  *)
(* object and another if and only if their callers gave them the same      *)
(* address and port.                                                       *)
EqualityAgrees ==
  \A o, p \in Object :
    (inner[o] # NoObject /\ inner[p] # NoObject
      /\ inner[o].class \in AddressClass \cup {"SocketAddrV4"}) =>
      (Equal(o, p) <=>
         /\ told[p].class = told[o].class
         /\ told[p].addr = told[o].addr
         /\ told[o].class = "SocketAddrV4" => told[p].port = told[o].port)

(* A socket address is "an IPv6 address, a 16-bit port number, the traffic *)
(* class, flow label, and a scope identifier" (SocketAddrV6.h:19): the     *)
(* flow information given to its setter is in the structure afterwards.    *)
(* It is not: the setter overwrites the port.                              *)
V6(o) == inner[o] # NoObject /\ inner[o].class = "SocketAddrV6"
FlowInfoTold == \A o \in Object : V6(o) => inner[o].flow = told[o].flow

(* Of that description operator== can only be the equality of the parts:   *)
(* two objects that agree in all of them are equal.  They are not: two     *)
(* arrays are compared by where they are, and no copy is equal to its      *)
(* original.                                                               *)
CopiesEqual == \A o, p \in Object : V6(o) /\ V6(p) /\ inner[o] = inner[p] => Equal(o, p)
=============================================================================
