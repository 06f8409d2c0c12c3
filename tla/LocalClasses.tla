----------------------------- MODULE LocalClasses -----------------------------
(***************************************************************************)
(* The classes whose objects are used by one thread at a time: addresses,  *)
(* the plain values, sockets and spans.  Their objects hold copies of each *)
(* other and share no state, so that a behaviour of this specification is  *)
(* one of any of its parts: the first step chooses which.                  *)
(***************************************************************************)
EXTENDS IpAddr, ValueClasses, SocketLifetime, IoSpanMut

LocalInit == Init /\ ValueInit /\ SocketInit /\ SpanInit

NoAddressYet == result = Idle /\ addr = Absent
NoValueYet == inner = [o \in Object |-> NoObject]
NoSocketYet == ~fired
NoSpanYet == size = NoSpan

LocalNext ==
  \/ NoValueYet /\ NoSocketYet /\ NoSpanYet /\ Next /\ UNCHANGED <<values, sockets, span>>
  \/ NoAddressYet /\ NoSocketYet /\ NoSpanYet /\ ValueNext /\ UNCHANGED <<parse, print, sockets, span>>
  \/ NoAddressYet /\ NoValueYet /\ NoSpanYet /\ SocketNext /\ UNCHANGED <<parse, print, values, span>>
  \/ NoAddressYet /\ NoValueYet /\ NoSocketYet /\ SpanNext /\ UNCHANGED <<parse, print, values, sockets>>

LocalSpec == LocalInit /\ [][LocalNext]_<<parse, print, values, sockets, span>>

LocalTypeOK == TypeOK /\ ValueTypeOK /\ SocketTypeOK /\ SpanTypeOK
=============================================================================
