------------------------- MODULE CompletionPort_proofs -------------------------
(***************************************************************************)
(* Proofs about CompletionPort, for any number of threads, wrappers,       *)
(* ports, files and items.                                                 *)
(***************************************************************************)
EXTENDS CompletionPort, SequenceTheorems, TLAPS

LEMMA ToDwordType == \A n \in Int : ToDword(n) \in Dword
  BY Constants DEF ToDword, Dword

(* Every packet in a queue and every blocked call is well formed: the      *)
(* number of entries get_many passes to the kernel is always a DWORD.      *)
THEOREM TypeCorrect == Spec => []TypeOK
<1>1. Init => TypeOK
  BY DEF Init, TypeOK
<1>2. TypeOK /\ [Next]_vars => TypeOK'
  <2> SUFFICES ASSUME TypeOK, [Next]_vars PROVE TypeOK'
    OBVIOUS
  <2> USE Constants DEF TypeOK
  <2>1. ASSUME NEW c \in Cp, NEW p \in Port, Create(c, p) PROVE TypeOK'
    BY <2>1 DEF Create
  <2>2. ASSUME NEW c \in Cp, NEW d \in Cp, MoveConstruct(c, d) \/ MoveAssign(c, d)
        PROVE TypeOK'
    BY <2>2 DEF MoveConstruct, MoveAssign
  <2>3. ASSUME NEW c \in Cp, Destroy(c) PROVE TypeOK'
    <3>1. CASE handle[c] = Null
      BY <2>3, <3>1 DEF Destroy
    <3>2. CASE handle[c] # Null
      <4>1. handle[c] \in Port
        BY <2>3, <3>2 DEF Destroy, Built
      <4>2. queue' \in [Port -> Seq(Packet)]
        <5>1. <<>> \in Seq(Packet)
          BY EmptySeq
        <5>2. queue' = [queue EXCEPT ![handle[c]] = <<>>]
          BY <2>3, <3>2 DEF Destroy
        <5> QED BY <4>1, <5>1, <5>2
      <4> QED BY <2>3, <3>2, <4>1, <4>2, ZenonT(60) DEF Destroy
    <3> QED BY <3>1, <3>2
  <2>4. ASSUME NEW c \in Cp, NEW f \in File, NEW token \in Token, Add(c, f, token)
        PROVE TypeOK'
    <3>1. handle[c] \in Port \cup {Null}
      BY <2>4 DEF Add, Built
    <3>2. assoc' \in [File -> [port : Port, token : Token] \cup {None}]
      <4> DEFINE Entry == [port : Port, token : Token]
      <4>1. \A p \in Port : [port |-> p, token |-> token] \in Entry
        OBVIOUS
      <4>2. \E e \in Entry : assoc' = [assoc EXCEPT ![f] = e]
        BY <2>4, <3>1, <4>1 DEF Add
      <4> QED BY <4>2
    <3> QED BY <2>4, <3>2 DEF Add
  <2>5. ASSUME NEW x \in Op, StartIo(x) PROVE TypeOK'
    BY <2>5 DEF StartIo, Item
  <2>6. ASSUME NEW x \in Op, NEW ok \in BOOLEAN, Land(x, ok) PROVE TypeOK'
    <3> DEFINE a == assoc[FileOf[x]]
    <3>1. item' \in [Item -> {"idle", "flying", "landed", "dropped", "stranded"}]
      BY <2>6 DEF Land, Item
    <3>2. queue' \in [Port -> Seq(Packet)]
      <4>1. CASE a # None /\ a.port \in OpenPort
        <5>1. a \in [port : Port, token : Token]
          BY <4>1
        <5>2. [item |-> x, token |-> a.token, ok |-> ok] \in Packet
          BY <5>1 DEF Packet, Item
        <5>3. queue' = [queue EXCEPT ![a.port] =
                          Append(@, [item |-> x, token |-> a.token, ok |-> ok])]
          BY <2>6, <4>1 DEF Land, Enqueue
        <5> QED BY <5>1, <5>2, <5>3
      <4>2. CASE ~(a # None /\ a.port \in OpenPort)
        BY <2>6, <4>2 DEF Land
      <4> QED BY <4>1, <4>2
    <3> QED BY <2>6, <3>1, <3>2 DEF Land
  <2>7. ASSUME NEW c \in Cp, NEW x \in Msg, NEW token \in Token, Post(c, x, token)
        PROVE TypeOK'
    <3>1. [item |-> x, token |-> token, ok |-> TRUE] \in Packet
      BY DEF Packet, Item
    <3>2. queue' \in [Port -> Seq(Packet)]
      <4>1. handle[c] \in Port
        BY <2>7 DEF Post, Built
      <4>2. Append(queue[handle[c]], [item |-> x, token |-> token, ok |-> TRUE])
              \in Seq(Packet)
        BY <3>1, <4>1, AppendProperties
      <4> QED BY <2>7, <4>1, <4>2 DEF Post, Enqueue
    <3> QED BY <2>7, <3>2 DEF Post, Item
  <2>8. ASSUME NEW t \in Thread, NEW c \in Cp, NEW timeout \in Timeout,
               NEW fn \in {"get", "get_many"}, NEW room \in Dword,
               Begin(t, c, fn, timeout, room)
        PROVE TypeOK'
    BY <2>8 DEF Begin, Built
  <2>9. 1 \in Dword /\ \A size \in Size : ToDword(size) \in Dword
    BY ToDwordType DEF Dword
  <2>10. ASSUME NEW t \in Thread, Refuse(t) \/ Expire(t) PROVE TypeOK'
    BY <2>10 DEF Refuse, Expire, Return
  <2>11. ASSUME NEW t \in Thread, TakeOne(t) PROVE TypeOK'
    <3> DEFINE p == call[t].port
    <3>1. p \in Port /\ queue[p] \in Seq(Packet) /\ queue[p] # <<>>
      BY <2>11 DEF TakeOne, Refused, OpenPort
    <3>2. queue' \in [Port -> Seq(Packet)]
      BY <2>11, <3>1 DEF TakeOne
    <3>3. item' \in [Item -> {"idle", "flying", "landed", "dropped", "stranded"}]
      BY <2>11 DEF TakeOne
    <3> QED BY <2>11, <3>2, <3>3 DEF TakeOne, Return
  <2>12. ASSUME NEW t \in Thread, TakeMany(t) PROVE TypeOK'
    <3> DEFINE p == call[t].port
               n == IF Len(queue[p]) < call[t].room THEN Len(queue[p]) ELSE call[t].room
    <3>1. p \in Port /\ queue[p] \in Seq(Packet) /\ call[t].room \in Nat
      BY <2>12 DEF TakeMany, Refused, OpenPort, Waiting, Dword
    <3>2. queue' = [queue EXCEPT ![p] = SubSeq(queue[p], n + 1, Len(queue[p]))]
      BY <2>12 DEF TakeMany
    <3>3. SubSeq(queue[p], n + 1, Len(queue[p])) \in Seq(Packet)
      BY <3>1, SubSeqProperties
    <3>4. item' \in [Item -> {"idle", "flying", "landed", "dropped", "stranded"}]
      BY <2>12 DEF TakeMany
    <3> QED BY <2>12, <3>1, <3>2, <3>3, <3>4 DEF TakeMany, Return
  <2>13. CASE UNCHANGED vars
    BY <2>13 DEF vars
  <2> QED
    BY <2>1, <2>2, <2>3, <2>4, <2>5, <2>6, <2>7, <2>8, <2>9, <2>10, <2>11, <2>12,
       <2>13 DEF Next
<1> QED BY <1>1, <1>2, PTL DEF Spec

-----------------------------------------------------------------------------
(* Queues. *)

Items(s) == {packet.item : packet \in Elements(s)}
Unique(s) == \A i, j \in 1 .. Len(s) : s[i].item = s[j].item => i = j

LEMMA AppendPacket ==
  ASSUME NEW s \in Seq(Packet), NEW e \in Packet
  PROVE  /\ Elements(Append(s, e)) = Elements(s) \cup {e}
         /\ Items(Append(s, e)) = Items(s) \cup {e.item}
         /\ Unique(s) /\ e.item \notin Items(s) => Unique(Append(s, e))
<1> DEFINE r == Append(s, e)
<1>1. /\ Len(r) = Len(s) + 1 /\ Len(s) \in Nat
      /\ \A i \in 1 .. Len(s) : r[i] = s[i]
      /\ r[Len(s) + 1] = e
  BY AppendProperties, LenProperties
<1>2. Elements(r) = Elements(s) \cup {e}
  BY <1>1 DEF Elements
<1>3. Items(r) = Items(s) \cup {e.item}
  BY <1>2 DEF Items
<1>4. ASSUME Unique(s), e.item \notin Items(s) PROVE Unique(r)
  <2>1. \A i \in 1 .. Len(s) : s[i].item # e.item
    BY <1>4 DEF Items, Elements
  <2> QED BY <1>1, <1>4, <2>1 DEF Unique
<1> QED BY <1>2, <1>3, <1>4

(* Taking the first n packets of a queue leaves exactly the others' items. *)
LEMMA TakePackets ==
  ASSUME NEW s \in Seq(Packet), Unique(s), NEW n \in 0 .. Len(s)
  PROVE  LET r == SubSeq(s, n + 1, Len(s)) IN
           /\ r \in Seq(Packet)
           /\ Elements(r) \subseteq Elements(s)
           /\ Items(r) = Items(s) \ {s[i].item : i \in 1 .. n}
           /\ Unique(r)
<1> DEFINE r == SubSeq(s, n + 1, Len(s))
<1>1. Len(s) \in Nat /\ \A i \in 1 .. Len(s) : s[i] \in Packet
  BY LenProperties, ElementOfSeq
<1>2. /\ r \in Seq(Packet)
      /\ Len(r) = Len(s) - n
      /\ \A i \in 1 .. Len(s) - n : r[i] = s[n + i]
  <2>1. n + 1 \in Int /\ Len(s) \in Int /\ \A i \in n + 1 .. Len(s) : s[i] \in Packet
    BY <1>1
  <2>2. /\ r \in Seq(Packet)
        /\ Len(r) = IF n + 1 <= Len(s) THEN Len(s) - (n + 1) + 1 ELSE 0
        /\ \A i \in 1 .. Len(s) - (n + 1) + 1 : r[i] = s[(n + 1) + i - 1]
    BY <2>1, SubSeqProperties
  <2> QED BY <1>1, <2>2
<1>3. \A i \in 1 .. Len(r) : n + i \in 1 .. Len(s) /\ r[i] = s[n + i]
  BY <1>1, <1>2
<1>4. \A i \in n + 1 .. Len(s) : i - n \in 1 .. Len(r) /\ s[i] = r[i - n]
  BY <1>1, <1>2
<1>5. Elements(r) \subseteq Elements(s)
  BY <1>3 DEF Elements
<1>6. Unique(r)
  BY <1>1, <1>2, <1>3 DEF Unique
<1>7. ASSUME NEW x PROVE x \in Items(r) <=> \E i \in n + 1 .. Len(s) : s[i].item = x
  <2>1. x \in Items(r) <=> \E k \in 1 .. Len(r) : r[k].item = x
    BY DEF Items, Elements
  <2>2. ASSUME NEW k \in 1 .. Len(r), r[k].item = x
        PROVE \E i \in n + 1 .. Len(s) : s[i].item = x
    <3>1. n + k \in n + 1 .. Len(s)
      BY <1>1, <1>2
    <3> QED BY <1>3, <2>2, <3>1
  <2>3. ASSUME NEW i \in n + 1 .. Len(s), s[i].item = x
        PROVE \E k \in 1 .. Len(r) : r[k].item = x
    BY <1>4, <2>3
  <2> QED BY <2>1, <2>2, <2>3
<1>8. ASSUME NEW x PROVE x \in Items(s) <=> \E i \in 1 .. Len(s) : s[i].item = x
  BY DEF Items, Elements
<1>9. Items(r) = Items(s) \ {s[i].item : i \in 1 .. n}
  <2>1. ASSUME NEW i \in n + 1 .. Len(s), NEW j \in 1 .. n PROVE s[i].item # s[j].item
    BY <1>1 DEF Unique
  <2>2. ASSUME NEW x \in Items(s), x \notin {s[i].item : i \in 1 .. n}
        PROVE x \in Items(r)
    <3>1. PICK i \in 1 .. Len(s) : s[i].item = x
      BY <1>8, <2>2
    <3>2. i \in n + 1 .. Len(s)
      BY <1>1, <2>2, <3>1
    <3> QED BY <1>7, <3>1, <3>2
  <2>3. ASSUME NEW x \in Items(r)
        PROVE x \in Items(s) /\ x \notin {s[i].item : i \in 1 .. n}
    <3>1. PICK i \in n + 1 .. Len(s) : s[i].item = x
      BY <1>7, <2>3
    <3>2. i \in 1 .. Len(s)
      BY <1>1
    <3> QED BY <1>8, <2>1, <3>1, <3>2
  <2> QED BY <2>2, <2>3
<1> QED BY <1>2, <1>5, <1>6, <1>9

-----------------------------------------------------------------------------
(* One packet per landed item.  A close discards only the closed port's    *)
(* packets because no other wrapper holds that port, and post reaches only *)
(* open ports because a wrapper holds none that is closed (WrapperOfPort). *)

WrapperOfPort ==
  /\ \A c \in Cp : handle[c] \in Port => state[handle[c]] = "open"
  /\ \A c, d \in Cp : handle[c] = handle[d] /\ handle[c] \in Port => c = d

OnePacket ==
  /\ \A p \in Port : Unique(queue[p])
  /\ \A p, r \in Port : p # r => Items(queue[p]) \cap Items(queue[r]) = {}
  /\ \A x \in Item : item[x] = "landed" <=> \E p \in Port : x \in Items(queue[p])
  /\ \A p \in Port : state[p] # "open" => queue[p] = <<>>

LEMMA OnePacketEachAsSets == OnePacketEach <=> OnePacket
  BY DEF OnePacketEach, OnePacket, Unique, Items, ItemsIn

Inv == TypeOK /\ WrapperOfPort /\ OnePacket

(* A packet arrives at an open port for an item that had none.             *)
LEMMA Arrival ==
  ASSUME TypeOK, OnePacket, NEW p \in Port, NEW e \in Packet,
         state[p] = "open", item[e.item] # "landed",
         queue' = [queue EXCEPT ![p] = Append(@, e)],
         item' = [item EXCEPT ![e.item] = "landed"],
         state' = state
  PROVE  OnePacket'
<1>1. e.item \in Item
  BY DEF Packet
<1>2. e.item \notin Items(queue[p])
  BY <1>1 DEF OnePacket
<1>3. \A r \in Port : queue[r] \in Seq(Packet)
  BY DEF TypeOK
<1>4. /\ Items(queue'[p]) = Items(queue[p]) \cup {e.item}
      /\ Unique(queue'[p])
  <2>1. queue'[p] = Append(queue[p], e)
    BY DEF TypeOK
  <2>2. Unique(queue[p])
    BY DEF OnePacket
  <2> QED BY <1>2, <1>3, <2>1, <2>2, AppendPacket
<1>5. \A r \in Port : r # p => queue'[r] = queue[r]
  BY DEF TypeOK
<1>6. \A r \in Port : Unique(queue'[r])
  BY <1>4, <1>5 DEF OnePacket
<1>7. \A r \in Port : e.item \notin Items(queue[r])
  BY <1>1 DEF OnePacket
<1>8. \A q, r \in Port : q # r => Items(queue'[q]) \cap Items(queue'[r]) = {}
  BY <1>4, <1>5, <1>7 DEF OnePacket
<1>9. \A x \in Item : item'[x] = "landed" <=> \E r \in Port : x \in Items(queue'[r])
  <2>1. \A x \in Item : (\E r \in Port : x \in Items(queue'[r]))
                          <=> x = e.item \/ \E r \in Port : x \in Items(queue[r])
    BY <1>4, <1>5
  <2>2. \A x \in Item : item'[x] = "landed" <=> x = e.item \/ item[x] = "landed"
    BY <1>1 DEF TypeOK
  <2> QED BY <2>1, <2>2 DEF OnePacket
<1>10. \A r \in Port : state'[r] # "open" => queue'[r] = <<>>
  BY <1>5 DEF OnePacket
<1> QED BY <1>6, <1>8, <1>9, <1>10 DEF OnePacket

(* The n oldest packets of a port leave it, and their items are no longer  *)
(* landed.                                                                 *)
LEMMA Departure ==
  ASSUME TypeOK, OnePacket, NEW p \in Port, NEW n \in 0 .. Len(queue[p]),
         queue' = [queue EXCEPT ![p] = SubSeq(@, n + 1, Len(@))],
         \A x \in Item : IF x \in {queue[p][i].item : i \in 1 .. n}
                           THEN item'[x] # "landed" ELSE item'[x] = item[x],
         \A r \in Port : state'[r] # "open" => queue'[r] = <<>>
  PROVE  OnePacket'
<1> DEFINE removed == {queue[p][i].item : i \in 1 .. n}
<1>1. \A r \in Port : queue[r] \in Seq(Packet)
  BY DEF TypeOK
<1>2. \A r \in Port : r # p => queue'[r] = queue[r]
  BY DEF TypeOK
<1>3. /\ Items(queue'[p]) = Items(queue[p]) \ removed
      /\ Unique(queue'[p])
  <2>1. queue'[p] = SubSeq(queue[p], n + 1, Len(queue[p]))
    BY DEF TypeOK
  <2>2. Unique(queue[p]) /\ queue[p] \in Seq(Packet)
    BY <1>1 DEF OnePacket
  <2>3. LET r == SubSeq(queue[p], n + 1, Len(queue[p])) IN
          /\ Items(r) = Items(queue[p]) \ {queue[p][i].item : i \in 1 .. n}
          /\ Unique(r)
    BY <2>2, TakePackets
  <2> QED BY <2>1, <2>3
<1>4. removed \subseteq Items(queue[p])
  <2>1. Len(queue[p]) \in Nat
    BY <1>1, LenProperties
  <2> QED BY <2>1 DEF Items, Elements
<1>5. \A r \in Port : Unique(queue'[r])
  BY <1>2, <1>3 DEF OnePacket
<1>6. \A q, r \in Port : q # r => Items(queue'[q]) \cap Items(queue'[r]) = {}
  <2>1. \A q \in Port : Items(queue'[q]) \subseteq Items(queue[q])
    BY <1>2, <1>3
  <2> QED BY <2>1 DEF OnePacket
<1>7. ASSUME NEW x \in Item
      PROVE item'[x] = "landed" <=> \E r \in Port : x \in Items(queue'[r])
  <2>1. CASE x \in removed
    <3>1. \A r \in Port : r # p => x \notin Items(queue[r])
      BY <1>4, <2>1 DEF OnePacket
    <3>2. \A r \in Port : x \notin Items(queue'[r])
      BY <1>2, <1>3, <2>1, <3>1
    <3>3. item'[x] # "landed"
      BY <2>1
    <3> QED BY <3>2, <3>3
  <2>2. CASE x \notin removed
    <3>1. \A r \in Port : x \in Items(queue'[r]) <=> x \in Items(queue[r])
      BY <1>2, <1>3, <2>2
    <3>2. item'[x] = item[x]
      BY <2>2
    <3> QED BY <3>1, <3>2 DEF OnePacket
  <2> QED BY <2>1, <2>2
<1> QED BY <1>5, <1>6, <1>7 DEF OnePacket

LEMMA InitInv == Init => Inv
<1> SUFFICES ASSUME Init PROVE Inv
  OBVIOUS
<1>1. TypeOK
  BY DEF Init, TypeOK
<1>2. WrapperOfPort
  BY Constants DEF Init, WrapperOfPort
<1>3. \A p \in Port : Elements(queue[p]) = {} /\ Items(queue[p]) = {}
  BY DEF Init, Elements, Items
<1>4. OnePacket
  BY <1>3 DEF Init, OnePacket, Unique
<1> QED BY <1>1, <1>2, <1>4 DEF Inv

(* Wrappers: each holds an open port of its own. *)
LEMMA WrapperStep == Inv /\ [Next]_vars => WrapperOfPort'
<1> SUFFICES ASSUME Inv, [Next]_vars PROVE WrapperOfPort'
  OBVIOUS
<1> USE Constants DEF Inv, TypeOK, WrapperOfPort
<1>1. ASSUME NEW c \in Cp, NEW p \in Port, Create(c, p) PROVE WrapperOfPort'
  BY <1>1 DEF Create
<1>2. ASSUME NEW c \in Cp, NEW d \in Cp, MoveConstruct(c, d) \/ MoveAssign(c, d)
      PROVE WrapperOfPort'
  <2>1. state' = state
    BY <1>2 DEF MoveConstruct, MoveAssign
  <2>2. \A e \in Cp : handle'[e] = IF e = d THEN Null
                                   ELSE IF e = c THEN handle[d] ELSE handle[e]
    BY <1>2 DEF MoveConstruct, MoveAssign
  <2>3. \A e \in Cp : handle'[e] \in Port =>
          \E g \in Cp : /\ handle'[e] = handle[g]
                        /\ g = (IF e = c THEN d ELSE e)
                        /\ e # d
    <3> SUFFICES ASSUME NEW e \in Cp, handle'[e] \in Port
                 PROVE  /\ handle'[e] = handle[IF e = c THEN d ELSE e]
                        /\ e # d
      OBVIOUS
    <3> QED BY <2>2
  <2>4. \A e \in Cp : handle'[e] \in Port => state'[handle'[e]] = "open"
    BY <2>1, <2>3
  <2>5. ASSUME NEW e \in Cp, NEW g \in Cp, handle'[e] = handle'[g], handle'[e] \in Port
        PROVE  e = g
    BY <2>3, <2>5
  <2> QED BY <2>4, <2>5
<1>3. ASSUME NEW c \in Cp, Destroy(c) PROVE WrapperOfPort'
  BY <1>3 DEF Destroy, Built
<1>4. ASSUME NEW c \in Cp, NEW f \in File, NEW token \in Token, Add(c, f, token)
      PROVE WrapperOfPort'
  BY <1>4 DEF Add
<1>5. CASE UNCHANGED <<handle, state>>
  BY <1>5
<1> QED
  BY <1>1, <1>2, <1>3, <1>4, <1>5
     DEF Next, vars, StartIo, Land, Post, Begin, Refuse, TakeOne, TakeMany, Expire

(* What TakeOne and TakeMany remove from the queue they take from. *)
LEMMA TakeOneStep ==
  ASSUME TypeOK, NEW t \in Thread, TakeOne(t)
  PROVE  /\ call[t].port \in Port
         /\ 1 \in 0 .. Len(queue[call[t].port])
         /\ queue' = [queue EXCEPT ![call[t].port] = SubSeq(@, 2, Len(@))]
         /\ \A x \in Item : IF x = queue[call[t].port][1].item
                              THEN item'[x] # "landed" ELSE item'[x] = item[x]
<1> DEFINE p == call[t].port
<1>1. p \in Port /\ queue[p] \in Seq(Packet) /\ queue[p] # <<>>
  BY DEF TakeOne, Refused, OpenPort, TypeOK
<1>2. 1 \in 0 .. Len(queue[p]) /\ Head(queue[p]) = queue[p][1]
  BY <1>1, LenProperties, EmptySeq
<1>3. Tail(queue[p]) = SubSeq(queue[p], 2, Len(queue[p]))
  BY <1>1, TailIsSubSeq
<1>4. queue' = [queue EXCEPT ![p] = SubSeq(@, 2, Len(@))]
  BY <1>3 DEF TakeOne
<1>5. queue[p][1].item \in Item
  <2>1. queue[p][1] \in Packet
    BY <1>1, <1>2, ElementOfSeq
  <2> QED BY <2>1 DEF Packet
<1>6. ASSUME NEW x \in Item
      PROVE IF x = queue[p][1].item THEN item'[x] # "landed" ELSE item'[x] = item[x]
  BY <1>2, <1>5 DEF TakeOne, TypeOK
<1> QED BY <1>1, <1>2, <1>4, <1>6

LEMMA TakeManyStep ==
  ASSUME TypeOK, NEW t \in Thread, TakeMany(t)
  PROVE  /\ call[t].port \in Port
         /\ \E n \in 0 .. Len(queue[call[t].port]) :
              /\ queue' = [queue EXCEPT ![call[t].port] = SubSeq(@, n + 1, Len(@))]
              /\ \A x \in Item :
                   IF x \in {queue[call[t].port][i].item : i \in 1 .. n}
                     THEN item'[x] # "landed" ELSE item'[x] = item[x]
<1> DEFINE p == call[t].port
           n == IF Len(queue[p]) < call[t].room THEN Len(queue[p]) ELSE call[t].room
<1>1. p \in Port /\ queue[p] \in Seq(Packet) /\ call[t].room \in Nat
  BY DEF TakeMany, Refused, OpenPort, TypeOK, Waiting, Dword
<1>2. n \in 0 .. Len(queue[p])
  BY <1>1, LenProperties
<1>3. queue' = [queue EXCEPT ![p] = SubSeq(@, n + 1, Len(@))]
  BY DEF TakeMany
<1>4. \A x \in Item : IF x \in {queue[p][i].item : i \in 1 .. n}
                        THEN item'[x] # "landed" ELSE item'[x] = item[x]
  BY DEF TakeMany
<1> QED BY <1>1, <1>2, <1>3, <1>4

(* Items and packets. *)
LEMMA PacketStep == Inv /\ [Next]_vars => OnePacket'
<1> SUFFICES ASSUME Inv, [Next]_vars PROVE OnePacket'
  OBVIOUS
<1>1. TypeOK /\ OnePacket /\ WrapperOfPort
  BY DEF Inv
<1>2. \A p \in Port : queue[p] \in Seq(Packet)
  BY <1>1 DEF TypeOK
<1>3. ASSUME UNCHANGED <<queue, item>>, \A p \in Port : state[p] = "open" => state'[p] = "open"
      PROVE OnePacket'
  BY <1>1, <1>3 DEF OnePacket, TypeOK
<1>4. ASSUME NEW c \in Cp, NEW p \in Port, Create(c, p) PROVE OnePacket'
  BY <1>1, <1>3, <1>4 DEF Create, TypeOK
<1>5. ASSUME NEW c \in Cp, NEW d \in Cp, MoveConstruct(c, d) \/ MoveAssign(c, d)
      PROVE OnePacket'
  BY <1>3, <1>5 DEF MoveConstruct, MoveAssign
<1>6. ASSUME NEW c \in Cp, Destroy(c) PROVE OnePacket'
  <2>1. CASE handle[c] = Null
    BY <1>3, <1>6, <2>1 DEF Destroy
  <2>2. CASE handle[c] # Null
    <3> DEFINE p == handle[c]
               n == Len(queue[p])
    <3>1. p \in Port
      BY <1>1, <1>6, <2>2 DEF Destroy, Built, TypeOK
    <3>2. n \in Nat
      BY <1>2, <3>1, LenProperties
    <3>3. SubSeq(queue[p], n + 1, n) = <<>>
      BY <3>2, SubSeqEmpty
    <3>4. queue' = [queue EXCEPT ![p] = SubSeq(queue[p], n + 1, Len(queue[p]))]
      <4>1. queue' = [queue EXCEPT ![p] = <<>>]
        BY <1>6, <2>2 DEF Destroy
      <4> QED BY <3>3, <4>1
    <3>5. ItemsIn(p) = {queue[p][i].item : i \in 1 .. n}
      BY DEF ItemsIn, Elements
    <3>6. \A x \in Item : IF x \in {queue[p][i].item : i \in 1 .. n}
                            THEN item'[x] # "landed" ELSE item'[x] = item[x]
      BY <1>6, <2>2, <3>5 DEF Destroy
    <3>7. \A r \in Port : state'[r] # "open" => queue'[r] = <<>>
      BY <1>1, <1>6, <2>2, <3>1 DEF Destroy, OnePacket, TypeOK
    <3>8. n \in 0 .. Len(queue[p])
      BY <3>2
    <3> HIDE DEF n
    <3> QED BY <1>1, <3>1, <3>4, <3>6, <3>7, <3>8, Departure
  <2> QED BY <2>1, <2>2
<1>7. ASSUME NEW c \in Cp, NEW f \in File, NEW token \in Token, Add(c, f, token)
      PROVE OnePacket'
  BY <1>1, <1>3, <1>7 DEF Add, TypeOK
<1>8. ASSUME NEW x \in Op, StartIo(x) PROVE OnePacket'
  <2>1. \A y \in Item : item'[y] = "landed" <=> item[y] = "landed"
    BY <1>1, <1>8 DEF StartIo, TypeOK
  <2> QED BY <1>1, <1>8, <2>1 DEF StartIo, OnePacket
<1>9. ASSUME NEW x \in Op, NEW ok \in BOOLEAN, Land(x, ok) PROVE OnePacket'
  <2> DEFINE a == assoc[FileOf[x]]
             e == [item |-> x, token |-> a.token, ok |-> ok]
  <2>1. CASE a # None /\ a.port \in OpenPort
    <3>1. a \in [port : Port, token : Token]
      BY <1>1, <2>1, Constants DEF TypeOK
    <3>2. e \in Packet
      BY <3>1 DEF Packet, Item
    <3>3. /\ queue' = [queue EXCEPT ![a.port] = Append(@, e)]
          /\ item' = [item EXCEPT ![e.item] = "landed"]
          /\ item[e.item] # "landed"
          /\ state' = state
      BY <1>9, <2>1 DEF Land, Enqueue
    <3>4. a.port \in Port /\ state[a.port] = "open"
      BY <2>1 DEF OpenPort
    <3> QED BY <1>1, <3>2, <3>3, <3>4, Arrival
  <2>2. CASE ~(a # None /\ a.port \in OpenPort)
    <3>1. UNCHANGED <<queue, state>>
      BY <1>9, <2>2 DEF Land
    <3>2. \A y \in Item : item'[y] = "landed" <=> item[y] = "landed"
      BY <1>1, <1>9, <2>2 DEF Land, TypeOK
    <3> QED BY <1>1, <3>1, <3>2 DEF OnePacket
  <2> QED BY <2>1, <2>2
<1>10. ASSUME NEW c \in Cp, NEW x \in Msg, NEW token \in Token, Post(c, x, token)
       PROVE OnePacket'
  <2> DEFINE e == [item |-> x, token |-> token, ok |-> TRUE]
  <2>1. handle[c] \in Port /\ state[handle[c]] = "open"
    BY <1>1, <1>10 DEF Post, Built, TypeOK, WrapperOfPort
  <2>2. e \in Packet
    BY DEF Packet, Item
  <2>3. /\ queue' = [queue EXCEPT ![handle[c]] = Append(@, e)]
        /\ item' = [item EXCEPT ![e.item] = "landed"]
        /\ item[e.item] # "landed"
        /\ state' = state
    BY <1>10 DEF Post, Enqueue
  <2> QED BY <1>1, <2>1, <2>2, <2>3, Arrival
<1>11. ASSUME NEW t \in Thread, TakeOne(t) PROVE OnePacket'
  <2> DEFINE p == call[t].port
  <2>1. /\ p \in Port
        /\ 1 \in 0 .. Len(queue[p])
        /\ queue' = [queue EXCEPT ![p] = SubSeq(@, 1 + 1, Len(@))]
        /\ \A x \in Item : IF x = queue[p][1].item
                             THEN item'[x] # "landed" ELSE item'[x] = item[x]
    BY <1>1, <1>11, TakeOneStep
  <2>2. \A x \in Item : IF x \in {queue[p][i].item : i \in 1 .. 1}
                          THEN item'[x] # "landed" ELSE item'[x] = item[x]
    BY <2>1
  <2>3. \A r \in Port : state'[r] # "open" => queue'[r] = <<>>
    BY <1>1, <1>11 DEF TakeOne, Refused, OpenPort, OnePacket, TypeOK
  <2> QED BY <1>1, <2>1, <2>2, <2>3, Departure
<1>12. ASSUME NEW t \in Thread, TakeMany(t) PROVE OnePacket'
  <2> DEFINE p == call[t].port
  <2>1. p \in Port
    BY <1>1, <1>12, TakeManyStep
  <2>2. PICK n \in 0 .. Len(queue[p]) :
          /\ queue' = [queue EXCEPT ![p] = SubSeq(@, n + 1, Len(@))]
          /\ \A x \in Item : IF x \in {queue[p][i].item : i \in 1 .. n}
                               THEN item'[x] # "landed" ELSE item'[x] = item[x]
    BY <1>1, <1>12, TakeManyStep
  <2>3. \A r \in Port : state'[r] # "open" => queue'[r] = <<>>
    BY <1>1, <1>12 DEF TakeMany, Refused, OpenPort, OnePacket, TypeOK
  <2> QED BY <1>1, <2>1, <2>2, <2>3, Departure
<1>13. ASSUME UNCHANGED <<queue, item, state>> PROVE OnePacket'
  BY <1>3, <1>13
<1> QED
  BY <1>4, <1>5, <1>6, <1>7, <1>8, <1>9, <1>10, <1>11, <1>12, <1>13
     DEF Next, vars, Begin, Refuse, Expire

LEMMA InvHolds == Spec => []Inv
<1>1. Inv /\ TypeOK' /\ [Next]_vars => Inv'
  BY WrapperStep, PacketStep DEF Inv
<1> QED BY <1>1, InitInv, TypeCorrect, PTL DEF Spec

-----------------------------------------------------------------------------
(* No completion is queued twice, and none is queued for an operation that *)
(* still runs, was reported or was lost, whatever wrappers and callers do. *)
THEOREM PacketsAreUnique == Spec => []OnePacketEach
<1>1. Inv => OnePacketEach
  BY OnePacketEachAsSets DEF Inv
<1> QED BY <1>1, InvHolds, PTL

(* An open port loses its last wrapper only where an assignment overwrites *)
(* it, and has none from the start only where add_ was called without one. *)
THEOREM PortsAreLostTwoWays == Spec => OrphanOnlyByMove
<1> DEFINE Named(p) == ~Orphan(p) /\ Orphan(p)' => OverwritesHolder(p) \/ AddsToNoPort(p)
<1>1. ASSUME TypeOK, [Next]_vars, NEW p \in Port PROVE Named(p)
  <2> SUFFICES ASSUME ~Orphan(p), Orphan(p)' PROVE OverwritesHolder(p) \/ AddsToNoPort(p)
    OBVIOUS
  <2>1. CASE state[p] # "open"
    <3>1. state'[p] = "open" /\ \A c \in Cp : handle'[c] # p
      BY DEF Orphan
    <3>2. ASSUME NEW c \in Cp, NEW r \in Port, Create(c, r) PROVE FALSE
      BY <1>1, <2>1, <3>1, <3>2 DEF Create, TypeOK
    <3>3. ASSUME NEW c \in Cp, Destroy(c) PROVE FALSE
      BY <1>1, <2>1, <3>1, <3>3 DEF Destroy, TypeOK
    <3>4. ASSUME NEW c \in Cp, NEW f \in File, NEW token \in Token, Add(c, f, token)
          PROVE AddsToNoPort(p)
      <4>1. PICK r \in Port :
              /\ handle[c] = Null /\ assoc[f] = None
              /\ state' = [state EXCEPT ![r] = "open"]
              /\ assoc' = [assoc EXCEPT ![f] = [port |-> r, token |-> token]]
        BY <2>1, <3>1, <3>4 DEF Add
      <4>2. r = p
        BY <1>1, <2>1, <3>1, <4>1 DEF TypeOK
      <4>3. assoc'[f] = [port |-> p, token |-> token]
        BY <1>1, <4>1, <4>2 DEF TypeOK
      <4> QED BY <4>1, <4>3 DEF AddsToNoPort
    <3>5. CASE state' = state
      BY <2>1, <3>1, <3>5
    <3> QED
      BY <1>1, <3>2, <3>3, <3>4, <3>5
         DEF Next, vars, MoveConstruct, MoveAssign, StartIo, Land, Post, Begin, Refuse,
             TakeOne, TakeMany, Expire
  <2>2. CASE state[p] = "open"
    <3>1. PICK e \in Cp : handle[e] = p
      BY <2>2 DEF Orphan
    <3>2. state'[p] = "open" /\ handle'[e] # p /\ \A c \in Cp : handle'[c] # p
      BY DEF Orphan
    <3>3. p # Unbuilt /\ p # Null
      BY Constants
    <3>4. ASSUME NEW c \in Cp, NEW r \in Port, Create(c, r) PROVE FALSE
      BY <1>1, <3>1, <3>2, <3>3, <3>4 DEF Create, Built, TypeOK
    <3>5. ASSUME NEW c \in Cp, NEW d \in Cp, MoveConstruct(c, d) PROVE FALSE
      BY <1>1, <3>1, <3>2, <3>3, <3>5 DEF MoveConstruct, Built, TypeOK
    <3>6. ASSUME NEW c \in Cp, NEW d \in Cp, MoveAssign(c, d) PROVE OverwritesHolder(p)
      <4>1. handle'[e] # Unbuilt
        BY <1>1, <3>1, <3>3, <3>6, Constants DEF MoveAssign, Built, TypeOK
      <4> QED BY <3>1, <4>1 DEF OverwritesHolder
    <3>7. ASSUME NEW c \in Cp, Destroy(c) PROVE FALSE
      BY <1>1, <3>1, <3>2, <3>3, <3>7 DEF Destroy, TypeOK
    <3>8. CASE handle' = handle
      BY <3>1, <3>2, <3>8
    <3> QED
      BY <1>1, <3>4, <3>5, <3>6, <3>7, <3>8
         DEF Next, vars, Add, StartIo, Land, Post, Begin, Refuse, TakeOne, TakeMany, Expire
  <2> QED BY <2>1, <2>2
<1>2. TypeOK /\ [Next]_vars => [\A p \in Port : Named(p)]_vars
  BY <1>1
<1> QED BY <1>2, TypeCorrect, PTL DEF Spec, OrphanOnlyByMove

-----------------------------------------------------------------------------
(* The delivery service that CompletionDelivery describes.  What the       *)
(* refinement mapping reads off the queues, when each item has one packet. *)

Reading ==
  /\ \A p \in Port : \A e \in Elements(queue[p]) :
       /\ e.item \in Item
       /\ item[e.item] = "landed"
       /\ BoxOf(e.item) = p
       /\ Phase(e.item) = (IF e.ok THEN "mailed" ELSE "failed")
  /\ \A x \in Item : item[x] # "landed" => BoxOf(x) = None /\ Phase(x) = PhaseOf[item[x]]
  /\ \A x \in Item : item[x] = "landed" =>
       \E p \in Port : \E e \in Elements(queue[p]) : e.item = x

LEMMA OneInEachQueue ==
  ASSUME Inv, NEW p \in Port, NEW r \in Port,
         NEW e \in Elements(queue[p]), NEW f \in Elements(queue[r]), e.item = f.item
  PROVE  p = r /\ e = f
<1>1. p = r
  BY DEF Inv, OnePacket, Items
<1>2. e = f
  BY <1>1 DEF Inv, OnePacket, Unique, Elements
<1> QED BY <1>1, <1>2

LEMMA ReadingHolds == Inv => Reading
<1> SUFFICES ASSUME Inv PROVE Reading
  OBVIOUS
<1>1. ASSUME NEW p \in Port, NEW e \in Elements(queue[p])
      PROVE  /\ e.item \in Item /\ item[e.item] = "landed"
             /\ BoxOf(e.item) = p
             /\ Phase(e.item) = (IF e.ok THEN "mailed" ELSE "failed")
  <2>1. e \in Packet
    BY DEF Inv, TypeOK, Elements
  <2>2. e.item \in Item /\ item[e.item] = "landed"
    BY <2>1 DEF Packet, Inv, OnePacket, Items
  <2>3. \A r \in Port : e.item \in ItemsIn(r) <=> r = p
    <3>1. ASSUME NEW r \in Port, e.item \in ItemsIn(r) PROVE r = p
      BY <3>1, OneInEachQueue DEF ItemsIn
    <3> QED BY <3>1 DEF ItemsIn
  <2>4. BoxOf(e.item) = p
    BY <2>2, <2>3 DEF BoxOf
  <2>5. Failed(e.item) <=> ~e.ok
    BY OneInEachQueue DEF Failed
  <2>6. Phase(e.item) = (IF e.ok THEN "mailed" ELSE "failed")
    BY <2>2, <2>5 DEF Phase, PhaseOf
  <2> QED BY <2>2, <2>4, <2>6
<1>2. ASSUME NEW x \in Item, item[x] # "landed"
      PROVE  BoxOf(x) = None /\ Phase(x) = PhaseOf[item[x]]
  BY <1>2 DEF BoxOf, Phase
<1>3. ASSUME NEW x \in Item, item[x] = "landed"
      PROVE  \E p \in Port : \E e \in Elements(queue[p]) : e.item = x
  BY <1>3 DEF Inv, OnePacket, Items
<1> QED BY <1>1, <1>2, <1>3 DEF Reading

LEMMA ReadingStays == Inv' => Reading'
  BY ReadingHolds, PTL

(* An item is where it was if its packet is. *)
Keeps(x) ==
  /\ item'[x] = item[x]
  /\ \A p \in Port : \A e \in Elements(queue[p]) : e.item = x => e \in Elements(queue'[p])

LEMMA Steady ==
  ASSUME Reading, Reading', NEW x \in Item, Keeps(x)
  PROVE  Phase(x)' = Phase(x) /\ BoxOf(x)' = BoxOf(x)
<1>1. CASE item[x] = "landed"
  <2>1. PICK p \in Port : \E e \in Elements(queue[p]) : e.item = x
    BY <1>1 DEF Reading
  <2>a. PICK e \in Elements(queue[p]) : e.item = x
    BY <2>1
  <2>2. e \in Elements(queue'[p])
    BY <2>a DEF Keeps
  <2>3. BoxOf(x) = p /\ Phase(x) = (IF e.ok THEN "mailed" ELSE "failed")
    BY <2>a DEF Reading
  <2>4. BoxOf(x)' = p /\ Phase(x)' = (IF e.ok THEN "mailed" ELSE "failed")
    BY <2>a, <2>2 DEF Reading
  <2> QED BY <2>3, <2>4
<1>2. CASE item[x] # "landed"
  <2>1. BoxOf(x) = None /\ Phase(x) = PhaseOf[item[x]]
    BY <1>2 DEF Reading
  <2>2. BoxOf(x)' = None /\ Phase(x)' = PhaseOf[item'[x]]
    BY <1>2 DEF Reading, Keeps, PhaseOf
  <2> QED BY <2>1, <2>2 DEF Keeps
<1> QED BY <1>1, <1>2

(* The items of S move on together, and all others stay. *)
Moves(S, place, b) ==
  /\ \A x \in Item \cap S : Phase(x)' = place /\ BoxOf(x)' = b
  /\ \A x \in Item \ S : Phase(x)' = Phase(x) /\ BoxOf(x)' = BoxOf(x)

LEMMA MovesAre ==
  ASSUME NEW S \in SUBSET Item, NEW place, NEW b, Moves(S, place, b)
  PROVE  /\ Delivery!Become(S, place)
         /\ [x \in Item |-> BoxOf(x)]' = [x \in Item |-> IF x \in S THEN b ELSE BoxOf(x)]
<1>1. \A x \in Item : Phase(x)' = IF x \in S THEN place ELSE Phase(x)
  BY DEF Moves
<1>2. \A x \in Item : BoxOf(x)' = IF x \in S THEN b ELSE BoxOf(x)
  BY DEF Moves
<1>3. Delivery!Become(S, place)
  BY <1>1 DEF Delivery!Become
<1>4. [x \in Item |-> BoxOf(x)]' = [x \in Item |-> IF x \in S THEN b ELSE BoxOf(x)]
  BY <1>2
<1> QED BY <1>3, <1>4

LEMMA MailIs ==
  ASSUME TypeOK, Reading, NEW p \in Port PROVE Delivery!MailIn(p) = ItemsIn(p)
<1>1. ASSUME NEW x \in ItemsIn(p) PROVE x \in Item /\ BoxOf(x) = p /\ Phase(x) \in {"mailed", "failed"}
  BY DEF Reading, ItemsIn
<1>2. ASSUME NEW x \in Item, BoxOf(x) = p, Phase(x) \in {"mailed", "failed"} PROVE x \in ItemsIn(p)
  <2>1. item[x] = "landed"
    BY <1>2 DEF Reading, PhaseOf, TypeOK
  <2>2. PICK r \in Port : \E e \in Elements(queue[r]) : e.item = x
    BY <2>1 DEF Reading
  <2>3. r = p
    BY <1>2, <2>2 DEF Reading
  <2> QED BY <2>2, <2>3 DEF ItemsIn
<1> QED BY <1>1, <1>2 DEF Delivery!MailIn

(* The port of an association was made before it. *)
AssocUsed == \A f \in File : assoc[f] # None => state[assoc[f].port] # "unused"

LEMMA AssocStep == Inv /\ AssocUsed /\ [Next]_vars => AssocUsed'
<1> SUFFICES ASSUME Inv, AssocUsed, [Next]_vars PROVE AssocUsed'
  OBVIOUS
<1>a. TypeOK /\ WrapperOfPort
  BY DEF Inv
<1>b. \A f \in File : assoc[f] # None => assoc[f].port \in Port
  BY <1>a DEF TypeOK
<1>1. ASSUME NEW c \in Cp, NEW p \in Port, Create(c, p) PROVE AssocUsed'
  BY <1>1, <1>a, <1>b DEF Create, AssocUsed, TypeOK
<1>2. ASSUME NEW c \in Cp, Destroy(c) PROVE AssocUsed'
  BY <1>2, <1>a, <1>b DEF Destroy, AssocUsed, TypeOK
<1>3. ASSUME NEW c \in Cp, NEW f \in File, NEW token \in Token, Add(c, f, token) PROVE AssocUsed'
  <2>1. CASE handle[c] # Null
    <3>1. handle[c] \in Port /\ state[handle[c]] = "open"
      BY <1>3, <1>a, <2>1 DEF Add, Built, TypeOK, WrapperOfPort
    <3>2. assoc' = [assoc EXCEPT ![f] = [port |-> handle[c], token |-> token]] /\ state' = state
      BY <1>3, <2>1 DEF Add
    <3> QED BY <3>1, <3>2, <1>a DEF AssocUsed, TypeOK
  <2>2. CASE handle[c] = Null
    <3>1. PICK p \in Port :
            /\ state[p] = "unused"
            /\ state' = [state EXCEPT ![p] = "open"]
            /\ assoc' = [assoc EXCEPT ![f] = [port |-> p, token |-> token]]
      BY <1>3, <2>2 DEF Add
    <3> QED BY <3>1, <1>a, <1>b DEF AssocUsed, TypeOK
  <2> QED BY <2>1, <2>2
<1>4. CASE UNCHANGED <<assoc, state>>
  BY <1>4 DEF AssocUsed
<1> QED
  BY <1>1, <1>2, <1>3, <1>4 DEF Next, vars, MoveConstruct, MoveAssign, StartIo, Land, Post, Begin,
     Refuse, TakeOne, TakeMany, Expire

Shut == {p \in Port : state[p] = "closed"}

(* Steps that the delivery service does not see. *)
LEMMA Unseen ==
  ASSUME Reading, Reading', UNCHANGED <<queue, item>>, Shut' = Shut
  PROVE  UNCHANGED Delivery!vars
<1>1. \A x \in Item : Phase(x)' = Phase(x) /\ BoxOf(x)' = BoxOf(x)
  BY Steady DEF Keeps
<1> QED BY <1>1 DEF Delivery!vars, Shut

(* One item moves on, and no packet of another. *)
LEMMA OneMoves ==
  ASSUME Reading, Reading', NEW x \in Item,
         \A y \in Item \ {x} : Keeps(y)
  PROVE  Moves({x}, Phase(x)', BoxOf(x)')
  BY Steady DEF Moves

(* What each action of the port is to the delivery service.                *)
LEMMA SubmitStep ==
  ASSUME Inv, Inv', NEW x \in Op, StartIo(x) PROVE Delivery!Next
<1>1. Reading /\ Reading' /\ x \in Item /\ TypeOK
  BY ReadingHolds, ReadingStays DEF Inv, Item
<1>2. item'[x] = "flying" /\ item[x] = "idle" /\ \A y \in Item \ {x} : Keeps(y)
  BY <1>1 DEF StartIo, TypeOK, Keeps
<1>3. Phase(x) = "idle" /\ BoxOf(x) = None /\ Phase(x)' = "owed" /\ BoxOf(x)' = None
  BY <1>1, <1>2 DEF Reading, PhaseOf
<1>4. Moves({x}, "owed", None)
  BY <1>1, <1>2, <1>3, OneMoves
<1>5. Delivery!Submit(x)
  BY <1>1, <1>3, <1>4, MovesAre DEF Delivery!Submit, StartIo
<1> QED BY <1>1, <1>5 DEF Delivery!Next

(* A packet arrives, and becomes mail. *)
LEMMA Arrived ==
  ASSUME Inv, Inv', NEW p \in Port, NEW e \in Packet,
         item[e.item] \in {"idle", "flying"}, state[p] = "open",
         item[e.item] = "idle" => e.ok,
         queue' = [queue EXCEPT ![p] = Append(@, e)],
         item' = [item EXCEPT ![e.item] = "landed"],
         state' = state
  PROVE  \E told \in {"mailed", "failed"} : Delivery!Mail(e.item, p, told)
<1> DEFINE x == e.item
           told == IF e.ok THEN "mailed" ELSE "failed"
<1>1. Reading /\ Reading' /\ TypeOK /\ x \in Item
  BY ReadingHolds, ReadingStays DEF Inv, Packet
<1>2. queue[p] \in Seq(Packet) /\ queue'[p] = Append(queue[p], e)
      /\ \A r \in Port : r # p => queue'[r] = queue[r]
  BY <1>1 DEF TypeOK
<1>3. Elements(queue'[p]) = Elements(queue[p]) \cup {e}
  BY <1>2, AppendPacket
<1>4. \A y \in Item \ {x} : Keeps(y)
  BY <1>1, <1>2, <1>3 DEF Keeps, TypeOK
<1>5. BoxOf(x)' = p /\ Phase(x)' = told
  BY <1>1, <1>3 DEF Reading
<1>6. Phase(x) = PhaseOf[item[x]] /\ BoxOf(x) = None
  BY <1>1 DEF Reading
<1>7. Phase(x) = "owed" \/ (Phase(x) = "idle" /\ told = "mailed")
  BY <1>6 DEF PhaseOf
<1> HIDE DEF told, x
<1>8. Moves({x}, told, p)
  BY <1>1, <1>4, <1>5, OneMoves
<1>9. /\ Delivery!Become({x}, told)
      /\ [y \in Item |-> BoxOf(y)]' = [[y \in Item |-> BoxOf(y)] EXCEPT ![x] = p]
  <2>1. /\ Delivery!Become({x}, told)
        /\ [y \in Item |-> BoxOf(y)]' = [y \in Item |-> IF y \in {x} THEN p ELSE BoxOf(y)]
    <3>1. {x} \in SUBSET Item
      BY <1>1
    <3> QED BY ONLY <3>1, <1>8, MovesAre
  <2> QED BY <1>1, <2>1
<1>10. p \notin Shut /\ Shut' = Shut
  BY DEF Shut
<1>11. Delivery!Mail(x, p, told)
  BY <1>1, <1>7, <1>9, <1>10 DEF Delivery!Mail, Shut
<1> QED BY <1>11 DEF x, told

LEMMA PostStep ==
  ASSUME Inv, Inv', NEW c \in Cp, NEW x \in Msg, NEW token \in Token, Post(c, x, token)
  PROVE  Delivery!Next
<1> DEFINE e == [item |-> x, token |-> token, ok |-> TRUE]
<1>1. e \in Packet /\ e.item = x /\ e.ok /\ x \in Item
  BY DEF Packet, Item
<1>2. handle[c] \in Port /\ state[handle[c]] = "open"
  BY DEF Inv, Post, Built, TypeOK, WrapperOfPort
<1>3. /\ queue' = [queue EXCEPT ![handle[c]] = Append(@, e)]
      /\ item' = [item EXCEPT ![x] = "landed"]
      /\ item[x] = "idle"
      /\ state' = state
  BY DEF Post, Enqueue
<1> HIDE DEF e
<1>4. \E told \in {"mailed", "failed"} : Delivery!Mail(x, handle[c], told)
  BY <1>1, <1>2, <1>3, Arrived
<1> QED BY <1>1, <1>2, <1>4 DEF Delivery!Next

LEMMA LandStep ==
  ASSUME Inv, Inv', AssocUsed, NEW x \in Op, NEW ok \in BOOLEAN, Land(x, ok)
  PROVE  Delivery!Next
<1> DEFINE a == assoc[FileOf[x]]
           e == [item |-> x, token |-> a.token, ok |-> ok]
<1>1. Reading /\ Reading' /\ x \in Item /\ TypeOK
  BY ReadingHolds, ReadingStays DEF Inv, Item
<1>2. item[x] = "flying" /\ UNCHANGED <<state, assoc>> /\ Shut' = Shut
  BY DEF Land, Shut
<1>3. Phase(x) = "owed" /\ BoxOf(x) = None
  BY <1>1, <1>2 DEF Reading, PhaseOf
<1>4. CASE a = None \/ a.port \notin OpenPort
  <2>1. queue' = queue
        /\ item' = [item EXCEPT ![x] = IF a = None THEN "idle" ELSE "stranded"]
    BY <1>4 DEF Land
  <2>2. \A y \in Item \ {x} : Keeps(y)
    BY <1>1, <2>1 DEF Keeps, TypeOK
  <2>3. item'[x] = IF a = None THEN "idle" ELSE "stranded"
    BY <1>1, <2>1 DEF TypeOK
  <2>4. BoxOf(x)' = None /\ Phase(x)' = IF a = None THEN "idle" ELSE "gone"
    BY <1>1, <2>3 DEF Reading, PhaseOf
  <2>5. Moves({x}, IF a = None THEN "idle" ELSE "gone", None)
    BY <1>1, <2>2, <2>4, OneMoves
  <2>6. /\ Delivery!Become({x}, IF a = None THEN "idle" ELSE "gone")
        /\ [y \in Item |-> BoxOf(y)]' = [y \in Item |-> BoxOf(y)]
    BY <1>1, <1>3, <2>5, MovesAre
  <2>7. CASE a = None
    <3>1. Delivery!Skip(x)
      BY <1>1, <1>2, <1>3, <2>6, <2>7 DEF Delivery!Skip, Shut
    <3> QED BY <1>1, <3>1 DEF Delivery!Next
  <2>8. CASE a # None
    <3>1. a.port \in Port /\ state[a.port] \in {"unused", "open", "closed"}
      BY <1>1, <2>8, Constants DEF TypeOK
    <3>2. state[a.port] # "unused"
      BY <2>8, Constants DEF AssocUsed
    <3>3. a.port \in Shut
      BY <1>4, <2>8, <3>1, <3>2 DEF OpenPort, Shut
    <3>4. Delivery!ComeLate(x)
      BY <1>1, <1>2, <1>3, <2>6, <2>8, <3>3 DEF Delivery!ComeLate, Shut
    <3> QED BY <1>1, <3>4 DEF Delivery!Next
  <2> QED BY <2>7, <2>8
<1>5. CASE a # None /\ a.port \in OpenPort
  <2>1. a \in [port : Port, token : Token]
    BY <1>1, <1>5, Constants DEF TypeOK
  <2>2. e \in Packet /\ e.item = x
    BY <2>1 DEF Packet, Item
  <2>3. /\ queue' = [queue EXCEPT ![a.port] = Append(@, e)]
        /\ item' = [item EXCEPT ![x] = "landed"]
    BY <1>5 DEF Land, Enqueue
  <2>4. a.port \in Port /\ state[a.port] = "open"
    BY <1>5 DEF OpenPort
  <2> HIDE DEF e
  <2>5. \E told \in {"mailed", "failed"} : Delivery!Mail(x, a.port, told)
    BY <1>2, <2>2, <2>3, <2>4, Arrived
  <2> QED BY <1>1, <2>4, <2>5 DEF Delivery!Next
<1> QED BY <1>4, <1>5

(* Packets leave one queue, and their items move on together. *)
LEMMA Departed ==
  ASSUME Inv, Inv', NEW p \in Port, NEW n \in 0 .. Len(queue[p]), NEW place,
         queue' = [queue EXCEPT ![p] = SubSeq(@, n + 1, Len(@))],
         \A x \in Item : item'[x] = IF x \in {queue[p][i].item : i \in 1 .. n}
                                      THEN place ELSE item[x],
         place \in {"idle", "dropped", "stranded"}
  PROVE  LET S == {queue[p][i].item : i \in 1 .. n} IN
           /\ S \in SUBSET Item
           /\ S \subseteq Delivery!MailIn(p)
           /\ Moves(S, PhaseOf[place], None)
<1> DEFINE S == {queue[p][i].item : i \in 1 .. n}
           r == SubSeq(queue[p], n + 1, Len(queue[p]))
<1>1. Reading /\ Reading' /\ TypeOK /\ Unique(queue[p]) /\ queue[p] \in Seq(Packet)
  BY ReadingHolds, ReadingStays DEF Inv, OnePacket, TypeOK
<1>2. Elements(r) \subseteq Elements(queue[p]) /\ Items(r) = Items(queue[p]) \ S
  BY <1>1, TakePackets
<1>3. \A q \in Port : queue'[q] = IF q = p THEN r ELSE queue[q]
  BY <1>1 DEF TypeOK
<1>4. S \subseteq ItemsIn(p)
  <2>1. Len(queue[p]) \in Nat
    BY <1>1, LenProperties
  <2> QED BY <2>1 DEF ItemsIn, Elements
<1>5. S \subseteq Item
  <2>1. ItemsIn(p) \subseteq Item
    BY <1>1 DEF Reading, ItemsIn
  <2> HIDE DEF S
  <2> QED BY <1>4, <2>1
<1> HIDE DEF S, r
<1>6. ASSUME NEW x \in Item \ S PROVE Phase(x)' = Phase(x) /\ BoxOf(x)' = BoxOf(x)
  <2>1. item'[x] = item[x]
    BY DEF S
  <2>2. ASSUME NEW q \in Port, NEW e \in Elements(queue[q]), e.item = x
        PROVE  e \in Elements(queue'[q])
    <3>1. CASE q = p
      <4>1. x \in Items(r)
        BY <1>2, <2>2, <3>1 DEF Items
      <4>2. PICK f \in Elements(r) : f.item = x
        BY <4>1 DEF Items
      <4>3. f = e
        BY <1>2, <2>2, <3>1, <4>2, OneInEachQueue
      <4> QED BY <1>3, <3>1, <4>2, <4>3
    <3>2. CASE q # p
      BY <1>3, <2>2, <3>2
    <3> QED BY <3>1, <3>2
  <2> QED BY <1>1, <2>1, <2>2, Steady DEF Keeps
<1>7. ASSUME NEW x \in S PROVE Phase(x)' = PhaseOf[place] /\ BoxOf(x)' = None
  <2>1. x \in Item /\ item'[x] = place
    BY <1>5 DEF S
  <2> QED BY <1>1, <2>1 DEF Reading
<1>8. Moves(S, PhaseOf[place], None)
  BY <1>6, <1>7 DEF Moves
<1> QED BY <1>1, <1>4, <1>5, <1>8, MailIs DEF S

(* The close of a port shuts its box, with the mail that is in it.         *)
LEMMA DestroyStep ==
  ASSUME Inv, Inv', NEW c \in Cp, Destroy(c)
  PROVE  Delivery!Next \/ UNCHANGED Delivery!vars
<1>1. Reading /\ Reading' /\ TypeOK
  BY ReadingHolds, ReadingStays DEF Inv
<1>2. CASE handle[c] = Null
  <2>1. UNCHANGED <<queue, item, state>>
    BY <1>2 DEF Destroy
  <2> QED BY <1>1, <2>1, Unseen DEF Shut
<1>3. CASE handle[c] # Null
  <2>a. handle[c] \in Port
    BY <1>3 DEF Inv, TypeOK, Destroy, Built
  <2>b. PICK p \in Port : p = handle[c]
    BY <2>a
  <2> DEFINE n == Len(queue[p])
             S == {queue[p][i].item : i \in 1 .. n}
  <2>1. p \in Port /\ state[p] = "open" /\ queue[p] \in Seq(Packet)
    BY <2>b DEF Inv, TypeOK, WrapperOfPort
  <2>2. n \in Nat /\ n \in 0 .. Len(queue[p])
    BY <2>1, LenProperties
  <2>3. SubSeq(queue[p], n + 1, n) = <<>>
    BY <2>2, SubSeqEmpty
  <2>4. queue' = [queue EXCEPT ![p] = SubSeq(@, n + 1, Len(@))]
    <3>1. queue' = [queue EXCEPT ![p] = <<>>]
      BY <1>3, <2>b DEF Destroy
    <3> QED BY <2>3, <3>1
  <2>5. S = ItemsIn(p)
    BY DEF ItemsIn, Elements
  <2>6. \A x \in Item : item'[x] = IF x \in S THEN "stranded" ELSE item[x]
    BY <1>3, <2>b, <2>5 DEF Destroy
  <2>7. Shut' = Shut \cup {p} /\ p \notin Shut
    BY <1>1, <1>3, <2>b, <2>1 DEF Destroy, Shut, TypeOK
  <2>8. S \in SUBSET Item /\ Moves(S, PhaseOf["stranded"], None)
    <3> HIDE DEF n
    <3> QED BY <2>1, <2>2, <2>4, <2>6, Departed
  <2>9. S = Delivery!MailIn(p)
    BY <1>1, <2>1, <2>5, MailIs
  <2> HIDE DEF S
  <2>10. Moves(S, "gone", None)
    BY <2>8 DEF PhaseOf
  <2>11. /\ Delivery!Become(S, "gone")
         /\ [x \in Item |-> BoxOf(x)]' = [x \in Item |-> IF x \in S THEN None ELSE BoxOf(x)]
    BY ONLY <2>8, <2>10, MovesAre
  <2>12. Delivery!Shut(p)
    BY <2>7, <2>9, <2>11 DEF Delivery!Shut, Delivery!Leave, Shut
  <2> QED BY <2>1, <2>12 DEF Delivery!Next
<1> QED BY <1>2, <1>3

(* Packets a call returns to its caller are a report.                      *)
LEMMA ReportStep ==
  ASSUME Inv, Inv', NEW p \in Port, NEW n \in 1 .. Len(queue[p]), state' = state,
         queue' = [queue EXCEPT ![p] = SubSeq(@, n + 1, Len(@))],
         \A x \in Item : item'[x] = IF x \in {queue[p][i].item : i \in 1 .. n}
                                      THEN "idle" ELSE item[x]
  PROVE  Delivery!Next
<1> DEFINE S == {queue[p][i].item : i \in 1 .. n}
<1>1. n \in 0 .. Len(queue[p])
  OBVIOUS
<1>2. S # {}
  <2>1. 1 \in 1 .. n
    OBVIOUS
  <2>2. queue[p][1].item \in S
    BY <2>1
  <2> QED BY <2>2
<1>3. S \in SUBSET Item /\ S \subseteq Delivery!MailIn(p) /\ Moves(S, PhaseOf["idle"], None)
  BY <1>1, Departed
<1> HIDE DEF S
<1>4. Moves(S, "idle", None)
  BY <1>3 DEF PhaseOf
<1>5. /\ Delivery!Become(S, "idle")
      /\ [x \in Item |-> BoxOf(x)]' = [x \in Item |-> IF x \in S THEN None ELSE BoxOf(x)]
  BY ONLY <1>3, <1>4, MovesAre
<1>6. Delivery!Report(p, S)
  BY <1>2, <1>3, <1>5 DEF Delivery!Report, Delivery!Leave
<1> QED BY <1>3, <1>6 DEF Delivery!Next

(* get reports one item, or loses it.                                      *)
LEMMA TakeOneDelivers ==
  ASSUME Inv, Inv', NEW t \in Thread, TakeOne(t) PROVE Delivery!Next
<1> DEFINE p == call[t].port
           e == queue[p][1]
           x == e.item
           S == {queue[p][i].item : i \in 1 .. 1}
<1>1. Reading /\ Reading' /\ TypeOK
  BY ReadingHolds, ReadingStays DEF Inv
<1>2. p \in Port /\ 1 \in 0 .. Len(queue[p])
      /\ queue' = [queue EXCEPT ![p] = SubSeq(@, 1 + 1, Len(@))]
  <2>1. 1 + 1 = 2
    OBVIOUS
  <2> QED BY <1>1, <2>1, TakeOneStep
<1>3. queue[p] \in Seq(Packet) /\ queue[p] # <<>> /\ Len(queue[p]) \in Nat
  BY <1>1, <1>2, LenProperties DEF TakeOne, TypeOK
<1>4. 1 \in 1 .. Len(queue[p]) /\ Head(queue[p]) = e
  BY <1>2, <1>3, EmptySeq
<1>5. e \in Packet /\ e \in Elements(queue[p]) /\ x \in Item
  <2>1. e \in Packet
    BY <1>3, <1>4, ElementOfSeq
  <2> QED BY <1>4, <2>1 DEF Elements, Packet
<1>6. S = {x}
  OBVIOUS
<1>7. state' = state /\ item' = [item EXCEPT ![x] = IF e.ok THEN "idle" ELSE "dropped"]
  BY <1>4 DEF TakeOne
<1> HIDE DEF p, e, x
<1>8. \A y \in Item : item'[y] = IF y \in {x} THEN (IF e.ok THEN "idle" ELSE "dropped")
                                              ELSE item[y]
  BY <1>1, <1>5, <1>7 DEF TypeOK
<1>9. CASE e.ok
  <2>1. \A y \in Item : item'[y] = IF y \in S THEN "idle" ELSE item[y]
    BY <1>6, <1>8, <1>9
  <2> QED BY <1>2, <1>4, <1>7, <2>1, ReportStep
<1>10. CASE ~e.ok
  <2>1. \A y \in Item : item'[y] = IF y \in S THEN "dropped" ELSE item[y]
    BY <1>6, <1>8, <1>10
  <2>2. S \in SUBSET Item /\ S \subseteq Delivery!MailIn(p) /\ Moves(S, PhaseOf["dropped"], None)
    BY <1>2, <2>1, Departed
  <2> HIDE DEF S
  <2>3. Moves(S, "gone", None)
    BY <2>2 DEF PhaseOf
  <2>4. /\ Delivery!Become(S, "gone")
        /\ [y \in Item |-> BoxOf(y)]' = [y \in Item |-> IF y \in S THEN None ELSE BoxOf(y)]
    BY ONLY <2>2, <2>3, MovesAre
  <2>5. Phase(x) = "failed"
    BY <1>1, <1>2, <1>5, <1>10 DEF Reading, x
  <2>6. Delivery!Lose(p, x)
    BY <1>5, <1>6, <1>7, <2>2, <2>4, <2>5 DEF Delivery!Lose, Delivery!Leave
  <2> QED BY <1>2, <1>5, <2>6 DEF Delivery!Next
<1> QED BY <1>9, <1>10

LEMMA TakeManyDelivers ==
  ASSUME Inv, Inv', NEW t \in Thread, TakeMany(t) PROVE Delivery!Next
<1> DEFINE p == call[t].port
           n == IF Len(queue[p]) < call[t].room THEN Len(queue[p]) ELSE call[t].room
<1>1. TypeOK
  BY DEF Inv
<1>2. p \in Port /\ queue[p] \in Seq(Packet) /\ queue[p] # <<>>
      /\ call[t].room \in Nat /\ call[t].room # 0
  BY <1>1 DEF TakeMany, Refused, OpenPort, TypeOK, Waiting, Dword
<1>3. Len(queue[p]) \in Nat /\ Len(queue[p]) # 0
  BY <1>2, LenProperties, EmptySeq
<1>4. n \in 1 .. Len(queue[p])
  BY <1>2, <1>3
<1>5. /\ queue' = [queue EXCEPT ![p] = SubSeq(@, n + 1, Len(@))]
      /\ state' = state
  BY DEF TakeMany
<1>6. \A x \in Item : item'[x] = IF x \in {queue[p][i].item : i \in 1 .. n}
                                   THEN "idle" ELSE item[x]
  BY DEF TakeMany
<1> HIDE DEF n, p
<1> QED BY <1>2, <1>4, <1>5, <1>6, ReportStep

LEMMA DeliveryStep ==
  ASSUME Inv, Inv', AssocUsed, [Next]_vars
  PROVE  [Delivery!Next]_(Delivery!vars)
<1>1. Reading /\ Reading' /\ TypeOK
  BY ReadingHolds, ReadingStays DEF Inv
<1>2. ASSUME NEW c \in Cp, NEW p \in Port, Create(c, p) PROVE UNCHANGED Delivery!vars
  <2>1. Shut' = Shut /\ UNCHANGED <<queue, item>>
    BY <1>1, <1>2 DEF Create, Shut, TypeOK
  <2> QED BY <1>1, <2>1, Unseen
<1>3. ASSUME NEW c \in Cp, NEW f \in File, NEW token \in Token, Add(c, f, token)
      PROVE  UNCHANGED Delivery!vars
  <2>1. Shut' = Shut
    BY <1>1, <1>3 DEF Add, Shut, TypeOK
  <2>2. UNCHANGED <<queue, item>>
    BY <1>3 DEF Add
  <2> QED BY <1>1, <2>1, <2>2, Unseen
<1>4. CASE UNCHANGED <<queue, item, state>>
  BY <1>1, <1>4, Unseen DEF Shut
<1>5. ASSUME NEW c \in Cp, Destroy(c) PROVE Delivery!Next \/ UNCHANGED Delivery!vars
  BY <1>5, DestroyStep
<1>6. ASSUME NEW x \in Op, StartIo(x) PROVE Delivery!Next
  BY <1>6, SubmitStep
<1>7. ASSUME NEW x \in Op, NEW ok \in BOOLEAN, Land(x, ok) PROVE Delivery!Next
  BY <1>7, LandStep
<1>8. ASSUME NEW c \in Cp, NEW x \in Msg, NEW token \in Token, Post(c, x, token)
      PROVE  Delivery!Next
  BY <1>8, PostStep
<1>9. ASSUME NEW t \in Thread, TakeOne(t) PROVE Delivery!Next
  BY <1>9, TakeOneDelivers
<1>10. ASSUME NEW t \in Thread, TakeMany(t) PROVE Delivery!Next
  BY <1>10, TakeManyDelivers
<1> HIDE DEF Delivery!Next, Delivery!vars
<1> QED
  BY <1>2, <1>3, <1>4, <1>5, <1>6, <1>7, <1>8, <1>9, <1>10
     DEF Next, vars, MoveConstruct, MoveAssign, Begin, Refuse, Expire

LEMMA DeliveryInit == Init => Delivery!Init /\ AssocUsed
<1> SUFFICES ASSUME Init PROVE Delivery!Init /\ AssocUsed
  OBVIOUS
<1>1. \A x \in Item : Phase(x) = "idle" /\ BoxOf(x) = None
  <2>1. Reading /\ \A x \in Item : item[x] = "idle"
    BY InitInv, ReadingHolds DEF Init
  <2> QED BY <2>1 DEF Reading, PhaseOf
<1>2. {p \in Port : state[p] = "closed"} = {}
  BY DEF Init
<1> QED BY <1>1, <1>2 DEF Delivery!Init, Init, AssocUsed

(* Whatever the wrappers, files and threads do, the completions go the way *)
(* CompletionDelivery says: reported once, from the box they were mailed   *)
(* to, and lost only by a call for one status or by the close of the port. *)
THEOREM DeliveryImplemented == Spec => ImplementsDelivery
<1>1. Spec => []AssocUsed
  BY DeliveryInit, AssocStep, InvHolds, PTL DEF Spec
<1>2. Inv /\ Inv' /\ AssocUsed /\ [Next]_vars => [Delivery!Next]_(Delivery!vars)
  BY DeliveryStep
<1> HIDE DEF Delivery!Next, Delivery!vars, Delivery!Init
<1> QED BY <1>1, <1>2, DeliveryInit, InvHolds, PTL DEF Spec, ImplementsDelivery, Delivery!Spec

-----------------------------------------------------------------------------
(* The timeouts. *)

(* Multiples of a DWORD's size that lie within one size are one size. *)
LEMMA OneMultiple ==
  ASSUME NEW d \in Nat, NEW m \in Int, 1 <= d * m, d * m <= d
  PROVE  m = 1
<1>1. d >= 1
  <2>1. d = 0 => d * m = 0
    OBVIOUS
  <2> QED BY <2>1
<1>2. ASSUME m <= 0 PROVE d * m <= 0
  BY <1>1, <1>2, SMTT(40)
<1>3. ASSUME m >= 2 PROVE d * m >= d + d
  BY <1>1, <1>3, SMTT(40)
<1> QED BY <1>1, <1>2, <1>3

(* get and get_many wait without limit when a time is given exactly for    *)
(* the times that are one millisecond less than a multiple of a DWORD's    *)
(* size, of which -1 is one: the clamp before the cast changes nothing.    *)
THEOREM TimesWithoutLimit ==
  \A n \in Timeout \ {Nullopt} :
    Duration(n) = INFINITE <=> \E k \in Int : n = k * DwordLimit - 1
<1> SUFFICES ASSUME NEW n \in Timeout \ {Nullopt}
             PROVE  n % DwordLimit = DwordLimit - 1 <=> \E k \in Int : n = k * DwordLimit - 1
  BY DEF Duration, ToDword, INFINITE
<1>1. n \in Int /\ DwordLimit \in Nat /\ DwordLimit > 0
  BY Constants
<1>2. n \div DwordLimit \in Int
  BY <1>1
<1>3. n % DwordLimit \in 0 .. DwordLimit - 1
  BY <1>1
<1>4. n = DwordLimit * (n \div DwordLimit) + (n % DwordLimit)
  BY <1>1
<1> DEFINE d == DwordLimit
           q == n \div d
           r == n % d
<1>5. n \in Int /\ d \in Nat /\ q \in Int /\ r \in 0 .. d - 1 /\ n = d * q + r
  BY <1>1, <1>2, <1>3, <1>4
<1> HIDE DEF d, q, r
<1>6. ASSUME r = d - 1 PROVE \E k \in Int : n = k * d - 1
  <2>1. q + 1 \in Int /\ n = (q + 1) * d - 1
    BY <1>5, <1>6
  <2> QED BY ONLY <2>1, Zenon
<1>7. ASSUME NEW k \in Int, n = k * d - 1 PROVE r = d - 1
  <2>1. d * (k - q) = d * k - d * q
    BY <1>5
  <2>2. d * (k - q) = r + 1
    BY <1>5, <1>7, <2>1
  <2>3. k - q = 1
    <3> DEFINE m == k - q
    <3>1. m \in Int /\ 1 <= d * m /\ d * m <= d
      BY <1>5, <2>2
    <3> HIDE DEF m
    <3>2. m = 1
      BY <1>5, <3>1, OneMultiple
    <3> QED BY <3>2 DEF m
  <2>4. d * 1 = r + 1
    BY <2>2, <2>3
  <2> QED BY <1>5, <2>4
<1> QED BY <1>6, <1>7 DEF d, r
=============================================================================
