------------------------ MODULE HandleOwnership_proofs ------------------------
(***************************************************************************)
(* Proofs about HandleOwnership for any number of wrappers, handle values  *)
(* and kernel objects.                                                     *)
(*                                                                         *)
(* OwnershipSound is not inductive: a close by one owner spares the others *)
(* only if no two owners hold the same value, and that follows only if no  *)
(* object has two owners (Exclusive) and the kernel never has one object   *)
(* under two values (KernelSound).  A new owner of a new object is alone   *)
(* only because every owned object has been created before (KernelSound    *)
(* again).  Inv is the conjunction.                                        *)
(***************************************************************************)
EXTENDS HandleOwnership, TLAPS

(* A wrapper has a value exactly when it has a title, and the value still  *)
(* denotes the object of the title.                                        *)
WrapperSound == \A w \in Wrapper :
  /\ raw[w] \in Raw <=> title[w] # Nothing
  /\ raw[w] \in Raw => table[raw[w]] = title[w]

AppSound == \A a \in app : a[1] \in Raw /\ a[2] # Nothing /\ table[a[1]] = a[2]

(* No object has two wrappers, or a wrapper and the application.           *)
Exclusive ==
  /\ \A w, v \in Wrapper : title[w] = title[v] /\ title[w] # Nothing => w = v
  /\ \A w \in Wrapper, a \in app : title[w] # a[2]

(* The kernel gives an object one value, and only one it has created.      *)
KernelSound ==
  /\ \A h, k \in Raw : table[h] = table[k] /\ table[h] # Nothing => h = k
  /\ \A h \in Raw : table[h] # Nothing => table[h] \in born

Held == WrapperSound /\ AppSound /\ Exclusive /\ KernelSound

Inv == TypeOK /\ (defined => Held)

-----------------------------------------------------------------------------
(* Every variable keeps its type: the value stored by each constructor,    *)
(* assignment and destructor is a handle value, nullptr or no value.       *)
THEOREM TypeCorrect == Spec => []TypeOK
<1>1. Init => TypeOK
  BY DEF Init, TypeOK
<1>2. TypeOK /\ [Next]_vars => TypeOK'
  <2> SUFFICES ASSUME TypeOK, [Next]_vars PROVE TypeOK'
    OBVIOUS
  <2> USE DEF TypeOK
  <2>1. ASSUME NEW h \in Raw, NEW o \in Object, Open(h, o) PROVE TypeOK'
    BY <2>1 DEF Open
  <2>2. ASSUME NEW w \in Wrapper, NEW h \in Raw \cup {Null},
               NEW o \in Object \cup {Nothing}, Construct(w, h, o)
        PROVE TypeOK'
    BY <2>2 DEF Construct
  <2>3. ASSUME NEW w \in Wrapper, ConstructNull(w) PROVE TypeOK'
    BY <2>3 DEF ConstructNull
  <2>4. ASSUME NEW w \in Wrapper, NEW v \in Wrapper, MoveConstruct(w, v)
        PROVE TypeOK'
    BY <2>4 DEF MoveConstruct
  <2>5. ASSUME NEW w \in Wrapper, NEW v \in Wrapper, MoveAssign(w, v)
        PROVE TypeOK'
    BY <2>5 DEF MoveAssign
  <2>6. ASSUME NEW w \in Wrapper, Destroy(w) PROVE TypeOK'
    BY <2>6 DEF Destroy, CloseHandle
  <2>7. ASSUME NEW w \in Wrapper, IntoRaw(w) PROVE TypeOK'
    <3>1. raw' \in [Wrapper -> Raw \cup {Null, Unbuilt}]
          /\ title' \in [Wrapper -> Object \cup {Nothing}]
          /\ table' = table /\ born' = born /\ defined' \in BOOLEAN
      BY <2>7 DEF IntoRaw
    <3>2. raw[w] \in Raw \cup {Null} /\ title[w] \in Object \cup {Nothing}
      BY <2>7 DEF IntoRaw, Built
    <3>3. app' \subseteq (Raw \cup {Null}) \X (Object \cup {Nothing})
      BY <2>7, <3>2 DEF IntoRaw
    <3> QED BY <3>1, <3>3
  <2>8. ASSUME NEW h \in Raw \cup {Null}, NEW o \in Object \cup {Nothing},
               CloseRaw(h, o)
        PROVE TypeOK'
    BY <2>8 DEF CloseRaw, CloseHandle
  <2>9. CASE UNCHANGED vars
    BY <2>9 DEF vars
  <2> QED
    BY <2>1, <2>2, <2>3, <2>4, <2>5, <2>6, <2>7, <2>8, <2>9 DEF Next
<1> QED BY <1>1, <1>2, PTL DEF Spec

-----------------------------------------------------------------------------
(* The holders of a live value hold different values: what a close through *)
(* one of them may rely on.                                                *)
LEMMA ValuesDiffer ==
  ASSUME TypeOK, Held
  PROVE  /\ \A w, v \in Wrapper : raw[w] \in Raw /\ raw[v] = raw[w] => v = w
         /\ \A w \in Wrapper, a \in app : raw[w] # a[1]
         /\ \A a, b \in app : a[1] = b[1] => a = b
<1>1. \A w, v \in Wrapper : raw[w] \in Raw /\ raw[v] = raw[w] => v = w
  BY DEF Held, WrapperSound, Exclusive
<1>2. \A w \in Wrapper, a \in app : raw[w] # a[1]
  BY DEF Held, WrapperSound, AppSound, Exclusive
<1>3. \A a, b \in app : a[1] = b[1] => a = b
  BY DEF TypeOK, Held, AppSound
<1> QED BY <1>1, <1>2, <1>3

LEMMA InitInv == Init => Inv
<1> SUFFICES ASSUME Init PROVE Inv
  OBVIOUS
<1>1. TypeOK
  BY DEF Init, TypeOK
<1>2. Held
  BY Sentinels DEF Init, Held, WrapperSound, AppSound, Exclusive, KernelSound
<1> QED BY <1>1, <1>2 DEF Inv

LEMMA StepInv == Inv /\ TypeOK' /\ [Next]_vars => Inv'
<1> SUFFICES ASSUME Inv, TypeOK', [Next]_vars, defined' PROVE Held'
  BY DEF Inv
<1>1. TypeOK
  BY DEF Inv
<1>2. defined
  BY <1>1 DEF Next, vars, Open, Construct, ConstructNull, MoveConstruct,
              MoveAssign, Destroy, IntoRaw, CloseRaw, TypeOK
<1>3. Held
  BY <1>2 DEF Inv
<1>4. /\ \A w, v \in Wrapper : raw[w] \in Raw /\ raw[v] = raw[w] => v = w
      /\ \A w \in Wrapper, a \in app : raw[w] # a[1]
      /\ \A a, b \in app : a[1] = b[1] => a = b
  BY <1>1, <1>3, ValuesDiffer
<1> USE Sentinels, <1>1 DEF TypeOK
<1>5. ASSUME NEW h \in Raw, NEW o \in Object, Open(h, o) PROVE Held'
  <2>1. \A w \in Wrapper : title[w] # o
    BY <1>3, <1>5 DEF Held, WrapperSound, KernelSound, Open
  <2>2. \A a \in app : a[2] # o
    BY <1>3, <1>5 DEF Held, AppSound, KernelSound, Open
  <2>3. WrapperSound'
    BY <1>3, <1>5 DEF Held, WrapperSound, Open
  <2>4. AppSound'
    BY <1>3, <1>5 DEF Held, AppSound, Open
  <2>5. Exclusive'
    BY <1>3, <1>5, <2>1 DEF Held, Exclusive, Open
  <2>6. KernelSound'
    BY <1>3, <1>5 DEF Held, KernelSound, Open
  <2> QED BY <2>3, <2>4, <2>5, <2>6 DEF Held
<1>6. ASSUME NEW w \in Wrapper, NEW h \in Raw \cup {Null},
             NEW o \in Object \cup {Nothing}, Construct(w, h, o)
      PROVE Held'
  <2>1. h \in Raw /\ o # Nothing /\ table[h] = o /\ title[w] = Nothing
    BY <1>3, <1>6 DEF Held, AppSound, WrapperSound, Construct, Built
  <2>2. \A v \in Wrapper : title[v] # o
    BY <1>3, <1>6 DEF Held, Exclusive, Construct
  <2>3. \A a \in app' : a[2] # o
    BY <1>3, <1>6, <2>1 DEF Held, AppSound, KernelSound, Construct
  <2>4. WrapperSound'
    BY <1>3, <1>6, <2>1 DEF Held, WrapperSound, Construct
  <2>5. AppSound'
    BY <1>3, <1>6 DEF Held, AppSound, Construct
  <2>6. Exclusive'
    BY <1>3, <1>6, <2>2, <2>3 DEF Held, Exclusive, Construct
  <2>7. KernelSound'
    BY <1>3, <1>6 DEF Held, KernelSound, Construct
  <2> QED BY <2>4, <2>5, <2>6, <2>7 DEF Held
<1>7. ASSUME NEW w \in Wrapper, ConstructNull(w) PROVE Held'
  BY <1>3, <1>7
     DEF Held, WrapperSound, AppSound, Exclusive, KernelSound, ConstructNull, Built
<1>8. ASSUME NEW w \in Wrapper, NEW v \in Wrapper,
             MoveConstruct(w, v) \/ MoveAssign(w, v)
      PROVE Held'
  <2>1. /\ raw' = [raw EXCEPT ![w] = raw[v], ![v] = Null]
        /\ title' = [title EXCEPT ![w] = title[v], ![v] = Nothing]
        /\ UNCHANGED <<table, born, app>>
    BY <1>8 DEF MoveConstruct, MoveAssign
  <2>2. WrapperSound'
    BY <1>3, <2>1 DEF Held, WrapperSound
  <2>3. AppSound' /\ KernelSound'
    BY <1>3, <2>1 DEF Held, AppSound, KernelSound
  <2>4. Exclusive'
    BY <1>3, <2>1 DEF Held, AppSound, Exclusive
  <2> QED BY <2>2, <2>3, <2>4 DEF Held
<1>9. ASSUME NEW w \in Wrapper, Destroy(w) PROVE Held'
  <2>1. raw' = [raw EXCEPT ![w] = Unbuilt]
        /\ title' = [title EXCEPT ![w] = Nothing]
        /\ UNCHANGED <<born, app>>
    BY <1>9 DEF Destroy
  <2>2. table' = [h \in Raw |-> IF h = raw[w] THEN Nothing ELSE table[h]]
    BY <1>9 DEF Destroy, CloseHandle
  <2>3. WrapperSound'
    BY <1>3, <1>4, <2>1, <2>2 DEF Held, WrapperSound
  <2>4. AppSound'
    BY <1>3, <1>4, <2>1, <2>2 DEF Held, AppSound
  <2>5. Exclusive'
    BY <1>3, <2>1 DEF Held, AppSound, Exclusive
  <2>6. KernelSound'
    BY <1>3, <2>1, <2>2 DEF Held, KernelSound
  <2> QED BY <2>3, <2>4, <2>5, <2>6 DEF Held
<1>10. ASSUME NEW w \in Wrapper, IntoRaw(w) PROVE Held'
  <2>1. /\ raw' = [raw EXCEPT ![w] = Null]
        /\ title' = [title EXCEPT ![w] = Nothing]
        /\ UNCHANGED <<table, born>>
        /\ raw[w] # Unbuilt
    BY <1>10 DEF IntoRaw, Built
  <2>2. app' = app \cup (IF raw[w] = Null THEN {} ELSE {<<raw[w], title[w]>>})
    BY <1>10 DEF IntoRaw
  <2>3. WrapperSound'
    BY <1>3, <2>1 DEF Held, WrapperSound
  <2>4. AppSound'
    BY <1>3, <2>1, <2>2 DEF Held, WrapperSound, AppSound
  <2>5. Exclusive'
    <3>1. \A a \in app' : (a[2] = title[w] /\ raw[w] \in Raw) \/ a \in app
      BY <2>1, <2>2
    <3>2. \A v \in Wrapper, a \in app' : title'[v] # a[2]
      BY <1>3, <2>1, <3>1 DEF Held, WrapperSound, AppSound, Exclusive
    <3>3. \A u, v \in Wrapper : title'[u] = title'[v] /\ title'[u] # Nothing => u = v
      BY <1>3, <2>1 DEF Held, Exclusive
    <3> QED BY <3>2, <3>3 DEF Exclusive
  <2>6. KernelSound'
    BY <1>3, <2>1 DEF Held, KernelSound
  <2> QED BY <2>3, <2>4, <2>5, <2>6 DEF Held
<1>11. ASSUME NEW h \in Raw \cup {Null}, NEW o \in Object \cup {Nothing},
              CloseRaw(h, o)
       PROVE Held'
  <2>1. /\ <<h, o>> \in app
        /\ app' = app \ {<<h, o>>}
        /\ table' = [x \in Raw |-> IF x = h THEN Nothing ELSE table[x]]
        /\ UNCHANGED <<raw, title, born>>
    BY <1>11 DEF CloseRaw, CloseHandle
  <2>2. \A a \in app' : a[1] # h
    BY <1>4, <2>1
  <2>3. \A w \in Wrapper : raw[w] # h
    BY <1>4, <2>1
  <2>4. WrapperSound'
    BY <1>3, <2>1, <2>3 DEF Held, WrapperSound
  <2>5. AppSound'
    BY <1>3, <2>1, <2>2 DEF Held, AppSound
  <2>6. Exclusive'
    BY <1>3, <2>1 DEF Held, Exclusive
  <2>7. KernelSound'
    BY <1>3, <2>1 DEF Held, KernelSound
  <2> QED BY <2>4, <2>5, <2>6, <2>7 DEF Held
<1>12. CASE UNCHANGED vars
  BY <1>3, <1>12 DEF vars, Held, WrapperSound, AppSound, Exclusive, KernelSound
<1> QED
  BY <1>5, <1>6, <1>7, <1>8, <1>9, <1>10, <1>11, <1>12 DEF Next

LEMMA InvHolds == Spec => []Inv
<1> USE InitInv, StepInv, TypeCorrect
<1> QED BY PTL DEF Spec

-----------------------------------------------------------------------------
(* Before undefined behaviour every held value denotes its own object.     *)
THEOREM HeldValuesAreLive == Spec => []OwnershipSound
<1>1. Inv => OwnershipSound
  BY DEF Inv, Held, WrapperSound, AppSound, OwnershipSound
<1> QED BY <1>1, InvHolds, PTL

(* Before undefined behaviour no object has two owners and no value sits   *)
(* in two wrappers.                                                        *)
THEOREM OwnersAreUnique == Spec => []SingleOwner
<1>1. Inv => SingleOwner
  <2> SUFFICES ASSUME Inv, defined PROVE SingleOwner
    BY DEF SingleOwner
  <2>1. TypeOK /\ Held
    BY DEF Inv
  <2>2. \A w, v \in Wrapper : raw[w] = raw[v] /\ raw[w] \in Raw => w = v
    BY <2>1, ValuesDiffer
  <2>3. ASSUME NEW o \in Object, NEW x \in Owners(o), NEW y \in Owners(o)
        PROVE x = y
    <3>1. CASE x \in Wrapper /\ y \in Wrapper
      BY <2>1, <2>3, <3>1, Sentinels DEF Held, Exclusive, Owners
    <3>2. CASE x = App /\ y \in Wrapper
      BY <2>1, <2>3, <3>2, Sentinels DEF Held, Exclusive, Owners
    <3>3. CASE x \in Wrapper /\ y = App
      BY <2>1, <2>3, <3>3, Sentinels DEF Held, Exclusive, Owners
    <3> QED BY <2>3, <3>1, <3>2, <3>3 DEF Owners
  <2> QED BY <2>2, <2>3 DEF SingleOwner
<1> QED BY <1>1, InvHolds, PTL

-----------------------------------------------------------------------------
(* The effect of each step on the owners of the objects and on the open    *)
(* objects, in the terms of the abstract specification.                    *)

OpenObjects == {o \in Object : IsOpen(o)}

LEMMA OpenStep ==
  ASSUME TypeOK, Held, NEW h \in Raw, NEW o \in Object, Open(h, o)
  PROVE  /\ \A p \in Object : Owners(p)' = IF p = o THEN {App} ELSE Owners(p)
         /\ OpenObjects' = OpenObjects \cup {o}
<1>1. \A w \in Wrapper : title[w] # o
  BY Sentinels DEF TypeOK, Held, WrapperSound, KernelSound, Open
<1>2. Owners(o)' = {App}
  <2>1. <<h, o>> \in app' /\ title' = title
    BY DEF Open
  <2>2. \E a \in app' : a[2] = o
    BY <2>1
  <2> QED BY <1>1, <2>1, <2>2 DEF Owners
<1>3. ASSUME NEW p \in Object, p # o PROVE Owners(p)' = Owners(p)
  BY <1>3 DEF Owners, Open
<1>4. OpenObjects' = OpenObjects \cup {o}
  BY Sentinels DEF OpenObjects, IsOpen, Open, TypeOK
<1> QED BY <1>2, <1>3, <1>4

LEMMA ConstructStep ==
  ASSUME TypeOK, Held, NEW w \in Wrapper, NEW h \in Raw \cup {Null},
         NEW o \in Object \cup {Nothing}, Construct(w, h, o)
  PROVE  /\ o \in Object /\ IsOpen(o) /\ Owners(o) = {App}
         /\ \A p \in Object : Owners(p)' = IF p = o THEN {w} ELSE Owners(p)
<1>1. h \in Raw /\ o # Nothing /\ table[h] = o /\ title[w] = Nothing
  BY Sentinels DEF TypeOK, Held, AppSound, WrapperSound, Construct, Built
<1>2. o \in Object /\ IsOpen(o)
  BY <1>1 DEF IsOpen
<1>3. \A v \in Wrapper : title[v] # o
  BY DEF Held, Exclusive, Construct
<1>4. Owners(o) = {App}
  BY <1>3 DEF Owners, Construct
<1>5. \A a \in app' : a[2] # o
  BY <1>1 DEF TypeOK, Held, AppSound, KernelSound, Construct
<1>6. \A v \in Wrapper : title'[v] = IF v = w THEN o ELSE title[v]
  BY DEF TypeOK, Construct
<1>7. Owners(o)' = {w}
  BY <1>3, <1>5, <1>6 DEF Owners
<1>8. ASSUME NEW p \in Object, p # o PROVE Owners(p)' = Owners(p)
  <2>1. \A v \in Wrapper : title'[v] = p <=> title[v] = p
    BY <1>1, <1>6, <1>8, Sentinels
  <2>2. (\E a \in app' : a[2] = p) <=> (\E a \in app : a[2] = p)
    BY <1>8 DEF Construct
  <2> QED BY <2>1, <2>2 DEF Owners
<1> QED BY <1>2, <1>4, <1>7, <1>8

LEMMA MoveStep ==
  ASSUME TypeOK, Held, NEW w \in Wrapper, NEW v \in Wrapper,
         MoveConstruct(w, v) \/ MoveAssign(w, v)
  PROVE  \A p \in Object : Owners(p)' = IF w \in Owners(p) THEN {}
                                        ELSE IF v \in Owners(p) THEN {w}
                                        ELSE Owners(p)
<1> SUFFICES ASSUME NEW p \in Object
             PROVE Owners(p)' = IF w \in Owners(p) THEN {}
                                ELSE IF v \in Owners(p) THEN {w}
                                ELSE Owners(p)
  OBVIOUS
<1>1. app' = app
  BY DEF MoveConstruct, MoveAssign
<1>2. \A u \in Wrapper : title'[u] = IF u = v THEN Nothing
                                     ELSE IF u = w THEN title[v] ELSE title[u]
  BY DEF TypeOK, MoveConstruct, MoveAssign
<1>3. w \in Owners(p) <=> title[w] = p
  BY Sentinels DEF Owners
<1>4. v \in Owners(p) <=> title[v] = p
  BY Sentinels DEF Owners
<1>5. CASE title[w] = p
  BY <1>1, <1>2, <1>3, <1>5, Sentinels DEF Owners, Held, Exclusive
<1>6. CASE title[w] # p /\ title[v] = p
  BY <1>1, <1>2, <1>3, <1>4, <1>6, Sentinels DEF Owners, Held, Exclusive
<1>7. CASE title[w] # p /\ title[v] # p
  <2>1. \A u \in Wrapper : title'[u] = p <=> title[u] = p
    BY <1>2, <1>7, Sentinels
  <2> QED BY <1>1, <1>3, <1>4, <1>7, <2>1 DEF Owners
<1> QED BY <1>5, <1>6, <1>7

LEMMA DestroyStep ==
  ASSUME TypeOK, Held, NEW w \in Wrapper, Destroy(w)
  PROVE  /\ \A p \in Object : Owners(p)' = IF p = title[w] THEN {} ELSE Owners(p)
         /\ OpenObjects' = OpenObjects \ {title[w]}
         /\ title[w] # Nothing => Owners(title[w]) = {w}
<1>1. \A u \in Wrapper : title'[u] = IF u = w THEN Nothing ELSE title[u]
  BY DEF TypeOK, Destroy
<1>2. app' = app
  BY DEF Destroy
<1>3. table' = [x \in Raw |-> IF x = raw[w] THEN Nothing ELSE table[x]]
  BY Sentinels DEF Destroy, CloseHandle, TypeOK
<1>4. \A h \in Raw : h = raw[w] <=> table[h] = title[w] /\ title[w] # Nothing
  BY DEF Held, WrapperSound, KernelSound
<1>5. title[w] # Nothing => Owners(title[w]) = {w}
  BY Sentinels DEF Owners, Held, Exclusive
<1>6. ASSUME NEW p \in Object PROVE Owners(p)' = IF p = title[w] THEN {} ELSE Owners(p)
  <2>1. CASE p = title[w]
    BY <1>1, <1>2, <2>1, Sentinels DEF Owners, Held, Exclusive
  <2>2. CASE p # title[w]
    BY <1>1, <1>2, <2>2, Sentinels DEF Owners
  <2> QED BY <2>1, <2>2
<1>7. OpenObjects' = OpenObjects \ {title[w]}
  <2>1. \A o \in Object : IsOpen(o)' <=> IsOpen(o) /\ o # title[w]
    BY <1>3, <1>4, Sentinels DEF IsOpen, TypeOK
  <2> QED BY <2>1 DEF OpenObjects
<1> QED BY <1>5, <1>6, <1>7

LEMMA IntoRawStep ==
  ASSUME TypeOK, Held, NEW w \in Wrapper, IntoRaw(w), defined'
  PROVE  /\ \A p \in Object : Owners(p)' = IF p = title[w] THEN {App} ELSE Owners(p)
         /\ title[w] # Nothing => Owners(title[w]) = {w} /\ IsOpen(title[w])
<1>1. \A u \in Wrapper : title'[u] = IF u = w THEN Nothing ELSE title[u]
  BY DEF TypeOK, IntoRaw
<1>2. app' = app \cup (IF raw[w] = Null THEN {} ELSE {<<raw[w], title[w]>>})
  BY DEF IntoRaw
<1>3. raw[w] # Null <=> title[w] # Nothing
  BY Sentinels DEF IntoRaw, Built, TypeOK, Held, WrapperSound
<1>4. title[w] # Nothing => Owners(title[w]) = {w} /\ IsOpen(title[w])
  BY Sentinels DEF Owners, IsOpen, Held, Exclusive, WrapperSound
<1>5. ASSUME NEW p \in Object
      PROVE Owners(p)' = IF p = title[w] THEN {App} ELSE Owners(p)
  <2>1. CASE p = title[w]
    <3>1. \A u \in Wrapper : title'[u] # p
      BY <1>1, <2>1, Sentinels DEF Held, Exclusive
    <3>2. \E a \in app' : a[2] = p
      <4>1. <<raw[w], title[w]>> \in app'
        BY <1>2, <1>3, <2>1, Sentinels
      <4> QED BY <4>1, <2>1
    <3> QED BY <2>1, <3>1, <3>2 DEF Owners
  <2>2. CASE p # title[w]
    <3>1. \A u \in Wrapper : title'[u] = p <=> title[u] = p
      BY <1>1, <2>2, Sentinels
    <3>2. (\E a \in app' : a[2] = p) <=> (\E a \in app : a[2] = p)
      BY <1>2, <2>2
    <3> QED BY <2>2, <3>1, <3>2 DEF Owners
  <2> QED BY <2>1, <2>2
<1> QED BY <1>4, <1>5

LEMMA CloseRawStep ==
  ASSUME TypeOK, Held, NEW h \in Raw \cup {Null}, NEW o \in Object \cup {Nothing},
         CloseRaw(h, o)
  PROVE  /\ o \in Object /\ Owners(o) = {App}
         /\ \A p \in Object : Owners(p)' = IF p = o THEN {} ELSE Owners(p)
         /\ OpenObjects' = OpenObjects \ {o}
<1>1. <<h, o>> \in app /\ app' = app \ {<<h, o>>} /\ title' = title
  BY DEF CloseRaw
<1>2. table' = [x \in Raw |-> IF x = h THEN Nothing ELSE table[x]]
  BY DEF CloseRaw, CloseHandle
<1>3. h \in Raw /\ o # Nothing /\ table[h] = o
  BY <1>1 DEF Held, AppSound
<1>4. o \in Object
  BY <1>3
<1>5. \A x \in Raw : table[x] = o <=> x = h
  BY <1>3 DEF Held, KernelSound
<1>6. \A a \in app : a[2] = o => a = <<h, o>>
  BY <1>5 DEF TypeOK, Held, AppSound
<1>7. \A v \in Wrapper : title[v] # o
  BY <1>1 DEF Held, Exclusive
<1>8. Owners(o) = {App}
  BY <1>1, <1>7 DEF Owners
<1>9. Owners(o)' = {}
  BY <1>1, <1>6, <1>7 DEF Owners
<1>10. ASSUME NEW p \in Object, p # o PROVE Owners(p)' = Owners(p)
  BY <1>1, <1>10 DEF Owners
<1>11. OpenObjects' = OpenObjects \ {o}
  <2>1. \A p \in Object : IsOpen(p)' <=> IsOpen(p) /\ p # o
    BY <1>2, <1>3, <1>5, Sentinels DEF IsOpen, TypeOK
  <2> QED BY <2>1 DEF OpenObjects
<1> QED BY <1>4, <1>8, <1>9, <1>10, <1>11

-----------------------------------------------------------------------------
(* Undefined behaviour is not undone.                                      *)
LEMMA DefinedBefore == TypeOK /\ [Next]_vars /\ defined' => defined
  BY DEF Next, vars, Open, Construct, ConstructNull, MoveConstruct, MoveAssign,
         Destroy, IntoRaw, CloseRaw, TypeOK

LEMMA ClosingIsOwned ==
  ASSUME Inv, [Next]_vars, defined', NEW o \in Object, IsOpen(o), ~IsOpen(o)'
  PROVE  Owned(o) /\ ~Owned(o)'
<1>1. TypeOK /\ Held
  BY DefinedBefore DEF Inv
<1>2. ~UNCHANGED table
  BY DEF IsOpen
<1>3. CASE \E h \in Raw, p \in Object : Open(h, p)
  BY <1>1, <1>3, Sentinels DEF Open, IsOpen, TypeOK
<1>4. CASE \E w \in Wrapper : Destroy(w)
  <2>1. PICK w \in Wrapper : Destroy(w)
    BY <1>4
  <2>2. /\ Owners(o)' = IF o = title[w] THEN {} ELSE Owners(o)
        /\ OpenObjects' = OpenObjects \ {title[w]}
        /\ title[w] # Nothing => Owners(title[w]) = {w}
    BY <1>1, <2>1, DestroyStep
  <2>3. o = title[w]
    BY <2>2 DEF OpenObjects
  <2> QED BY <2>2, <2>3, Sentinels DEF Owned
<1>5. CASE \E h \in Raw \cup {Null}, p \in Object \cup {Nothing} : CloseRaw(h, p)
  <2>1. PICK h \in Raw \cup {Null}, p \in Object \cup {Nothing} : CloseRaw(h, p)
    BY <1>5
  <2>2. /\ Owners(p) = {App}
        /\ Owners(o)' = IF o = p THEN {} ELSE Owners(o)
        /\ OpenObjects' = OpenObjects \ {p}
    BY <1>1, <2>1, CloseRawStep
  <2>3. o = p
    BY <2>2 DEF OpenObjects
  <2> QED BY <2>2, <2>3 DEF Owned
<1> QED
  BY <1>2, <1>3, <1>4, <1>5
     DEF Next, vars, Construct, ConstructNull, MoveConstruct, MoveAssign, IntoRaw

(* No step but the owner's own closes an object.                           *)
THEOREM OnlyTheOwnerCloses == Spec => ClosedByItsOwner
<1>1. Inv /\ [Next]_vars =>
        [defined' => \A o \in Object :
           IsOpen(o) /\ ~IsOpen(o)' => Owned(o) /\ ~Owned(o)']_vars
  BY ClosingIsOwned
<1> QED BY <1>1, InvHolds, PTL DEF Spec, ClosedByItsOwner

(* A leaked object is out of reach of every operation: only the owner      *)
(* closes, and nobody who does not own an object comes to own it.          *)
THEOREM LeaksAreFinal == Spec => LeakedForGood
<1>1. ASSUME Inv, [Next]_vars, defined', NEW o \in Object, Orphan(o) PROVE Owners(o)' = {}
  <2>1. TypeOK /\ Held
    BY <1>1, DefinedBefore DEF Inv
  <2>2. Owners(o) = {} /\ IsOpen(o)
    BY <1>1 DEF Orphan, Owned
  <2>3. CASE \E h \in Raw, p \in Object : Open(h, p)
    <3>1. PICK h \in Raw, p \in Object : Open(h, p)
      BY <2>3
    <3>2. Owners(o)' = IF o = p THEN {App} ELSE Owners(o)
      BY <2>1, <3>1, OpenStep
    <3>3. o \in born /\ p \notin born
      BY <1>1, <2>1, <2>2, <3>1, Sentinels DEF Held, KernelSound, IsOpen, Open
    <3> QED BY <2>2, <3>2, <3>3
  <2>4. CASE \E w \in Wrapper, h \in Raw \cup {Null}, p \in Object \cup {Nothing} :
               Construct(w, h, p)
    <3>1. PICK w \in Wrapper, h \in Raw \cup {Null}, p \in Object \cup {Nothing} :
            Construct(w, h, p)
      BY <2>4
    <3>2. Owners(p) = {App} /\ Owners(o)' = IF o = p THEN {w} ELSE Owners(o)
      BY <2>1, <3>1, ConstructStep
    <3> QED BY <2>2, <3>2
  <2>5. CASE \E w, v \in Wrapper : MoveConstruct(w, v) \/ MoveAssign(w, v)
    <3>1. PICK w \in Wrapper, v \in Wrapper : MoveConstruct(w, v) \/ MoveAssign(w, v)
      BY <2>5
    <3>2. Owners(o)' = IF w \in Owners(o) THEN {}
                       ELSE IF v \in Owners(o) THEN {w} ELSE Owners(o)
      BY <2>1, <3>1, MoveStep
    <3> QED BY <2>2, <3>2
  <2>6. CASE \E w \in Wrapper : Destroy(w)
    <3>1. PICK w \in Wrapper : Destroy(w)
      BY <2>6
    <3>2. Owners(o)' = IF o = title[w] THEN {} ELSE Owners(o)
      BY <2>1, <3>1, DestroyStep
    <3> QED BY <2>2, <3>2
  <2>7. CASE \E w \in Wrapper : IntoRaw(w)
    <3>1. PICK w \in Wrapper : IntoRaw(w)
      BY <2>7
    <3>2. /\ Owners(o)' = IF o = title[w] THEN {App} ELSE Owners(o)
          /\ title[w] # Nothing => Owners(title[w]) = {w}
      BY <1>1, <2>1, <3>1, IntoRawStep
    <3>3. o # title[w]
      BY <2>2, <3>2, Sentinels
    <3> QED BY <2>2, <3>2, <3>3
  <2>8. CASE \E h \in Raw \cup {Null}, p \in Object \cup {Nothing} : CloseRaw(h, p)
    <3>1. PICK h \in Raw \cup {Null}, p \in Object \cup {Nothing} : CloseRaw(h, p)
      BY <2>8
    <3>2. Owners(o)' = IF o = p THEN {} ELSE Owners(o)
      BY <2>1, <3>1, CloseRawStep
    <3> QED BY <2>2, <3>2
  <2>9. CASE (\E w \in Wrapper : ConstructNull(w)) \/ UNCHANGED vars
    BY <2>2, <2>9 DEF ConstructNull, vars, Owners
  <2> QED BY <1>1, <2>3, <2>4, <2>5, <2>6, <2>7, <2>8, <2>9 DEF Next
<1>2. ASSUME Inv, [Next]_vars, defined', NEW o \in Object, Orphan(o) PROVE Orphan(o)'
  <2>1. Owners(o)' = {}
    BY <1>1, <1>2
  <2>2. IsOpen(o)'
    BY <1>2, ClosingIsOwned DEF Orphan
  <2> QED BY <2>1, <2>2 DEF Orphan, Owned
<1>3. Inv /\ [Next]_vars => [defined' => \A o \in Object : Orphan(o) => Orphan(o)']_vars
  BY <1>2
<1> QED BY <1>3, InvHolds, PTL DEF Spec, LeakedForGood

(* The only leak: a live wrapper that held the object was overwritten.     *)
THEOREM OnlyAssignmentLeaks == Spec => LeakOnlyByOverwrite
<1>1. ASSUME Inv, [Next]_vars, defined', NEW o \in Object, Orphan(o)', ~Orphan(o)
      PROVE \E w \in Wrapper : title[w] = o /\ Built(w)'
  <2>1. TypeOK /\ Held
    BY <1>1, DefinedBefore DEF Inv
  <2>2. IsOpen(o)' /\ Owners(o)' = {} /\ (IsOpen(o) => Owners(o) # {})
    BY <1>1 DEF Orphan, Owned
  <2>3. CASE \E h \in Raw, p \in Object : Open(h, p)
    <3>1. PICK h \in Raw, p \in Object : Open(h, p)
      BY <2>3
    <3>2. Owners(o)' = (IF o = p THEN {App} ELSE Owners(o))
          /\ OpenObjects' = OpenObjects \cup {p}
      BY <2>1, <3>1, OpenStep
    <3> QED BY <2>2, <3>2 DEF OpenObjects
  <2>4. CASE \E w \in Wrapper, h \in Raw \cup {Null}, p \in Object \cup {Nothing} :
               Construct(w, h, p)
    <3>1. PICK w \in Wrapper, h \in Raw \cup {Null}, p \in Object \cup {Nothing} :
            Construct(w, h, p)
      BY <2>4
    <3>2. Owners(o)' = IF o = p THEN {w} ELSE Owners(o)
      BY <2>1, <3>1, ConstructStep
    <3>3. IsOpen(o)
      BY <2>2, <3>1 DEF Construct, IsOpen
    <3> QED BY <2>2, <3>2, <3>3
  <2>5. CASE \E w \in Wrapper : ConstructNull(w)
    BY <2>2, <2>5 DEF ConstructNull, IsOpen, Owners
  <2>6. CASE \E w, v \in Wrapper : MoveConstruct(w, v) \/ MoveAssign(w, v)
    <3>1. PICK w \in Wrapper, v \in Wrapper : MoveConstruct(w, v) \/ MoveAssign(w, v)
      BY <2>6
    <3>2. Owners(o)' = IF w \in Owners(o) THEN {}
                       ELSE IF v \in Owners(o) THEN {w} ELSE Owners(o)
      BY <2>1, <3>1, MoveStep
    <3>3. IsOpen(o)
      BY <2>2, <3>1 DEF MoveConstruct, MoveAssign, IsOpen
    <3>4. title[w] = o
      BY <2>2, <3>2, <3>3, Sentinels DEF Owners
    <3>5. Built(w)'
      BY <2>1, <3>1, Sentinels DEF MoveConstruct, MoveAssign, Built, TypeOK
    <3> QED BY <3>4, <3>5
  <2>7. CASE \E w \in Wrapper : Destroy(w)
    <3>1. PICK w \in Wrapper : Destroy(w)
      BY <2>7
    <3>2. /\ Owners(o)' = IF o = title[w] THEN {} ELSE Owners(o)
          /\ OpenObjects' = OpenObjects \ {title[w]}
      BY <2>1, <3>1, DestroyStep
    <3> QED BY <2>2, <3>2 DEF OpenObjects
  <2>8. CASE \E w \in Wrapper : IntoRaw(w)
    <3>1. PICK w \in Wrapper : IntoRaw(w)
      BY <2>8
    <3>2. Owners(o)' = IF o = title[w] THEN {App} ELSE Owners(o)
      BY <1>1, <2>1, <3>1, IntoRawStep
    <3>3. IsOpen(o)
      BY <2>2, <3>1 DEF IntoRaw, IsOpen
    <3> QED BY <2>2, <3>2, <3>3
  <2>9. CASE \E h \in Raw \cup {Null}, p \in Object \cup {Nothing} : CloseRaw(h, p)
    <3>1. PICK h \in Raw \cup {Null}, p \in Object \cup {Nothing} : CloseRaw(h, p)
      BY <2>9
    <3>2. /\ Owners(o)' = IF o = p THEN {} ELSE Owners(o)
          /\ OpenObjects' = OpenObjects \ {p}
      BY <2>1, <3>1, CloseRawStep
    <3> QED BY <2>2, <3>2 DEF OpenObjects
  <2>10. CASE UNCHANGED vars
    BY <2>2, <2>10 DEF vars, IsOpen, Owners
  <2> QED
    BY <1>1, <2>3, <2>4, <2>5, <2>6, <2>7, <2>8, <2>9, <2>10 DEF Next
<1>2. Inv /\ [Next]_vars =>
        [defined' => \A o \in Object :
           Orphan(o)' /\ ~Orphan(o) =>
             \E w \in Wrapper : title[w] = o /\ Built(w)']_vars
  BY <1>1
<1> QED BY <1>2, InvHolds, PTL DEF Spec, LeakOnlyByOverwrite

-----------------------------------------------------------------------------
(* The class implements a resource whose owner is unique and which is      *)
(* released once, by its owner: each step is one abstract step, or none.   *)
LEMMA StepImplements ==
  Inv /\ Inv' /\ [Next]_vars => [Resources!Next]_(Resources!vars)
<1> SUFFICES ASSUME Inv, Inv', [Next]_vars
             PROVE Resources!Next \/ UNCHANGED Resources!vars
  OBVIOUS
<1> DEFINE owners == [o \in Object |-> Owners(o)]
<1>1. TypeOK /\ TypeOK'
  BY DEF Inv
<1>2. \A o \in Object : Owners(o) \subseteq Wrapper \cup {App}
  BY DEF Owners
<1>3. CASE ~defined'
  <2>1. defined' = FALSE
    BY <1>1, <1>3 DEF TypeOK
  <2>2. owners' \in [Object -> SUBSET (Wrapper \cup {App})]
    BY DEF Owners
  <2>3. {o \in Object : IsOpen(o)}' \in SUBSET Object
    OBVIOUS
  <2>4. born' \in SUBSET Object
    BY <1>1 DEF TypeOK
  <2> QED BY <2>1, <2>2, <2>3, <2>4 DEF Resources!Next, Resources!Break
<1>4. CASE defined'
  <2>1. defined /\ defined' = defined /\ Held
    BY <1>1, <1>4, DefinedBefore DEF Inv, TypeOK
  <2>2. SUFFICES Resources!Keeps \/ UNCHANGED <<owners, OpenObjects, born>>
    BY <2>1 DEF Resources!Next, Resources!vars, OpenObjects
  <2>3. ASSUME NEW h \in Raw, NEW o \in Object, Open(h, o) PROVE Resources!Keeps
    <3>1. /\ \A p \in Object : Owners(p)' = IF p = o THEN {App} ELSE Owners(p)
          /\ OpenObjects' = OpenObjects \cup {o}
      BY <1>1, <2>1, <2>3, OpenStep
    <3>2. owners' = [owners EXCEPT ![o] = {App}]
      BY <3>1
    <3>3. o \notin born /\ born' = born \cup {o}
      BY <2>3 DEF Open
    <3> QED BY <3>1, <3>2, <3>3 DEF Resources!Keeps, Resources!Acquire, OpenObjects
  <2>4. ASSUME NEW w \in Wrapper, NEW h \in Raw \cup {Null},
               NEW o \in Object \cup {Nothing}, Construct(w, h, o)
        PROVE Resources!Keeps
    <3>1. /\ o \in Object /\ IsOpen(o) /\ Owners(o) = {App}
          /\ \A p \in Object : Owners(p)' = IF p = o THEN {w} ELSE Owners(p)
      BY <1>1, <2>1, <2>4, ConstructStep
    <3>2. owners' = [owners EXCEPT ![o] = {w}]
      BY <3>1
    <3>3. UNCHANGED <<OpenObjects, born>>
      BY <2>4 DEF Construct, OpenObjects, IsOpen
    <3>4. owners[o] = {App} /\ o \in OpenObjects
      BY <3>1 DEF OpenObjects
    <3>5. Resources!Transfer(App, w, o)
      BY <3>2, <3>3, <3>4 DEF Resources!Transfer, OpenObjects
    <3> QED BY <3>1, <3>5 DEF Resources!Keeps
  <2>5. ASSUME NEW w \in Wrapper, ConstructNull(w)
        PROVE UNCHANGED <<owners, OpenObjects, born>>
    BY <2>5 DEF ConstructNull, OpenObjects, IsOpen, Owners
  <2>6. ASSUME NEW w \in Wrapper, NEW v \in Wrapper,
               MoveConstruct(w, v) \/ MoveAssign(w, v)
        PROVE Resources!Keeps
    <3>1. \A p \in Object : Owners(p)' = IF w \in Owners(p) THEN {}
                                         ELSE IF v \in Owners(p) THEN {w}
                                         ELSE Owners(p)
      BY <1>1, <2>1, <2>6, MoveStep
    <3>2. UNCHANGED <<OpenObjects, born>>
      BY <2>6 DEF MoveConstruct, MoveAssign, OpenObjects, IsOpen
    <3>3. owners' = [p \in Object |-> IF w \in owners[p] THEN {}
                                      ELSE IF v \in owners[p] THEN {w}
                                      ELSE owners[p]]
      BY <3>1
    <3>4. Resources!Replace(w, v)
      BY <3>2, <3>3 DEF Resources!Replace, OpenObjects
    <3> QED BY <3>4 DEF Resources!Keeps
  <2>7. ASSUME NEW w \in Wrapper, Destroy(w)
        PROVE Resources!Keeps \/ UNCHANGED <<owners, OpenObjects, born>>
    <3>1. /\ \A p \in Object : Owners(p)' = IF p = title[w] THEN {} ELSE Owners(p)
          /\ OpenObjects' = OpenObjects \ {title[w]}
          /\ title[w] # Nothing => Owners(title[w]) = {w}
      BY <1>1, <2>1, <2>7, DestroyStep
    <3>2. born' = born
      BY <2>7 DEF Destroy
    <3>3. CASE title[w] = Nothing
      BY <3>1, <3>2, <3>3, Sentinels DEF OpenObjects
    <3>4. CASE title[w] # Nothing
      <4>1. title[w] \in Object
        BY <1>1, <3>4 DEF TypeOK
      <4>2. owners' = [owners EXCEPT ![title[w]] = {}]
        BY <3>1, <4>1
      <4>3. owners[title[w]] = {w}
        BY <3>1, <3>4, <4>1
      <4>4. Resources!Release(w, title[w])
        BY <3>1, <3>2, <4>2, <4>3 DEF Resources!Release, OpenObjects
      <4> QED BY <4>1, <4>4 DEF Resources!Keeps
    <3> QED BY <3>3, <3>4
  <2>8. ASSUME NEW w \in Wrapper, IntoRaw(w)
        PROVE Resources!Keeps \/ UNCHANGED <<owners, OpenObjects, born>>
    <3>1. /\ \A p \in Object : Owners(p)' = IF p = title[w] THEN {App} ELSE Owners(p)
          /\ title[w] # Nothing => Owners(title[w]) = {w} /\ IsOpen(title[w])
      BY <1>1, <1>4, <2>1, <2>8, IntoRawStep
    <3>2. UNCHANGED <<OpenObjects, born>>
      BY <2>8 DEF IntoRaw, OpenObjects, IsOpen
    <3>3. CASE title[w] = Nothing
      BY <3>1, <3>2, <3>3, Sentinels
    <3>4. CASE title[w] # Nothing
      <4>1. title[w] \in Object
        BY <1>1, <3>4 DEF TypeOK
      <4>2. owners' = [owners EXCEPT ![title[w]] = {App}]
        BY <3>1, <4>1
      <4>3. owners[title[w]] = {w} /\ title[w] \in OpenObjects
        BY <3>1, <3>4, <4>1 DEF OpenObjects
      <4>4. Resources!Transfer(w, App, title[w])
        BY <3>2, <4>2, <4>3 DEF Resources!Transfer, OpenObjects
      <4> QED BY <4>1, <4>4 DEF Resources!Keeps
    <3> QED BY <3>3, <3>4
  <2>9. ASSUME NEW h \in Raw \cup {Null}, NEW o \in Object \cup {Nothing},
               CloseRaw(h, o)
        PROVE Resources!Keeps
    <3>1. /\ o \in Object /\ Owners(o) = {App}
          /\ \A p \in Object : Owners(p)' = IF p = o THEN {} ELSE Owners(p)
          /\ OpenObjects' = OpenObjects \ {o}
      BY <1>1, <2>1, <2>9, CloseRawStep
    <3>2. owners' = [owners EXCEPT ![o] = {}] /\ owners[o] = {App}
      BY <3>1
    <3>3. born' = born
      BY <2>9 DEF CloseRaw
    <3>4. Resources!Release(App, o)
      BY <3>1, <3>2, <3>3 DEF Resources!Release, OpenObjects
    <3> QED BY <3>1, <3>4 DEF Resources!Keeps
  <2>10. CASE UNCHANGED vars
    BY <2>10 DEF vars, OpenObjects, IsOpen, Owners
  <2> QED
    BY <2>3, <2>4, <2>5, <2>6, <2>7, <2>8, <2>9, <2>10 DEF Next
<1> QED BY <1>3, <1>4

THEOREM Refinement == Spec => ImplementsUniqueResource
<1>1. Init => Resources!Init
  BY Sentinels DEF Init, Resources!Init, Owners, IsOpen
<1> USE InvHolds, StepImplements
<1> QED BY <1>1, PTL DEF Spec, ImplementsUniqueResource, Resources!Spec
=============================================================================
