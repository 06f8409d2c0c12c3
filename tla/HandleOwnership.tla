--------------------------- MODULE HandleOwnership ---------------------------
(***************************************************************************)
(* Who owns a kernel object: class laio::iocp::Handle, and CompletionPort, *)
(* whose only member is a Handle and whose own constructors, assignment    *)
(* and into_raw_handle only forward to it.                                 *)
(*                                                                         *)
(* A wrapper holds a raw HANDLE value.  The kernel's handle table says     *)
(* which object a value denotes at the moment; a value that was closed may *)
(* be given out again for another object, so that a wrapper that closes a  *)
(* value it should no longer hold closes somebody else's object.  title    *)
(* and app remember, for the properties only, which object a value was     *)
(* acquired for.                                                           *)
(***************************************************************************)

CONSTANTS
  Wrapper,   \* storage for C++ objects of class Handle
  Raw,       \* the values a HANDLE can take, nullptr aside
  Object,    \* kernel objects: files, completion ports, events
  Null,      \* nullptr
  Unbuilt,   \* storage whose constructor has not run, or whose destructor has
  Nothing,   \* no object
  App        \* the application code outside the wrappers, as an owner

ASSUME Sentinels ==
  /\ Null \notin Raw
  /\ Unbuilt \notin Raw
  /\ Null # Unbuilt
  /\ Nothing \notin Object
  /\ App \notin Wrapper

VARIABLES
  raw,       \* raw_handle_ of every wrapper
  title,     \* the object each wrapper's value was acquired for (history)
  table,     \* the kernel's handle table
  born,      \* objects created so far
  app,       \* <<value, object>>: raw handles the application must close itself
  defined    \* FALSE once a dangling reference was read (undefined behaviour)

vars == <<raw, title, table, born, app, defined>>

Built(w) == raw[w] # Unbuilt
IsOpen(o) == \E h \in Raw : table[h] = o

(* The wrappers and the application code that hold a value for object o.   *)
Owners(o) == {w \in Wrapper : title[w] = o}
               \cup {x \in {App} : \E a \in app : a[2] = o}
Owned(o) == Owners(o) # {}
Orphan(o) == IsOpen(o) /\ ~Owned(o)

Init ==
  /\ raw = [w \in Wrapper |-> Unbuilt]
  /\ title = [w \in Wrapper |-> Nothing]
  /\ table = [h \in Raw |-> Nothing]
  /\ born = {}
  /\ app = {}
  /\ defined = TRUE

-----------------------------------------------------------------------------
(* The kernel. *)

(* CreateFileW, CreateIoCompletionPort, CreateEventW: a new object under   *)
(* any value that is free at the moment, a reused one included.            *)
Open(h, o) ==
  /\ table[h] = Nothing
  /\ o \notin born
  /\ table' = [table EXCEPT ![h] = o]
  /\ born' = born \cup {o}
  /\ app' = app \cup {<<h, o>>}
  /\ UNCHANGED <<raw, title, defined>>

(* CloseHandle frees the value, whatever object it denotes by now; on a    *)
(* value that denotes nothing it fails and changes nothing.                *)
CloseHandle(h) == table' = [x \in Raw |-> IF x = h THEN Nothing ELSE table[x]]

-----------------------------------------------------------------------------
(* Class Handle. *)

(* explicit Handle(HANDLE), Handle{nullptr} and from_raw_handle: the       *)
(* application hands over a value it owns.                                 *)
Construct(w, h, o) ==
  /\ ~Built(w)
  /\ <<h, o>> \in app
  /\ raw' = [raw EXCEPT ![w] = h]
  /\ title' = [title EXCEPT ![w] = o]
  /\ app' = app \ {<<h, o>>}
  /\ UNCHANGED <<table, born, defined>>

(* raw_handle_ without its default initializer: an indeterminate value.    *)
ConstructIndeterminate(w) ==
  /\ ~Built(w)
  /\ raw' = [raw EXCEPT ![w] = Nothing]
  /\ UNCHANGED <<title, table, born, app, defined>>

(* Handle{nullptr}, and the HANDLE raw_handle_{} of a fresh member.        *)
ConstructNull(w) ==
  /\ ~Built(w)
  /\ raw' = [raw EXCEPT ![w] = Null]
  /\ UNCHANGED <<title, table, born, app, defined>>

(* A copy instead of a move: what the deleted copy constructor prevents.   *)
MoveConstructKeepsSource(w, v) ==
  /\ ~Built(w)
  /\ Built(v)
  /\ raw' = [raw EXCEPT ![w] = raw[v]]
  /\ title' = [title EXCEPT ![w] = title[v]]
  /\ UNCHANGED <<table, born, app, defined>>

(* Handle(Handle&& other) takes the value and leaves nullptr behind.       *)
MoveConstruct(w, v) ==
  /\ ~Built(w)
  /\ Built(v)
  /\ raw' = [raw EXCEPT ![w] = raw[v], ![v] = Null]
  /\ title' = [title EXCEPT ![w] = title[v], ![v] = Nothing]
  /\ UNCHANGED <<table, born, app, defined>>

(* The old value closed only after it was overwritten: the close then hits *)
(* the value just taken over.                                              *)
MoveAssignClosesLate(w, v) ==
  /\ Built(w)
  /\ Built(v)
  /\ raw' = [raw EXCEPT ![w] = raw[v], ![v] = Null]
  /\ title' = [title EXCEPT ![w] = title[v], ![v] = Nothing]
  /\ CloseHandle(raw[v])
  /\ UNCHANGED <<born, app, defined>>

(* operator=(Handle&& rhs) overwrites the value without closing the one it *)
(* held, and on self-assignment ends with nullptr.                         *)
MoveAssign(w, v) ==
  /\ Built(w)
  /\ Built(v)
  /\ raw' = [raw EXCEPT ![w] = raw[v], ![v] = Null]
  /\ title' = [title EXCEPT ![w] = title[v], ![v] = Nothing]
  /\ UNCHANGED <<table, born, app, defined>>

(* The destructor without its CloseHandle. *)
DestroyWithoutClose(w) ==
  /\ Built(w)
  /\ raw' = [raw EXCEPT ![w] = Unbuilt]
  /\ title' = [title EXCEPT ![w] = Nothing]
  /\ UNCHANGED <<table, born, app, defined>>

(* ~Handle closes the value unless it is nullptr. *)
Destroy(w) ==
  /\ Built(w)
  /\ raw' = [raw EXCEPT ![w] = Unbuilt]
  /\ title' = [title EXCEPT ![w] = Nothing]
  /\ IF raw[w] # Null THEN CloseHandle(raw[w]) ELSE UNCHANGED table
  /\ UNCHANGED <<born, app, defined>>

(* into_raw that forgets to clear raw_handle_. *)
IntoRawKeepsValue(w) ==
  /\ Built(w)
  /\ app' = app \cup (IF raw[w] = Null THEN {} ELSE {<<raw[w], title[w]>>})
  /\ UNCHANGED <<raw, title, table, born, defined>>

(* into_raw returns HANDLE&& to its own local variable.  The caller reads  *)
(* a dead stack slot: it finds the value as long as the slot has not been  *)
(* reused, and any value, nullptr included, when it has.                   *)
IntoRaw(w) ==
  /\ Built(w)
  /\ raw' = [raw EXCEPT ![w] = Null]
  /\ title' = [title EXCEPT ![w] = Nothing]
  /\ \/ /\ app' = app \cup (IF raw[w] = Null THEN {} ELSE {<<raw[w], title[w]>>})
        /\ UNCHANGED defined
     \/ \E garbage \in (Raw \cup {Null}) \ {raw[w]} :
          /\ app' = app \cup {<<garbage, title[w]>>}
          /\ defined' = FALSE
  /\ UNCHANGED <<table, born>>

(* The application closes a raw handle it owns. *)
CloseRaw(h, o) ==
  /\ <<h, o>> \in app
  /\ app' = app \ {<<h, o>>}
  /\ CloseHandle(h)
  /\ UNCHANGED <<raw, title, born, defined>>

-----------------------------------------------------------------------------

Next ==
  \/ \E h \in Raw, o \in Object : Open(h, o)
  \/ \E w \in Wrapper, h \in Raw \cup {Null}, o \in Object \cup {Nothing} :
       Construct(w, h, o)
  \/ \E w \in Wrapper : ConstructNull(w)
  \/ \E w, v \in Wrapper : MoveConstruct(w, v)
  \/ \E w, v \in Wrapper : MoveAssign(w, v)
  \/ \E w \in Wrapper : Destroy(w)
  \/ \E w \in Wrapper : IntoRaw(w)
  \/ \E h \in Raw \cup {Null}, o \in Object \cup {Nothing} : CloseRaw(h, o)

Spec == Init /\ [][Next]_vars

-----------------------------------------------------------------------------
(* Properties.  They are about the time before the first dangling read:    *)
(* afterwards the language promises nothing.                               *)

TypeOK ==
  /\ raw \in [Wrapper -> Raw \cup {Null, Unbuilt}]
  /\ title \in [Wrapper -> Object \cup {Nothing}]
  /\ table \in [Raw -> Object \cup {Nothing}]
  /\ born \subseteq Object
  /\ app \subseteq (Raw \cup {Null}) \X (Object \cup {Nothing})
  /\ defined \in BOOLEAN

(* Every value a wrapper or the application holds still denotes the object *)
(* it was acquired for: no close, by whatever sequence of moves, came too  *)
(* early, and no value was closed twice and reused in between.             *)
OwnershipSound ==
  defined =>
    /\ \A w \in Wrapper : raw[w] \in Raw =>
         title[w] # Nothing /\ table[raw[w]] = title[w]
    /\ \A a \in app : a[1] \in Raw /\ table[a[1]] = a[2]

(* Unique ownership, the comparison with unique_ptr: no object is to be    *)
(* closed by two owners, and no raw value sits in two wrappers, across     *)
(* constructions, moves, self-moves and hand-overs to and from raw code.   *)
SingleOwner ==
  defined =>
    /\ \A o \in Object : \A x, y \in Owners(o) : x = y
    /\ \A w, v \in Wrapper : raw[w] = raw[v] /\ raw[w] \in Raw => w = v

(* An open object disappears only in a step in which its one owner gives   *)
(* it up: no step of one wrapper closes what another owner holds, and an   *)
(* object nobody owns is never closed by accident.                         *)
ClosedByItsOwner ==
  [][defined' => \A o \in Object :
       IsOpen(o) /\ ~IsOpen(o)' => Owned(o) /\ ~Owned(o)']_vars

(* An object loses its last owner while it is open only when a wrapper     *)
(* that held it stays alive, overwritten: the one leak of operator=.       *)
(* Destructors, move constructors and into_raw never drop an open object.  *)
LeakOnlyByOverwrite ==
  [][defined' => \A o \in Object :
       Orphan(o)' /\ ~Orphan(o) =>
         \E w \in Wrapper : title[w] = o /\ Built(w)']_vars

(* A leak is final: an open object without an owner is never owned again   *)
(* and never closed, although its value stays in the kernel's table and    *)
(* wrappers go on to hold, hand over and close the values of others.       *)
LeakedForGood ==
  [][defined' => \A o \in Object : Orphan(o) => Orphan(o)']_vars

(* What unique_ptr promises and the class does not keep: no open object is *)
(* ever without an owner.  Refuted by move assignment onto a live wrapper. *)
NoLeak == defined => \A o \in Object : ~Orphan(o)

(* What into_raw's description promises: the raw handle it returns is the  *)
(* new owner's, to clean up.  Refuted by the reference to a dead local.    *)
AppHoldsLiveHandles == \A a \in app : a[1] \in Raw /\ table[a[1]] = a[2]

(* The class as an abstract resource owner: see UniqueResource.            *)
Resources == INSTANCE UniqueResource WITH
  Holder <- Wrapper \cup {App},
  Resource <- Object,
  owners <- [o \in Object |-> Owners(o)],
  live <- {o \in Object : IsOpen(o)},
  used <- born,
  defined <- defined
ImplementsUniqueResource == Resources!Spec
=============================================================================
