---------------------------- MODULE CompletionPort ----------------------------
(***************************************************************************)
(* Class laio::iocp::CompletionPort and the part of the kernel it drives:  *)
(* ports with their queues of completion packets, files associated with a  *)
(* port, operations that complete into the port of their file, threads     *)
(* blocked in get and get_many.                                            *)
(*                                                                         *)
(* An item is what a packet is about: an overlapped operation on a file,   *)
(* or a status the application posts itself.  An item goes round: idle,    *)
(* then flying (an operation under way), then landed (its packet is in a   *)
(* queue), then idle again once a caller has its status.  It is dropped    *)
(* when get took its packet and returned only an error, and stranded when  *)
(* nobody can take it any more because its port was closed.                *)
(***************************************************************************)
EXTENDS Integers, Sequences, FiniteSets

CONSTANTS
  Thread,
  Cp,          \* storage for C++ objects of class CompletionPort
  Port,        \* kernel completion ports
  File,        \* sockets and files, as_raw_socket of the type given to add_socket
  Op,          \* OVERLAPPED structures given to an operation on a file
  Msg,         \* statuses the application posts
  FileOf,      \* the file each operation is issued on
  Token,
  Timeout,     \* timeouts callers use, in milliseconds
  Size,        \* sizes of the spans given to get_many
  DwordLimit,  \* 2^32: a DWORD holds 0 .. DwordLimit - 1
  Nullopt,     \* std::nullopt as a timeout
  Null,        \* nullptr in a wrapper
  Unbuilt,     \* storage without a constructed object
  Idle,        \* a thread outside get and get_many
  None         \* a file that is not associated

Item == Op \cup Msg

ASSUME Constants ==
  /\ FileOf \in [Op -> File]
  /\ Op \cap Msg = {}
  /\ DwordLimit \in Nat \ {0, 1}
  /\ Size \subseteq Nat
  /\ Timeout \subseteq Int \cup {Nullopt}
  /\ Null \notin Port
  /\ Unbuilt \notin Port
  /\ Null # Unbuilt

VARIABLES
  handle,   \* handle_ of every wrapper
  state,    \* whether each port was created, and closed
  queue,    \* packets of each port, oldest first
  assoc,    \* port and token each file was associated with
  item,     \* where each item is
  call      \* what each thread waits for

vars == <<handle, state, queue, assoc, item, call>>

Packet == [item : Item, token : Token, ok : BOOLEAN]

Dword == 0 .. DwordLimit - 1
INFINITE == DwordLimit - 1

(* The clamp done in the 64-bit type it was meant for, and no cast. *)
ToDwordUnbounded(n) == n

(* static_cast<DWORD>: the clamp against SIZE_MAX that follows it is cast  *)
(* to DWORD as well and changes nothing.                                   *)
ToDword(n) == n % DwordLimit

(* The two arms of the conditional exchanged. *)
DurationSwapped(timeout) == IF timeout = Nullopt THEN 0 ELSE INFINITE

(* duration in get and get_many. *)
Duration(timeout) == IF timeout = Nullopt THEN INFINITE ELSE ToDword(timeout)

Built(c) == handle[c] # Unbuilt
Waiting(t) == call[t] # Idle
OpenPort == {p \in Port : state[p] = "open"}
Elements(s) == {s[i] : i \in 1 .. Len(s)}
ItemsIn(p) == {packet.item : packet \in Elements(queue[p])}

Init ==
  /\ handle = [c \in Cp |-> Unbuilt]
  /\ state = [p \in Port |-> "unused"]
  /\ queue = [p \in Port |-> <<>>]
  /\ assoc = [f \in File |-> None]
  /\ item = [x \in Item |-> "idle"]
  /\ call = [t \in Thread |-> Idle]

-----------------------------------------------------------------------------
(* The wrapper. *)

(* create: a new port, or an error and no object. *)
Create(c, p) ==
  /\ ~Built(c)
  /\ state[p] = "unused"
  /\ handle' = [handle EXCEPT ![c] = p]
  /\ state' = [state EXCEPT ![p] = "open"]
  /\ UNCHANGED <<queue, assoc, item, call>>

MoveConstruct(c, d) ==
  /\ ~Built(c)
  /\ Built(d)
  /\ handle' = [handle EXCEPT ![c] = handle[d], ![d] = Null]
  /\ UNCHANGED <<state, queue, assoc, item, call>>

(* The port c held stays open, with its queue and its waiting threads. *)
MoveAssign(c, d) ==
  /\ Built(c)
  /\ Built(d)
  /\ handle' = [handle EXCEPT ![c] = handle[d], ![d] = Null]
  /\ UNCHANGED <<state, queue, assoc, item, call>>

(* A destructor that forgets to close. *)
DestroyWithoutClose(c) ==
  /\ Built(c)
  /\ handle' = [handle EXCEPT ![c] = Unbuilt]
  /\ UNCHANGED <<state, queue, assoc, item, call>>

(* The destructor closes the port, and the kernel discards its packets.    *)
Destroy(c) ==
  /\ Built(c)
  /\ handle' = [handle EXCEPT ![c] = Unbuilt]
  /\ IF handle[c] = Null
       THEN UNCHANGED <<state, queue, item>>
       ELSE /\ state' = [state EXCEPT ![handle[c]] = "closed"]
            /\ queue' = [queue EXCEPT ![handle[c]] = <<>>]
            /\ item' = [x \in Item |-> IF x \in ItemsIn(handle[c])
                                         THEN "stranded" ELSE item[x]]
  /\ UNCHANGED <<assoc, call>>

-----------------------------------------------------------------------------
(* Association: add_, behind add_socket and add_handle.                    *)

(* With a port in handle_, the kernel associates a file once and for all.  *)
(* With nullptr there, which a moved-from wrapper has, the same call makes *)
(* a new port for the file; add_ drops its handle and reports success.     *)
Add(c, f, token) ==
  /\ Built(c)
  /\ assoc[f] = None
  /\ \/ /\ handle[c] # Null
        /\ assoc' = [assoc EXCEPT ![f] = [port |-> handle[c], token |-> token]]
        /\ UNCHANGED state
     \/ /\ handle[c] = Null
        /\ \E p \in Port :
             /\ state[p] = "unused"
             /\ state' = [state EXCEPT ![p] = "open"]
             /\ assoc' = [assoc EXCEPT ![f] = [port |-> p, token |-> token]]
  /\ UNCHANGED <<handle, queue, item, call>>

-----------------------------------------------------------------------------
(* Packets. *)

(* An overlapped operation is issued on its file. *)
StartIo(x) ==
  /\ item[x] = "idle"
  /\ item' = [item EXCEPT ![x] = "flying"]
  /\ UNCHANGED <<handle, state, queue, assoc, call>>

Enqueue(p, x, token, ok) ==
  queue' = [queue EXCEPT ![p] =
              Append(@, [item |-> x, token |-> token, ok |-> ok])]

(* The operation completes, well or not.  The port its file is associated  *)
(* with by then, if any, receives the packet; a closed port receives none. *)
Land(x, ok) ==
  /\ item[x] = "flying"
  /\ LET a == assoc[FileOf[x]] IN
       \/ /\ a = None
          /\ item' = [item EXCEPT ![x] = "idle"]
          /\ UNCHANGED queue
       \/ /\ a # None
          /\ a.port \in OpenPort
          /\ item' = [item EXCEPT ![x] = "landed"]
          /\ Enqueue(a.port, x, a.token, ok)
       \/ /\ a # None
          /\ a.port \notin OpenPort
          /\ item' = [item EXCEPT ![x] = "stranded"]
          /\ UNCHANGED queue
  /\ UNCHANGED <<handle, state, assoc, call>>

(* post that sends again a status that is already queued. *)
PostTwice(c, x, token) ==
  /\ Built(c)
  /\ handle[c] # Null
  /\ item[x] \in {"idle", "landed"}
  /\ Enqueue(handle[c], x, token, TRUE)
  /\ item' = [item EXCEPT ![x] = "landed"]
  /\ UNCHANGED <<handle, state, assoc, call>>

(* post, when it succeeds. *)
Post(c, x, token) ==
  /\ Built(c)
  /\ handle[c] # Null
  /\ item[x] = "idle"
  /\ Enqueue(handle[c], x, token, TRUE)
  /\ item' = [item EXCEPT ![x] = "landed"]
  /\ UNCHANGED <<handle, state, assoc, call>>

-----------------------------------------------------------------------------
(* get and get_many: one step that reads handle_ and blocks in the kernel, *)
(* one step that returns.                                                  *)

Begin(t, c, fn, timeout, room) ==
  /\ ~Waiting(t)
  /\ Built(c)
  /\ call' = [call EXCEPT ![t] =
                [fn |-> fn, port |-> handle[c], timeout |-> timeout, room |-> room]]
  /\ UNCHANGED <<handle, state, queue, assoc, item>>

Return(t) == call' = [call EXCEPT ![t] = Idle]

(* A wait on no port, on a port closed before or during the wait, or into  *)
(* an empty buffer: the kernel refuses it.                                 *)
Refused(t) == call[t].port \notin OpenPort \/ call[t].room = 0

Refuse(t) ==
  /\ Waiting(t)
  /\ Refused(t)
  /\ Return(t)
  /\ UNCHANGED <<handle, state, queue, assoc, item>>

(* GetQueuedCompletionStatus takes the oldest packet.  For the packet of a *)
(* failed operation it returns FALSE with token and overlapped set; get    *)
(* looks at the return value only, and returns an error without them.      *)
TakeOne(t) ==
  /\ Waiting(t)
  /\ call[t].fn = "get"
  /\ ~Refused(t)
  /\ queue[call[t].port] # <<>>
  /\ LET packet == Head(queue[call[t].port]) IN
       item' = [item EXCEPT ![packet.item] = IF packet.ok THEN "idle" ELSE "dropped"]
  /\ queue' = [queue EXCEPT ![call[t].port] = Tail(@)]
  /\ Return(t)
  /\ UNCHANGED <<handle, state, assoc>>

(* Everything queued is removed, the caller's list is filled up to its     *)
(* size.                                                                   *)
TakeAllReturnSome(t) ==
  /\ Waiting(t)
  /\ call[t].fn = "get_many"
  /\ ~Refused(t)
  /\ queue[call[t].port] # <<>>
  /\ LET q == queue[call[t].port]
         n == IF Len(q) < call[t].room THEN Len(q) ELSE call[t].room
         removed == {q[i].item : i \in 1 .. n} IN
       /\ queue' = [queue EXCEPT ![call[t].port] = <<>>]
       /\ item' = [x \in Item |-> IF x \in removed THEN "idle" ELSE item[x]]
  /\ Return(t)
  /\ UNCHANGED <<handle, state, assoc>>

(* A get_many that returns only with a full list. *)
TakeManyWhenFull(t) ==
  /\ Waiting(t)
  /\ call[t].fn = "get_many"
  /\ ~Refused(t)
  /\ LET q == queue[call[t].port]
         n == call[t].room
         removed == {q[i].item : i \in 1 .. n} IN
       /\ n <= Len(q)
       /\ queue' = [queue EXCEPT ![call[t].port] = SubSeq(q, n + 1, Len(q))]
       /\ item' = [x \in Item |-> IF x \in removed THEN "idle" ELSE item[x]]
  /\ Return(t)
  /\ UNCHANGED <<handle, state, assoc>>

(* GetQueuedCompletionStatusEx takes as many packets as the list holds, of *)
(* failed operations too, whose status is in their entry.                  *)
TakeMany(t) ==
  /\ Waiting(t)
  /\ call[t].fn = "get_many"
  /\ ~Refused(t)
  /\ queue[call[t].port] # <<>>
  /\ LET q == queue[call[t].port]
         n == IF Len(q) < call[t].room THEN Len(q) ELSE call[t].room
         removed == {q[i].item : i \in 1 .. n} IN
       /\ queue' = [queue EXCEPT ![call[t].port] = SubSeq(q, n + 1, Len(q))]
       /\ item' = [x \in Item |-> IF x \in removed THEN "idle" ELSE item[x]]
  /\ Return(t)
  /\ UNCHANGED <<handle, state, assoc>>

(* The duration passes.  A packet may arrive between the timer and the     *)
(* thread's return, so that the queue need not be empty.                   *)
Expire(t) ==
  /\ Waiting(t)
  /\ ~Refused(t)
  /\ Duration(call[t].timeout) # INFINITE
  /\ Return(t)
  /\ UNCHANGED <<handle, state, queue, assoc, item>>

-----------------------------------------------------------------------------

Next ==
  \/ \E c \in Cp, p \in Port : Create(c, p)
  \/ \E c, d \in Cp : MoveConstruct(c, d)
  \/ \E c, d \in Cp : MoveAssign(c, d)
  \/ \E c \in Cp : Destroy(c)
  \/ \E c \in Cp, f \in File, token \in Token : Add(c, f, token)
  \/ \E x \in Op : StartIo(x)
  \/ \E x \in Op, ok \in BOOLEAN : Land(x, ok)
  \/ \E c \in Cp, x \in Msg, token \in Token : Post(c, x, token)
  \/ \E t \in Thread, c \in Cp, timeout \in Timeout : Begin(t, c, "get", timeout, 1)
  \/ \E t \in Thread, c \in Cp, timeout \in Timeout, size \in Size :
       Begin(t, c, "get_many", timeout, ToDword(size))
  \/ \E t \in Thread : Refuse(t)
  \/ \E t \in Thread : TakeOne(t)
  \/ \E t \in Thread : TakeMany(t)
  \/ \E t \in Thread : Expire(t)

Spec == Init /\ [][Next]_vars

(* The kernel ends a wait whose time is up, whose port is gone or for      *)
(* which there is a packet.  Nothing is asked of the application.          *)
Fairness == \A t \in Thread : WF_vars(Refuse(t) \/ TakeOne(t) \/ TakeMany(t) \/ Expire(t))

FairSpec == Spec /\ Fairness

-----------------------------------------------------------------------------
(* Properties. *)

TypeOK ==
  /\ handle \in [Cp -> Port \cup {Null, Unbuilt}]
  /\ state \in [Port -> {"unused", "open", "closed"}]
  /\ queue \in [Port -> Seq(Packet)]
  /\ assoc \in [File -> [port : Port, token : Token] \cup {None}]
  /\ item \in [Item -> {"idle", "flying", "landed", "dropped", "stranded"}]
  /\ call \in [Thread -> [fn : {"get", "get_many"}, port : Port \cup {Null},
                          timeout : Timeout, room : Dword] \cup {Idle}]

(* An item has a packet exactly while its completion is neither reported   *)
(* nor lost, it has one, in one queue, and only open ports hold packets:   *)
(* over moves, closes and concurrent get and get_many no status is         *)
(* duplicated, and none is given out while the operation still runs.       *)
OnePacketEach ==
  /\ \A p \in Port : \A i, j \in 1 .. Len(queue[p]) :
       queue[p][i].item = queue[p][j].item => i = j
  /\ \A p, r \in Port : p # r => ItemsIn(p) \cap ItemsIn(r) = {}
  /\ \A x \in Item : item[x] = "landed" <=> \E p \in Port : x \in ItemsIn(p)
  /\ \A p \in Port : state[p] # "open" => queue[p] = <<>>

(* What the ownership of a port comes to: an open port is left without a   *)
(* wrapper, which nobody can then close, take from or post to, only where  *)
(* a move assignment overwrites a wrapper that lives on, and where add_    *)
(* is called on a wrapper that was moved from.  There the kernel makes a   *)
(* port of its own for the file, and add_ drops its handle and reports     *)
(* success; the comment that ret is this->handle_.raw() is wrong then.     *)
Orphan(p) == state[p] = "open" /\ \A c \in Cp : handle[c] # p
OverwritesHolder(p) == \E c \in Cp : handle[c] = p /\ handle'[c] # Unbuilt
AddsToNoPort(p) ==
  \E c \in Cp, f \in File, token \in Token :
    /\ handle[c] = Null
    /\ assoc[f] = None
    /\ assoc'[f] = [port |-> p, token |-> token]
OrphanOnlyByMove ==
  [][\A p \in Port : ~Orphan(p) /\ Orphan(p)' => OverwritesHolder(p) \/ AddsToNoPort(p)]_vars

(* get and get_many as a delivery service: see CompletionDelivery.  Where  *)
(* an item's mail is, and whether it failed, is read off the queues.       *)
Failed(x) == \E p \in Port : \E packet \in Elements(queue[p]) :
               packet.item = x /\ ~packet.ok
PhaseOf == [idle |-> "idle", flying |-> "owed", landed |-> "mailed",
            dropped |-> "gone", stranded |-> "gone"]
Phase(x) == IF item[x] = "landed" /\ Failed(x) THEN "failed" ELSE PhaseOf[item[x]]
BoxOf(x) == IF item[x] = "landed" /\ \E p \in Port : x \in ItemsIn(p)
              THEN CHOOSE p \in Port : x \in ItemsIn(p) ELSE None
Delivery == INSTANCE CompletionDelivery WITH
  Box <- Port, Nowhere <- None,
  phase <- [x \in Item |-> Phase(x)],
  box <- [x \in Item |-> BoxOf(x)],
  shut <- {p \in Port : state[p] = "closed"}
ImplementsDelivery == Delivery!Spec

(* A caller who gives a time gets an answer, by get's and get_many's       *)
(* description of the timeout.  Holds for the timeouts whose DWORD is not  *)
(* INFINITE; refuted by the others, of which -1 ms is the likely one.      *)
TimedGetReturns ==
  \A t \in Thread :
    (Waiting(t) /\ call[t].timeout # Nullopt) ~> ~Waiting(t)

(* Nobody sleeps beside a packet: a waiting caller returns, or others have *)
(* emptied the queue, however large the list it offered.                   *)
PacketEndsWait ==
  \A t \in Thread, p \in Port :
    (Waiting(t) /\ call[t].port = p /\ queue[p] # <<>>)
      ~> (~Waiting(t) \/ queue[p] = <<>>)

(* What get's description says, "Dequeue the next CompletionStatus": what  *)
(* it removes it returns.  Refuted by the packet of a failed operation.    *)
GetReturnsWhatItTakes == \A x \in Item : item[x] # "dropped"
=============================================================================
