------------------------------ MODULE IocpSystem ------------------------------
(***************************************************************************)
(* A Handle and a CompletionPort at work together: the overlapped calls of *)
(* OverlappedIo on files that are associated with the ports of             *)
(* CompletionPort.  An operation is then reported twice: to its caller, by *)
(* the second kernel call, and by a packet that get or get_many takes.     *)
(* When it completes the kernel writes the OVERLAPPED and signals first,   *)
(* and queues the packet in a step of its own, so that the caller may have *)
(* its answer, and use the OVERLAPPED again, before there is a packet.     *)
(*                                                                         *)
(* Posted statuses, moved wrappers and synchronous handles are left to the *)
(* components.                                                             *)
(***************************************************************************)
EXTENDS Integers, Sequences, FiniteSets

CONSTANTS
  Thread, File, Ov, Event, EventsFor, Size, NoEvent, Unused, Away,  \* see OverlappedIo
  Cp, Port, Token, Timeout, ListSize, Nullopt, Null, Unbuilt,       \* see CompletionPort
  DwordLimit,
  Op,       \* calls of read_overlapped and its like, each made once
  FileOf,   \* the file each is made on
  OvOf,     \* the OVERLAPPED each is given
  None      \* no file association, no answer, no outcome, no operation

VARIABLES
  made, hEvent, signal, io, ioCall,               \* of OverlappedIo
  handle, state, queue, assoc, item, getCall,     \* of CompletionPort
  current,    \* the operation last started with each OVERLAPPED
  outcome,    \* how each operation ended
  answer,     \* what the call of each told its caller
  started,    \* operations that were started
  attached,   \* those that were started on an associated file
  reported    \* operations of which get or get_many returned the status

ioVars == <<made, hEvent, signal, io, ioCall>>
portVars == <<handle, state, queue, assoc, item, getCall>>
history == <<current, outcome, answer, started, attached, reported>>
vars == <<ioVars, portVars, history>>

Io == INSTANCE OverlappedIo WITH call <- ioCall, SyncFile <- {}
Iocp == INSTANCE CompletionPort WITH
  call <- getCall, Msg <- {}, Size <- ListSize, Idle <- Away

ASSUME SystemConstants ==
  /\ FileOf \in [Op -> File]
  /\ OvOf \in [Op -> Ov]
  /\ EventsFor \in [Ov -> SUBSET (Event \cup {NoEvent})]
  /\ Event \cap File = {}
  /\ DwordLimit \in Nat \ {0, 1}
  /\ Size \cup ListSize \subseteq Nat
  /\ Timeout \subseteq Int \cup {Nullopt}

ASSUME SystemSentinels ==
  /\ None \notin Op
  /\ NoEvent \notin Event
  /\ Unused \notin Io!Io
  /\ Away \notin Io!Call
  /\ Null \notin Port
  /\ Unbuilt \notin Port
  /\ Null # Unbuilt

Init ==
  /\ Io!Init
  /\ Iocp!Init
  /\ current = [o \in Ov |-> None]
  /\ outcome = [x \in Op |-> None]
  /\ answer = [x \in Op |-> None]
  /\ started = {}
  /\ attached = {}
  /\ reported = {}

Elsewhere(t) == ~Iocp!Waiting(t)
New(x) == x \notin started /\ answer[x] = None

-----------------------------------------------------------------------------
(* Calls on the handle. *)

Prepare(o, e) ==
  /\ \/ e \in Event /\ Io!InitializeWithEvent(o, e)
     \/ Io!SetEvent(o, e)
  /\ UNCHANGED <<portVars, history>>

(* ReadFile started nothing, and the code goes on as if it had: the second *)
(* kernel call tells of the operation before.                              *)
RejectGoesOn(t, x, wait) ==
  /\ Elsewhere(t)
  /\ New(x)
  /\ Io!Reject(t, OvOf[x], wait)
  /\ answer' = [answer EXCEPT ![x] =
                  IF io[OvOf[x]] = Unused THEN Io!Error ELSE Io!Outcome(OvOf[x])]
  /\ UNCHANGED <<portVars, current, outcome, started, attached, reported>>

(* ReadFile or WriteFile starts nothing. *)
Reject(t, x, wait) ==
  /\ Elsewhere(t)
  /\ New(x)
  /\ Io!Reject(t, OvOf[x], wait)
  /\ answer' = [answer EXCEPT ![x] = Io!Error]
  /\ UNCHANGED <<portVars, current, outcome, started, attached, reported>>

Issue(t, x, size, wait) ==
  /\ Elsewhere(t)
  /\ New(x)
  /\ Io!Issue(t, FileOf[x], OvOf[x], size, wait)
  /\ Iocp!StartIo(x)
  /\ current' = [current EXCEPT ![OvOf[x]] = x]
  /\ started' = started \cup {x}
  /\ attached' = IF assoc[FileOf[x]] = None THEN attached ELSE attached \cup {x}
  /\ UNCHANGED <<outcome, answer, reported>>

Sleep(t) ==
  /\ Io!Sleep(t)
  /\ UNCHANGED <<portVars, history>>

(* The second kernel call returns, and with it the member of Handle.       *)
Answer(t) ==
  /\ Io!Look(t) \/ Io!Wake(t)
  /\ answer' = [answer EXCEPT ![current[ioCall[t].op]] = ioCall'[t].answer]
  /\ UNCHANGED <<portVars, current, outcome, started, attached, reported>>

-----------------------------------------------------------------------------
(* The kernel. *)

Complete(o, ok, n) ==
  /\ Io!Complete(o, IF ok THEN "success" ELSE "failure", n)
  /\ outcome' = [outcome EXCEPT ![current[o]] = [ok |-> ok, bytes |-> n]]
  /\ UNCHANGED <<portVars, current, answer, started, attached, reported>>

(* The packet of an operation that has completed, if its file has a port.  *)
Queue(x) ==
  /\ outcome[x] # None
  /\ Iocp!Land(x, outcome[x].ok)
  /\ UNCHANGED <<ioVars, history>>

-----------------------------------------------------------------------------
(* Calls on the port. *)

Manage ==
  /\ \/ \E c \in Cp, p \in Port : Iocp!Create(c, p)
     \/ \E c \in Cp : Iocp!Destroy(c)
     \/ \E c \in Cp, f \in File, token \in Token : Iocp!Add(c, f, token)
  /\ UNCHANGED <<ioVars, history>>

Begin(t) ==
  /\ ~Io!Inside(t)
  /\ \E c \in Cp, timeout \in Timeout :
       \/ Iocp!Begin(t, c, "get", timeout, 1)
       \/ \E size \in ListSize : Iocp!Begin(t, c, "get_many", timeout, Iocp!ToDword(size))
  /\ UNCHANGED <<ioVars, history>>

GiveUp(t) ==
  /\ Iocp!Refuse(t) \/ Iocp!Expire(t)
  /\ UNCHANGED <<ioVars, history>>

(* get or get_many returns statuses: those whose items are idle again. *)
Take(t) ==
  /\ Iocp!TakeOne(t) \/ Iocp!TakeMany(t)
  /\ reported' = reported \cup {x \in Op : item[x] = "landed" /\ item'[x] = "idle"}
  /\ UNCHANGED <<ioVars, current, outcome, answer, started, attached>>

-----------------------------------------------------------------------------

Next ==
  \/ \E o \in Ov, e \in Event \cup {NoEvent} : Prepare(o, e)
  \/ \E t \in Thread, x \in Op, wait \in BOOLEAN : Reject(t, x, wait)
  \/ \E t \in Thread, x \in Op, size \in Size, wait \in BOOLEAN : Issue(t, x, size, wait)
  \/ \E t \in Thread : Sleep(t)
  \/ \E t \in Thread : Answer(t)
  \/ \E o \in Ov, ok \in BOOLEAN, n \in Io!Dword : Complete(o, ok, n)
  \/ \E x \in Op : Queue(x)
  \/ Manage
  \/ \E t \in Thread : Begin(t)
  \/ \E t \in Thread : GiveUp(t)
  \/ \E t \in Thread : Take(t)

Spec == Init /\ [][Next]_vars

-----------------------------------------------------------------------------
(* Properties. *)

TypeOK ==
  /\ Io!TypeOK
  /\ Iocp!TypeOK
  /\ current \in [Ov -> Op \cup {None}]
  /\ outcome \in [Op -> [ok : BOOLEAN, bytes : Io!Dword] \cup {None}]
  /\ answer \in [Op -> Io!Answer \cup {None}]
  /\ attached \subseteq started
  /\ started \cup reported \subseteq Op

(* The application never gives the event of o to another OVERLAPPED.       *)
Exclusive(o) ==
  NoEvent \notin EventsFor[o] /\ \A p \in Ov \ {o} : EventsFor[p] \cap EventsFor[o] = {}

(* The two reports of an operation agree, whichever comes first: a count   *)
(* told to the caller is that of the packet, an error means that the       *)
(* operation failed or was never started, and nothing is told before the   *)
(* end but nullopt.                                                        *)
ReportsAgree ==
  \A x \in Op : Exclusive(OvOf[x]) /\ answer[x] # None =>
    /\ answer[x].kind = "count" => outcome[x] = [ok |-> TRUE, bytes |-> answer[x].bytes]
    /\ answer[x].kind = "error" /\ x \in started =>
         outcome[x] = [ok |-> FALSE, bytes |-> 0]

(* A caller who was told a count, or nullopt, on an associated file can    *)
(* count on a packet: it is on its way, queued, or taken, if the port was  *)
(* not closed in between.  Not so the caller who was told an error, who    *)
(* cannot know whether there will be one.                                  *)
CountMeansPacket ==
  \A x \in Op :
    answer[x] # None /\ answer[x].kind # "error" =>
      /\ x \in started
      /\ x \in attached =>
           item[x] \in {"flying", "landed", "dropped", "stranded"} \/ x \in reported
=============================================================================
