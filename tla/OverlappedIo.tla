----------------------------- MODULE OverlappedIo -----------------------------
(***************************************************************************)
(* The reading and writing members of class laio::iocp::Handle, the        *)
(* OVERLAPPED structures of class Overlapped they are given, and the part  *)
(* of the kernel behind ReadFile, WriteFile and GetOverlappedResult.       *)
(*                                                                         *)
(* An overlapped call is made of two kernel calls.  The first starts the   *)
(* operation; the second looks at the OVERLAPPED and, if the operation is  *)
(* pending and the caller wants to wait, sleeps on the event of the        *)
(* OVERLAPPED or, for want of one, on the file itself.  Operations         *)
(* complete at any time.  Reading and writing differ in the direction of   *)
(* the data only.                                                          *)
(***************************************************************************)
EXTENDS Integers, FiniteSets

CONSTANTS
  Thread,
  File,        \* handles opened for overlapped I/O
  SyncFile,    \* handles opened without
  Ov,          \* OVERLAPPED structures
  Event,       \* auto-reset events
  EventsFor,   \* the hEvent values the application ever gives each OVERLAPPED
  Size,        \* sizes of the buffers
  DwordLimit,  \* 2^32: a DWORD holds 0 .. DwordLimit - 1
  NoEvent,     \* hEvent = nullptr, as after default construction
  Unused,      \* an OVERLAPPED no operation was started with
  Away         \* a thread that has made no call yet

Handle == File \cup SyncFile
Waitable == Event \cup Handle

ASSUME Constants ==
  /\ DwordLimit \in Nat \ {0}
  /\ Size \subseteq Nat
  /\ EventsFor \in [Ov -> SUBSET (Event \cup {NoEvent})]
  /\ Event \cap Handle = {}
  /\ File \cap SyncFile = {}
  /\ NoEvent \notin Event

Dword == 0 .. DwordLimit - 1

Answer == [kind : {"count"}, bytes : Dword] \cup [kind : {"nullopt", "error"}]
Io == [state : {"pending", "success", "failure"}, bytes : Dword, len : Dword,
       file : Handle, by : Thread]
Call == [pc : {"started", "asleep"}, op : Ov, wait : BOOLEAN]
          \cup [pc : {"returned"}, wait : BOOLEAN, answer : Answer]

(* A record field is compared with sentinels only through these.           *)
ASSUME Sentinels == Unused \notin Io /\ Away \notin Call

VARIABLES
  made,     \* events created
  hEvent,   \* the event in each OVERLAPPED
  signal,   \* whether each event or file is signalled
  io,       \* the operation last started with each OVERLAPPED
  call      \* what each thread's call is at, or what it returned

vars == <<made, hEvent, signal, io, call>>

(* The clamp done in the 64-bit type it was meant for, and no cast. *)
ToDwordUnbounded(n) == n

(* static_cast<DWORD>; the clamp around it changes nothing. *)
ToDword(n) == n % DwordLimit

Inside(t) == call[t] # Away /\ call[t].pc \in {"started", "asleep"}
InCall(o) == \E t \in Thread : Inside(t) /\ call[t].op = o
Pending(o) == io[o] # Unused /\ io[o].state = "pending"

(* What a completing operation signals, and a waiting call sleeps on. *)
SignalOf(o, f) == IF hEvent[o] = NoEvent THEN f ELSE hEvent[o]

Init ==
  /\ made = {}
  /\ hEvent = [o \in Ov |-> NoEvent]
  /\ signal = [x \in Waitable |-> FALSE]
  /\ io = [o \in Ov |-> Unused]
  /\ call = [t \in Thread |-> Away]

-----------------------------------------------------------------------------
(* The OVERLAPPED.  The application leaves it alone while it is in use.    *)

AtRest(o) == ~Pending(o) /\ ~InCall(o)

(* initialize_with_autoreset_event: an event nobody else has. *)
InitializeWithEvent(o, e) ==
  /\ AtRest(o)
  /\ e \in EventsFor[o] \ made
  /\ made' = made \cup {e}
  /\ hEvent' = [hEvent EXCEPT ![o] = e]
  /\ UNCHANGED <<signal, io, call>>

(* set_event, and copies of an Overlapped, which share its event. *)
SetEvent(o, e) ==
  /\ AtRest(o)
  /\ e \in EventsFor[o]
  /\ e \in made \cup {NoEvent}
  /\ hEvent' = [hEvent EXCEPT ![o] = e]
  /\ UNCHANGED <<made, signal, io, call>>

-----------------------------------------------------------------------------
(* The first kernel call. *)

Return(t, wait, answer) ==
  call' = [call EXCEPT ![t] = [pc |-> "returned", wait |-> wait, answer |-> answer]]

Count(n) == [kind |-> "count", bytes |-> n]
Error == [kind |-> "error"]

(* ReadFile fails with an error other than io_pending: nothing started. *)
Reject(t, o, wait) ==
  /\ ~Inside(t)
  /\ hEvent[o] \in EventsFor[o]
  /\ AtRest(o)
  /\ Return(t, wait, Error)
  /\ UNCHANGED <<made, hEvent, signal, io>>

(* The operation is under way, and what it will signal is reset.  One that *)
(* is done before ReadFile returns is one that completes before the second *)
(* kernel call: the code goes on in the same way.                          *)
Start(t, f, o, size, wait) ==
  /\ ~Inside(t)
  /\ hEvent[o] \in EventsFor[o]
  /\ io' = [io EXCEPT ![o] = [state |-> "pending", bytes |-> 0,
                              len |-> ToDword(size), file |-> f, by |-> t]]
  /\ signal' = [signal EXCEPT ![SignalOf(o, f)] = FALSE]
  /\ call' = [call EXCEPT ![t] = [pc |-> "started", op |-> o, wait |-> wait]]
  /\ UNCHANGED <<made, hEvent>>

Issue(t, f, o, size, wait) == AtRest(o) /\ Start(t, f, o, size, wait)

(* A handle opened without FILE_FLAG_OVERLAPPED completes in the call.     *)
IssueSync(t, f, o, size, wait) ==
  /\ ~Inside(t)
  /\ hEvent[o] \in EventsFor[o]
  /\ AtRest(o)
  /\ \E n \in 0 .. ToDword(size) :
       io' = [io EXCEPT ![o] = [state |-> "success", bytes |-> n,
                                len |-> ToDword(size), file |-> f, by |-> t]]
  /\ signal' = [signal EXCEPT ![SignalOf(o, f)] = TRUE]
  /\ call' = [call EXCEPT ![t] = [pc |-> "started", op |-> o, wait |-> wait]]
  /\ UNCHANGED <<made, hEvent>>

(* read and write, on the handles they are for. *)
Transfer(t, f, size) ==
  /\ ~Inside(t)
  /\ \/ \E n \in 0 .. ToDword(size) : Return(t, TRUE, Count(n))
     \/ Return(t, TRUE, Error)
  /\ signal' = [signal EXCEPT ![f] = TRUE]
  /\ UNCHANGED <<made, hEvent, io>>

-----------------------------------------------------------------------------
(* The device. *)

Complete(o, outcome, n) ==
  /\ Pending(o)
  /\ n <= io[o].len
  /\ outcome = "failure" => n = 0
  /\ io' = [io EXCEPT ![o] = [@ EXCEPT !.state = outcome, !.bytes = n]]
  /\ signal' = [signal EXCEPT ![SignalOf(o, io[o].file)] = TRUE]
  /\ UNCHANGED <<made, hEvent, call>>

-----------------------------------------------------------------------------
(* The second kernel call. *)

(* What GetOverlappedResult tells of an operation: its outcome, or, while  *)
(* it is pending, that it is incomplete.  A waiter the signal woke too     *)
(* early may also be told that it succeeded.                               *)
Told(o, awake) ==
  IF io[o].state = "success" THEN {[ok |-> TRUE, bytes |-> io[o].bytes]}
  ELSE IF io[o].state = "failure" THEN {[ok |-> FALSE, err |-> "other"]}
  ELSE {[ok |-> FALSE, err |-> "io_incomplete"]}
         \cup {[ok |-> TRUE, bytes |-> n] : n \in IF awake THEN {io[o].bytes} ELSE {}}

(* The condition on wait forgotten. *)
AnswerWithoutWait(told, wait) ==
  IF told.ok THEN Count(told.bytes)
  ELSE IF told.err = "io_incomplete" THEN [kind |-> "nullopt"] ELSE Error

(* What the helper makes of it. *)
AnswerTo(told, wait) ==
  IF told.ok THEN Count(told.bytes)
  ELSE IF told.err = "io_incomplete" /\ ~wait THEN [kind |-> "nullopt"] ELSE Error

Finish(t, awake) ==
  \E told \in Told(call[t].op, awake) :
    Return(t, call[t].wait, AnswerTo(told, call[t].wait))

(* GetOverlappedResult not told that the caller wants to wait. *)
LookAtOnce(t) ==
  /\ Inside(t)
  /\ call[t].pc = "started"
  /\ Finish(t, FALSE)
  /\ UNCHANGED <<made, hEvent, signal, io>>

(* Nothing to wait for, or no wish to wait. *)
Look(t) ==
  /\ Inside(t)
  /\ call[t].pc = "started"
  /\ ~Pending(call[t].op) \/ ~call[t].wait
  /\ Finish(t, FALSE)
  /\ UNCHANGED <<made, hEvent, signal, io>>

(* The event reset before the wait, without another look. *)
SleepAfterReset(t) ==
  /\ Inside(t)
  /\ call[t].pc = "started"
  /\ call[t].wait
  /\ signal' = [signal EXCEPT ![SignalOf(call[t].op, io[call[t].op].file)] = FALSE]
  /\ call' = [call EXCEPT ![t] = [@ EXCEPT !.pc = "asleep"]]
  /\ UNCHANGED <<made, hEvent, io>>

Sleep(t) ==
  /\ Inside(t)
  /\ call[t].pc = "started"
  /\ Pending(call[t].op)
  /\ call[t].wait
  /\ call' = [call EXCEPT ![t] = [@ EXCEPT !.pc = "asleep"]]
  /\ UNCHANGED <<made, hEvent, signal, io>>

(* A wait on the file where the OVERLAPPED has an event. *)
WakeByFile(t) ==
  /\ Inside(t)
  /\ call[t].pc = "asleep"
  /\ signal[io[call[t].op].file]
  /\ Finish(t, TRUE)
  /\ UNCHANGED <<made, hEvent, signal, io>>

(* One sleeper takes the signal of an event; a file's stays. *)
Wake(t) ==
  /\ Inside(t)
  /\ call[t].pc = "asleep"
  /\ LET o == call[t].op
         x == SignalOf(o, io[o].file) IN
       /\ signal[x]
       /\ signal' = IF x \in Event THEN [signal EXCEPT ![x] = FALSE] ELSE signal
  /\ Finish(t, TRUE)
  /\ UNCHANGED <<made, hEvent, io>>

-----------------------------------------------------------------------------

Next ==
  \/ \E o \in Ov, e \in Event : InitializeWithEvent(o, e)
  \/ \E o \in Ov, e \in Event \cup {NoEvent} : SetEvent(o, e)
  \/ \E t \in Thread, o \in Ov, wait \in BOOLEAN : Reject(t, o, wait)
  \/ \E t \in Thread, f \in File, o \in Ov, size \in Size, wait \in BOOLEAN :
       Issue(t, f, o, size, wait)
  \/ \E t \in Thread, f \in SyncFile, o \in Ov, size \in Size, wait \in BOOLEAN :
       IssueSync(t, f, o, size, wait)
  \/ \E t \in Thread, f \in SyncFile, size \in Size : Transfer(t, f, size)
  \/ \E o \in Ov, outcome \in {"success", "failure"}, n \in Dword :
       Complete(o, outcome, n)
  \/ \E t \in Thread : Look(t)
  \/ \E t \in Thread : Sleep(t)
  \/ \E t \in Thread : Wake(t)

Spec == Init /\ [][Next]_vars

(* A thread inside a call goes on when it can.  Operations need not end.   *)
Fairness == \A t \in Thread : WF_vars(Look(t) \/ Sleep(t) \/ Wake(t))

FairSpec == Spec /\ Fairness

-----------------------------------------------------------------------------
(* Properties. *)

TypeOK ==
  /\ made \subseteq Event
  /\ hEvent \in [Ov -> Event \cup {NoEvent}]
  /\ signal \in [Waitable -> BOOLEAN]
  /\ io \in [Ov -> Io \cup {Unused}]
  /\ call \in [Thread -> Call \cup {Away}]

(* o has an event, and one the application gives to no other OVERLAPPED. *)
OwnEvent(o) ==
  hEvent[o] # NoEvent /\ \A p \in Ov \ {o} : hEvent[o] \notin EventsFor[p]

(* The answer that tells how an operation stands. *)
Outcome(o) ==
  IF io[o].state = "success" THEN Count(io[o].bytes)
  ELSE IF io[o].state = "failure" THEN Error ELSE [kind |-> "nullopt"]

(* read_overlapped_wait's and read_overlapped's descriptions: a call that  *)
(* started an operation answers with the outcome of that operation, and    *)
(* does not wait for another; only a caller who would not wait hears       *)
(* nullopt, while it runs.  Holds for every OVERLAPPED with an event of    *)
(* its own, whatever others do and whatever completes in between.          *)
AnswersItsOwnIo ==
  [][\A t \in Thread :
       LET o == call[t].op IN
         Inside(t) /\ ~Inside(t)' /\ OwnEvent(o) =>
           /\ io[o].by = t
           /\ call'[t].answer = Outcome(o)
           /\ call[t].wait => ~Pending(o)]_vars

(* The same description, of any OVERLAPPED: "the function will wait for    *)
(* the read operation to complete".  Refuted where operations share an     *)
(* event or, without one, the signal of their file.                        *)
WaitsForItsIo ==
  [][\A t \in Thread :
       Inside(t) /\ ~Inside(t)' /\ call[t].wait => ~Pending(call[t].op)]_vars

(* The comment in read_overlapped_wait: it dereferences the optional it    *)
(* gets without a look, relying on the helper's condition on wait.  Holds  *)
(* even for a waiter that another operation's signal wakes too early.      *)
WaitNeverNullopt ==
  \A t \in Thread :
    (call[t] # Away /\ call[t].pc = "returned" /\ call[t].wait)
      => call[t].answer.kind # "nullopt"

(* No wake-up is lost between the look at the OVERLAPPED and the sleep: a  *)
(* sleeper with an event of its own, whose operation is complete, is about *)
(* to be woken.  A shared event may be reset by another operation, or its  *)
(* signal taken by another sleeper.                                        *)
NoLostWakeup ==
  \A t \in Thread :
    (Inside(t) /\ call[t].pc = "asleep" /\ ~Pending(call[t].op) /\ OwnEvent(call[t].op))
      => signal[SignalOf(call[t].op, io[call[t].op].file)]

(* A call whose operation is complete returns, when its OVERLAPPED has an  *)
(* event of its own.                                                       *)
CompletedWaitEnds ==
  \A t \in Thread, o \in Ov :
    (Inside(t) /\ call[t].op = o /\ ~Pending(o) /\ OwnEvent(o)) ~> ~Inside(t)
=============================================================================
