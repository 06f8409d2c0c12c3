--------------------------- MODULE IocpSystem_proofs ---------------------------
(***************************************************************************)
(* Theorems about handles and ports at work together, for any number of    *)
(* threads, files, ports and operations: the invariants of the components, *)
(* and what an application may conclude from the two reports.              *)
(***************************************************************************)
EXTENDS IocpSystem, TLAPS

(* The components' theorems. *)
IoP == INSTANCE OverlappedIo_proofs WITH call <- ioCall, SyncFile <- {}
IocpP == INSTANCE CompletionPort_proofs WITH
  call <- getCall, Msg <- {}, Size <- ListSize, Idle <- Away

LEMMA IoConstants == IoP!Constants /\ IoP!Sentinels
  BY SystemConstants, SystemSentinels
  DEF IoP!Constants, IoP!Sentinels, IoP!Handle, IoP!Io, Io!Io, Io!Handle, IoP!Call, Io!Call,
      IoP!Dword, Io!Dword, IoP!Answer, Io!Answer

LEMMA IocpConstants == IocpP!Constants
  BY SystemConstants, SystemSentinels DEF IocpP!Constants

-----------------------------------------------------------------------------
(* Every behaviour is one of each component. *)

LEMMA IoTypes == Io!TypeOK <=> IoP!TypeOK
  BY DEF Io!TypeOK, IoP!TypeOK, Io!Waitable, IoP!Waitable, Io!Handle, IoP!Handle, Io!Io, IoP!Io,
         Io!Call, IoP!Call, Io!Dword, IoP!Dword, Io!Answer, IoP!Answer

LEMMA IocpTypes == Iocp!TypeOK <=> IocpP!TypeOK
  BY DEF Iocp!TypeOK, IocpP!TypeOK, Iocp!Packet, IocpP!Packet, Iocp!Item, IocpP!Item,
         Iocp!Dword, IocpP!Dword

LEMMA IoStates ==
  /\ \A t : Io!Inside(t) <=> IoP!Inside(t)
  /\ \A o : Io!Pending(o) <=> IoP!Pending(o)
  /\ \A o : Io!AtRest(o) <=> IoP!AtRest(o)
  /\ \A o : Io!Outcome(o) = IoP!Outcome(o)
  /\ Io!Error = IoP!Error
  /\ \A o, f : Io!SignalOf(o, f) = IoP!SignalOf(o, f)
  BY DEF Io!Inside, IoP!Inside, Io!Pending, IoP!Pending, Io!AtRest, IoP!AtRest, Io!InCall,
         IoP!InCall, Io!Outcome, IoP!Outcome, Io!Error, IoP!Error, Io!Count, IoP!Count,
         Io!SignalOf, IoP!SignalOf

LEMMA AnswerSteps ==
  ASSUME NEW t \in Thread, Answer(t) PROVE IoP!Look(t) \/ IoP!Wake(t)
  BY IoStates DEF Answer, Io!Look, IoP!Look, Io!Wake, IoP!Wake, Io!Finish, IoP!Finish,
     Io!Told, IoP!Told, Io!Return, IoP!Return, Io!AnswerTo, IoP!AnswerTo, Io!Count, IoP!Count,
     Io!Error, IoP!Error

(* What a step does to the calls on handles is a step of OverlappedIo.     *)
LEMMA IoSteps ==
  ASSUME [Next]_vars PROVE [IoP!Next]_(IoP!vars)
<1>1. ASSUME NEW o \in Ov, NEW e \in Event \cup {NoEvent}, Prepare(o, e) PROVE IoP!Next
  BY <1>1, IoStates DEF Prepare, Io!InitializeWithEvent, IoP!InitializeWithEvent, Io!SetEvent,
     IoP!SetEvent, IoP!Next
<1>2. ASSUME NEW t \in Thread, NEW x \in Op, NEW wait \in BOOLEAN, Reject(t, x, wait)
      PROVE  IoP!Next
  <2>1. OvOf[x] \in Ov
    BY SystemConstants
  <2>2. IoP!Reject(t, OvOf[x], wait)
    BY <1>2, IoStates DEF Reject, Io!Reject, IoP!Reject, Io!Return, IoP!Return
  <2> QED BY <2>1, <2>2 DEF IoP!Next
<1>3. ASSUME NEW t \in Thread, NEW x \in Op, NEW size \in Size, NEW wait \in BOOLEAN,
             Issue(t, x, size, wait)
      PROVE  IoP!Next
  <2>1. OvOf[x] \in Ov /\ FileOf[x] \in File
    BY SystemConstants
  <2>2. IoP!Issue(t, FileOf[x], OvOf[x], size, wait)
    BY <1>3, IoStates DEF Issue, Io!Issue, IoP!Issue, Io!Start, IoP!Start, Io!ToDword, IoP!ToDword
  <2> QED BY <2>1, <2>2 DEF IoP!Next
<1>4. ASSUME NEW t \in Thread, Sleep(t) PROVE IoP!Next
  BY <1>4, IoStates DEF Sleep, Io!Sleep, IoP!Sleep, IoP!Next
<1>5. ASSUME NEW t \in Thread, Answer(t) PROVE IoP!Next
  BY <1>5, AnswerSteps DEF IoP!Next
<1>6. ASSUME NEW o \in Ov, NEW ok \in BOOLEAN, NEW n \in Io!Dword, Complete(o, ok, n)
      PROVE  IoP!Next
  <2> DEFINE end == IF ok THEN "success" ELSE "failure"
  <2>1. IoP!Complete(o, end, n)
    BY <1>6, IoStates DEF Complete, Io!Complete, IoP!Complete
  <2>2. n \in IoP!Dword /\ end \in {"success", "failure"}
    BY DEF Io!Dword, IoP!Dword
  <2> HIDE DEF end
  <2> QED BY <2>1, <2>2 DEF IoP!Next
<1>7. CASE UNCHANGED ioVars
  BY <1>7 DEF ioVars, IoP!vars
<1>8. ASSUME \/ \E x \in Op : Queue(x)
             \/ Manage
             \/ \E t \in Thread : Begin(t) \/ GiveUp(t) \/ Take(t)
             \/ UNCHANGED vars
      PROVE  UNCHANGED ioVars
  BY <1>8 DEF Queue, Manage, Begin, GiveUp, Take, vars
<1> QED
  BY <1>1, <1>2, <1>3, <1>4, <1>5, <1>6, <1>7, <1>8, Zenon DEF Next, IoP!Next

LEMMA PortStates ==
  /\ \A t : Iocp!Waiting(t) <=> IocpP!Waiting(t)
  /\ \A c : Iocp!Built(c) <=> IocpP!Built(c)
  /\ Iocp!OpenPort = IocpP!OpenPort
  /\ \A t : Iocp!Refused(t) <=> IocpP!Refused(t)
  /\ \A s : Iocp!Elements(s) = IocpP!Elements(s)
  /\ \A p : Iocp!ItemsIn(p) = IocpP!ItemsIn(p)
  /\ \A n : Iocp!ToDword(n) = IocpP!ToDword(n)
  /\ Iocp!INFINITE = IocpP!INFINITE
  /\ \A n : Iocp!Duration(n) = IocpP!Duration(n)
  BY DEF Iocp!Waiting, IocpP!Waiting, Iocp!Built, IocpP!Built, Iocp!OpenPort, IocpP!OpenPort,
         Iocp!Refused, IocpP!Refused, Iocp!Elements, IocpP!Elements, Iocp!ItemsIn,
         IocpP!ItemsIn, Iocp!ToDword, IocpP!ToDword, Iocp!Duration, IocpP!Duration,
         Iocp!INFINITE, IocpP!INFINITE

(* The steps of the port that a step of the system is, if any.             *)
LEMMA ManageSteps ==
  ASSUME Manage
  PROVE  \/ \E c \in Cp, p \in Port : IocpP!Create(c, p)
         \/ \E c \in Cp : IocpP!Destroy(c)
         \/ \E c \in Cp, f \in File, token \in Token : IocpP!Add(c, f, token)
  BY PortStates DEF Manage, Iocp!Create, IocpP!Create, Iocp!Destroy, IocpP!Destroy, Iocp!Add,
     IocpP!Add, Iocp!Item, IocpP!Item

LEMMA QueueStep ==
  ASSUME NEW x \in Op, Queue(x) PROVE IocpP!Land(x, outcome[x].ok)
  BY PortStates DEF Queue, Iocp!Land, IocpP!Land, Iocp!Enqueue, IocpP!Enqueue

LEMMA TakeSteps ==
  ASSUME NEW t \in Thread, Take(t) PROVE IocpP!TakeOne(t) \/ IocpP!TakeMany(t)
  BY PortStates DEF Take, Iocp!TakeOne, IocpP!TakeOne, Iocp!TakeMany, IocpP!TakeMany,
     Iocp!Return, IocpP!Return, Iocp!Item, IocpP!Item

LEMMA CallerSteps ==
  ASSUME NEW t \in Thread, Begin(t) \/ GiveUp(t)
  PROVE  /\ \/ \E c \in Cp, timeout \in Timeout : IocpP!Begin(t, c, "get", timeout, 1)
            \/ \E c \in Cp, timeout \in Timeout, size \in ListSize :
                 IocpP!Begin(t, c, "get_many", timeout, IocpP!ToDword(size))
            \/ IocpP!Refuse(t)
            \/ IocpP!Expire(t)
         /\ UNCHANGED <<handle, state, queue, assoc, item>>
  BY PortStates DEF Begin, GiveUp, Iocp!Begin, IocpP!Begin, Iocp!Refuse, IocpP!Refuse,
     Iocp!Expire, IocpP!Expire, Iocp!Return, IocpP!Return

(* What a step does to the ports is a step of CompletionPort. *)
LEMMA PortSteps ==
  ASSUME [Next]_vars,
         \A x \in Op : outcome[x] # None => outcome[x].ok \in BOOLEAN
  PROVE  [IocpP!Next]_(IocpP!vars)
<1>1. CASE Manage
  BY <1>1, ManageSteps DEF IocpP!Next
<1>2. ASSUME NEW x \in Op, Queue(x) PROVE IocpP!Next
  <2>1. outcome[x].ok \in BOOLEAN
    BY <1>2 DEF Queue
  <2> QED BY <2>1, <1>2, QueueStep DEF IocpP!Next
<1>3. ASSUME NEW t \in Thread, Take(t) PROVE IocpP!Next
  BY <1>3, TakeSteps DEF IocpP!Next
<1>4. ASSUME NEW t \in Thread, Begin(t) \/ GiveUp(t) PROVE IocpP!Next
  BY <1>4, CallerSteps DEF IocpP!Next
<1>5. ASSUME NEW t \in Thread, NEW x \in Op, NEW size \in Size, NEW wait \in BOOLEAN,
             Issue(t, x, size, wait)
      PROVE  IocpP!Next
  BY <1>5 DEF Issue, Iocp!StartIo, IocpP!StartIo, IocpP!Next
<1>6. CASE UNCHANGED portVars
  BY <1>6 DEF portVars, IocpP!vars
<1>7. ASSUME \/ \E o \in Ov, e \in Event \cup {NoEvent} : Prepare(o, e)
             \/ \E t \in Thread, x \in Op, wait \in BOOLEAN : Reject(t, x, wait)
             \/ \E t \in Thread : Sleep(t) \/ Answer(t)
             \/ \E o \in Ov, ok \in BOOLEAN, n \in Io!Dword : Complete(o, ok, n)
             \/ UNCHANGED vars
      PROVE  UNCHANGED portVars
  BY <1>7 DEF Prepare, Reject, Sleep, Answer, Complete, vars
<1> QED
  BY <1>1, <1>2, <1>3, <1>4, <1>5, <1>6, <1>7, Zenon DEF Next

-----------------------------------------------------------------------------
(* The invariants of the components hold in the system. *)

CallInv == IoP!Inv /\ IoP!EventAwaits /\ IoP!CallerHasEvent

LEMMA CallsHold == Spec => []CallInv
<1>1. Init => IoP!Init
  BY DEF Init, Io!Init, IoP!Init, Io!Waitable, IoP!Waitable, Io!Handle, IoP!Handle
<1>2. Init => IoP!EventAwaits /\ IoP!CallerHasEvent
  BY <1>1 DEF IoP!Init, IoP!EventAwaits, IoP!Awaits, IoP!CallerHasEvent, IoP!Pending, IoP!Inside
<1>3. Init => CallInv
  BY <1>1, <1>2, IoP!InvInit, IoConstants DEF CallInv
<1>4. CallInv /\ [Next]_vars => CallInv'
  BY IoSteps, IoConstants, IoP!TypeStep, IoP!CallerStep, IoP!EventStep, IoP!CallerEventStep
     DEF CallInv, IoP!Inv
<1> QED BY <1>3, <1>4, PTL DEF Spec

HistoryTypes ==
  /\ current \in [Ov -> Op \cup {None}]
  /\ outcome \in [Op -> [ok : BOOLEAN, bytes : Io!Dword] \cup {None}]
  /\ answer \in [Op -> Io!Answer \cup {None}]
  /\ attached \subseteq started
  /\ started \cup reported \subseteq Op

(* A call that ends answers, and leaves the operations alone. *)
LEMMA AnswerEffect ==
  ASSUME CallInv, NEW t \in Thread, Answer(t)
  PROVE  /\ ioCall[t].op \in Ov
         /\ io[ioCall[t].op] # Unused
         /\ IoP!Inside(t) /\ ~IoP!Inside(t)'
         /\ ioCall'[t].answer \in Io!Answer
         /\ io' = io /\ hEvent' = hEvent
<1>1. IoP!TypeOK /\ IoP!CallerStarted
  BY DEF CallInv, IoP!Inv
<1>2. /\ IoP!Inside(t) /\ ~IoP!Inside(t)'
      /\ UNCHANGED <<made, hEvent, io>>
  BY <1>1, AnswerSteps, IoConstants, IoP!EndStep
<1>3. ioCall[t].op \in Ov /\ ioCall[t].wait \in BOOLEAN /\ io[ioCall[t].op] # Unused
  BY <1>1, <1>2 DEF IoP!CallerStarted, IoP!CallerOf
<1>4. PICK awake \in BOOLEAN : IoP!Finish(t, awake)
  BY AnswerSteps DEF IoP!Look, IoP!Wake
<1>5. PICK told \in IoP!Answer : IoP!Return(t, ioCall[t].wait, told)
  BY <1>1, <1>2, <1>4, IoConstants, IoP!FinishStep
<1>6. ioCall'[t] = [pc |-> "returned", wait |-> ioCall[t].wait, answer |-> told]
  BY <1>1, <1>3, <1>5, IoConstants, IoP!ReturnStep
<1>7. ioCall'[t].answer \in Io!Answer
  BY <1>6 DEF Io!Answer, IoP!Answer, Io!Dword, IoP!Dword
<1> QED BY <1>2, <1>3, <1>7

LEMMA HistoryStep == CallInv /\ HistoryTypes /\ [Next]_vars => HistoryTypes'
<1> SUFFICES ASSUME CallInv, HistoryTypes, [Next]_vars PROVE HistoryTypes'
  OBVIOUS
<1>a. Io!Error \in Io!Answer
  BY DEF Io!Error, Io!Answer
<1>1. ASSUME NEW t \in Thread, NEW x \in Op, NEW wait \in BOOLEAN, Reject(t, x, wait)
      PROVE  HistoryTypes'
  <2>1. answer' \in [Op -> Io!Answer \cup {None}]
    BY <1>1, <1>a DEF Reject, HistoryTypes
  <2> QED BY <1>1, <2>1 DEF Reject, HistoryTypes
<1>2. ASSUME NEW t \in Thread, NEW x \in Op, NEW size \in Size, NEW wait \in BOOLEAN,
             Issue(t, x, size, wait)
      PROVE  HistoryTypes'
  <2>1. current' \in [Ov -> Op \cup {None}]
    BY <1>2 DEF Issue, HistoryTypes
  <2>2. started' \subseteq Op /\ attached' \subseteq started'
    BY <1>2 DEF Issue, HistoryTypes
  <2> QED BY <1>2, <2>1, <2>2 DEF Issue, HistoryTypes
<1>3. ASSUME NEW t \in Thread, Answer(t) PROVE HistoryTypes'
  <2>1. answer' \in [Op -> Io!Answer \cup {None}]
    BY <1>3, AnswerEffect DEF Answer, HistoryTypes
  <2> QED BY <1>3, <2>1 DEF Answer, HistoryTypes
<1>4. ASSUME NEW o \in Ov, NEW ok \in BOOLEAN, NEW n \in Io!Dword, Complete(o, ok, n)
      PROVE  HistoryTypes'
  <2>1. outcome' \in [Op -> [ok : BOOLEAN, bytes : Io!Dword] \cup {None}]
    BY <1>4 DEF Complete, HistoryTypes
  <2> QED BY <1>4, <2>1 DEF Complete, HistoryTypes
<1>5. ASSUME NEW t \in Thread, Take(t) PROVE HistoryTypes'
  BY <1>5 DEF Take, HistoryTypes
<1>6. CASE UNCHANGED history
  BY <1>6 DEF history, HistoryTypes
<1>7. ASSUME \/ \E o \in Ov, e \in Event \cup {NoEvent} : Prepare(o, e)
             \/ \E t \in Thread : Sleep(t) \/ Begin(t) \/ GiveUp(t)
             \/ \E x \in Op : Queue(x)
             \/ Manage
             \/ UNCHANGED vars
      PROVE  UNCHANGED history
  BY <1>7 DEF Prepare, Sleep, Begin, GiveUp, Queue, Manage, vars
<1> QED
  BY <1>1, <1>2, <1>3, <1>4, <1>5, <1>6, <1>7, Zenon DEF Next

LEMMA HistoryTyped == Spec => []HistoryTypes
<1>1. Init => HistoryTypes
  BY DEF Init, HistoryTypes
<1> QED BY <1>1, HistoryStep, CallsHold, PTL DEF Spec

LEMMA OutcomesTell == HistoryTypes => \A x \in Op : outcome[x] # None => outcome[x].ok \in BOOLEAN
  BY DEF HistoryTypes

(* Of the ports, every behaviour of the system is one of CompletionPort.   *)
LEMMA PortsAlone == Spec => IocpP!Spec
<1>1. Init => IocpP!Init
  BY DEF Init, Iocp!Init, IocpP!Init, Iocp!Item, IocpP!Item
<1>2. HistoryTypes /\ [Next]_vars => [IocpP!Next]_(IocpP!vars)
  BY OutcomesTell, PortSteps
<1> QED BY <1>1, <1>2, HistoryTyped, PTL DEF Spec, IocpP!Spec

(* Of the handles, one of OverlappedIo. *)
LEMMA CallsAlone == Spec => IoP!Spec
<1>1. Init => IoP!Init
  BY DEF Init, Io!Init, IoP!Init, Io!Waitable, IoP!Waitable, Io!Handle, IoP!Handle
<1>2. [Next]_vars => [IoP!Next]_(IoP!vars)
  BY IoSteps
<1> QED BY <1>1, <1>2, PTL DEF Spec, IoP!Spec

LEMMA PortsHold == Spec => []IocpP!Inv
<1>1. IocpP!Spec => []IocpP!Inv
  BY IocpConstants, IocpP!InvHolds
<1> QED BY <1>1, PortsAlone

(* What is proved of the ports alone holds of them in the system: its      *)
(* operations go through the delivery service, where each is reported once *)
(* or lost in one of the three named ways, its packets are unique, and a   *)
(* port is left without an owner in two ways only.                         *)
THEOREM SystemDelivers ==
  Spec => IocpP!ImplementsDelivery /\ []IocpP!OnePacketEach /\ IocpP!OrphanOnlyByMove
<1>1. IocpP!Spec => IocpP!ImplementsDelivery
  BY IocpConstants, IocpP!DeliveryImplemented
<1>2. IocpP!Spec => []IocpP!OnePacketEach
  BY IocpConstants, IocpP!PacketsAreUnique
<1>3. IocpP!Spec => IocpP!OrphanOnlyByMove
  BY IocpConstants, IocpP!PortsAreLostTwoWays
<1> QED BY <1>1, <1>2, <1>3, PortsAlone, PTL

(* And what is proved of the calls on handles: a waiting call is told      *)
(* a count, no wake-up is lost, and with an event of its own a call        *)
(* answers for its operation, also while packets arrive for it.            *)
THEOREM SystemAnswers ==
  Spec => [](IoP!WaitNeverNullopt /\ IoP!NoLostWakeup) /\ IoP!AnswersItsOwnIo
<1>1. IoP!Spec => []IoP!WaitNeverNullopt
  BY IoConstants, IoP!WaitsHaveACount
<1>2. IoP!Spec => []IoP!NoLostWakeup
  BY IoConstants, IoP!NoWakeupIsLost
<1>3. IoP!Spec => IoP!AnswersItsOwnIo
  BY IoConstants, IoP!OwnEventsAnswer
<1> QED BY <1>1, <1>2, <1>3, CallsAlone, PTL

(* Every variable of both components and of the histories has its type.    *)
THEOREM TypeCorrect == Spec => []TypeOK
<1>1. CallInv /\ HistoryTypes /\ IocpP!Inv => TypeOK
  BY IoTypes, IocpTypes DEF CallInv, IoP!Inv, IocpP!Inv, HistoryTypes, TypeOK
<1> QED BY <1>1, CallsHold, HistoryTyped, PortsHold, PTL

-----------------------------------------------------------------------------
(* The two reports. *)

(* An OVERLAPPED that was used is that of the operation last started with  *)
(* it.                                                                     *)
Linked ==
  \A o \in Ov :
    /\ io[o] # Unused <=> current[o] # None
    /\ current[o] # None => current[o] \in started /\ OvOf[current[o]] = o

(* What an OVERLAPPED tells of its operation is how it ended; until then   *)
(* its caller was told nothing, or nullopt.                                *)
Known(o) ==
  io[o] # Unused =>
    LET x == current[o] IN
      /\ io[o].state = "pending" =>
           /\ outcome[x] = None
           /\ Exclusive(o) /\ answer[x] # None => answer[x].kind = "nullopt"
      /\ io[o].state = "success" => outcome[x] = [ok |-> TRUE, bytes |-> io[o].bytes]
      /\ io[o].state = "failure" => outcome[x] = [ok |-> FALSE, bytes |-> 0] /\ io[o].bytes = 0

Unmade == \A x \in Op : x \notin started => outcome[x] = None

(* Only an error is told of an operation that was not started. *)
Heard == \A x \in Op : answer[x] # None /\ answer[x].kind # "error" => x \in started

Agree(x) ==
  Exclusive(OvOf[x]) /\ answer[x] # None =>
    /\ answer[x].kind = "count" => outcome[x] = [ok |-> TRUE, bytes |-> answer[x].bytes]
    /\ answer[x].kind = "error" /\ x \in started =>
         outcome[x] = [ok |-> FALSE, bytes |-> 0]

ReportInv ==
  /\ Linked
  /\ \A o \in Ov : Known(o)
  /\ Unmade
  /\ Heard
  /\ \A x \in Op : Agree(x)

LEMMA IoTyped == CallInv => io \in [Ov -> Io!Io \cup {Unused}]
  BY IoTypes DEF CallInv, IoP!Inv, Io!TypeOK

LEMMA CallsStay == CallInv /\ [Next]_vars => CallInv'
  BY IoSteps, IoConstants, IoP!TypeStep, IoP!CallerStep, IoP!EventStep, IoP!CallerEventStep
     DEF CallInv, IoP!Inv

LEMMA IssueReports ==
  ASSUME CallInv, CallInv', HistoryTypes, ReportInv,
         NEW t \in Thread, NEW x \in Op, NEW size \in Size, NEW wait \in BOOLEAN,
         Issue(t, x, size, wait)
  PROVE  ReportInv'
<1> DEFINE o == OvOf[x]
<1>0. o \in Ov
  BY SystemConstants
<1>1. /\ current' = [current EXCEPT ![o] = x]
      /\ started' = started \cup {x}
      /\ outcome' = outcome /\ answer' = answer
      /\ x \notin started /\ answer[x] = None
  BY DEF Issue, New
<1>2. /\ \A p \in Ov : p # o => io'[p] = io[p] /\ current'[p] = current[p]
      /\ current'[o] = x
      /\ io'[o].state = "pending"
  BY <1>0, <1>1, IoTyped DEF Issue, Io!Issue, Io!Start, HistoryTypes
<1>3. io'[o] # Unused
  <2>1. io'[o] = [state |-> "pending", bytes |-> 0, len |-> Io!ToDword(size),
                  file |-> FileOf[x], by |-> t]
    BY <1>0, IoTyped DEF Issue, Io!Issue, Io!Start
  <2>2. io'[o] \in Io!Io
    <3>1. 0 \in Io!Dword /\ Io!ToDword(size) \in Io!Dword
      BY SystemConstants DEF Io!Dword, Io!ToDword
    <3>2. FileOf[x] \in Io!Handle
      BY SystemConstants DEF Io!Handle
    <3> QED BY <2>1, <3>1, <3>2 DEF Io!Io
  <2> QED BY <2>2, SystemSentinels
<1>4. Linked'
  BY <1>0, <1>1, <1>2, <1>3, SystemSentinels DEF ReportInv, Linked
<1>5. ASSUME NEW p \in Ov PROVE Known(p)'
  <2>1. CASE p = o
    BY <2>1, <1>1, <1>2 DEF ReportInv, Known, Unmade, Exclusive
  <2>2. CASE p # o
    BY <2>2, <1>1, <1>2 DEF ReportInv, Known, Exclusive
  <2> QED BY <2>1, <2>2
<1>6. Unmade' /\ Heard'
  BY <1>1 DEF ReportInv, Unmade, Heard
<1>7. ASSUME NEW y \in Op PROVE Agree(y)'
  BY <1>1 DEF ReportInv, Agree, Exclusive
<1> QED BY <1>4, <1>5, <1>6, <1>7 DEF ReportInv

LEMMA RejectReports ==
  ASSUME CallInv, HistoryTypes, ReportInv,
         NEW t \in Thread, NEW x \in Op, NEW wait \in BOOLEAN, Reject(t, x, wait)
  PROVE  ReportInv'
<1>1. /\ UNCHANGED <<io, current, started, outcome>>
      /\ answer' = [answer EXCEPT ![x] = Io!Error]
      /\ x \notin started
  BY DEF Reject, Io!Reject, New
<1>2. /\ answer'[x].kind = "error"
      /\ \A y \in Op : y # x => answer'[y] = answer[y]
  BY <1>1 DEF HistoryTypes, Io!Error
<1>3. Linked' /\ Unmade' /\ Heard'
  BY <1>1, <1>2 DEF ReportInv, Linked, Unmade, Heard
<1>4. ASSUME NEW o \in Ov PROVE Known(o)'
  <2>1. io[o] # Unused => current[o] # x /\ current[o] \in Op
    BY <1>1 DEF ReportInv, Linked, HistoryTypes
  <2> QED BY <1>1, <1>2, <2>1 DEF ReportInv, Known, Exclusive
<1>5. ASSUME NEW y \in Op PROVE Agree(y)'
  BY <1>1, <1>2 DEF ReportInv, Agree, Exclusive
<1> QED BY <1>3, <1>4, <1>5 DEF ReportInv

LEMMA CompleteReports ==
  ASSUME CallInv, CallInv', HistoryTypes, ReportInv,
         NEW o \in Ov, NEW ok \in BOOLEAN, NEW n \in Io!Dword, Complete(o, ok, n)
  PROVE  ReportInv'
<1> DEFINE x == current[o]
           end == IF ok THEN "success" ELSE "failure"
<1>1. /\ io[o] # Unused /\ io[o].state = "pending"
      /\ ~ok => n = 0
      /\ io' = [io EXCEPT ![o] = [io[o] EXCEPT !.state = end, !.bytes = n]]
      /\ outcome' = [outcome EXCEPT ![x] = [ok |-> ok, bytes |-> n]]
      /\ UNCHANGED <<current, answer, started>>
  BY DEF Complete, Io!Complete, Io!Pending
<1>2. x \in Op /\ x \in started /\ OvOf[x] = o
  BY <1>1 DEF ReportInv, Linked, HistoryTypes
<1>3. /\ io'[o].state = end /\ io'[o].bytes = n
      /\ io'[o] # Unused
      /\ \A p \in Ov : p # o => io'[p] = io[p] /\ current[p] # x
  <2>1. io[o] \in Io!Io
    BY <1>1, IoTyped
  <2>2. io'[o] = [io[o] EXCEPT !.state = end, !.bytes = n]
    BY <1>1, IoTyped
  <2>3. io'[o].state = end /\ io'[o].bytes = n /\ io'[o] \in Io!Io
    BY <2>1, <2>2 DEF Io!Io
  <2>4. ASSUME NEW p \in Ov, p # o PROVE io'[p] = io[p] /\ current[p] # x
    BY <1>1, <1>2, <2>4, IoTyped, SystemSentinels DEF ReportInv, Linked
  <2> QED BY <2>3, <2>4, SystemSentinels
<1>4. /\ outcome'[x] = [ok |-> ok, bytes |-> n]
      /\ \A y \in Op : y # x => outcome'[y] = outcome[y]
  BY <1>1, <1>2 DEF HistoryTypes
<1>5. Linked' /\ Unmade' /\ Heard'
  <2>1. Linked'
    BY <1>1, <1>3 DEF ReportInv, Linked
  <2>2. Unmade' /\ Heard'
    BY <1>1, <1>2, <1>4 DEF ReportInv, Unmade, Heard
  <2> QED BY <2>1, <2>2
<1>6. ASSUME NEW p \in Ov PROVE Known(p)'
  <2>1. CASE p = o
    <3>1. CASE ok = TRUE
      <4>1. io'[o].state = "success" /\ outcome'[x] = [ok |-> TRUE, bytes |-> io'[o].bytes]
        BY <3>1, <1>3, <1>4
      <4> QED BY <2>1, <4>1, <1>1 DEF Known
    <3>2. CASE ok = FALSE
      <4>1. n = 0
        BY <3>2, <1>1
      <4>2. io'[o].state = "failure" /\ io'[o].bytes = 0
        BY <3>2, <4>1, <1>3
      <4>3. outcome'[x] = [ok |-> FALSE, bytes |-> 0]
        BY <3>2, <4>1, <1>4
      <4> QED BY <2>1, <4>2, <4>3, <1>1 DEF Known
    <3> QED BY <3>1, <3>2
  <2>2. CASE p # o
    <3>1. io[p] # Unused => current[p] \in Op
      BY DEF ReportInv, Linked, HistoryTypes
    <3> QED BY <2>2, <3>1, <1>1, <1>3, <1>4 DEF ReportInv, Known, Exclusive
  <2> QED BY <2>1, <2>2
<1>7. ASSUME NEW y \in Op PROVE Agree(y)'
  <2>1. CASE y = x
    <3>1. Exclusive(o) /\ answer[x] # None => answer[x].kind = "nullopt"
      BY <1>1 DEF ReportInv, Known
    <3> QED BY <2>1, <3>1, <1>1, <1>2 DEF Agree, Exclusive
  <2>2. CASE y # x
    BY <2>2, <1>1, <1>4 DEF ReportInv, Agree, Exclusive
  <2> QED BY <2>1, <2>2
<1> QED BY <1>5, <1>6, <1>7 DEF ReportInv

(* Whoever gave no event of o to another OVERLAPPED has one of its own in  *)
(* it during a call.                                                       *)
LEMMA ExclusiveIsOwn ==
  ASSUME NEW o \in Ov, Exclusive(o), hEvent[o] \in EventsFor[o]
  PROVE  IoP!OwnEvent(o)
  BY DEF Exclusive, IoP!OwnEvent

LEMMA AnswerReports ==
  ASSUME CallInv, HistoryTypes, ReportInv, NEW t \in Thread, Answer(t)
  PROVE  ReportInv'
<1> DEFINE o == ioCall[t].op
           x == current[o]
           told == ioCall'[t].answer
<1>1. /\ o \in Ov /\ io[o] # Unused /\ told \in Io!Answer
      /\ IoP!Inside(t) /\ ~IoP!Inside(t)'
      /\ io' = io
  BY AnswerEffect
<1>2. /\ answer' = [answer EXCEPT ![x] = told]
      /\ UNCHANGED <<current, outcome, started>>
  BY DEF Answer
<1>3. x \in Op /\ x \in started /\ OvOf[x] = o
  BY <1>1 DEF ReportInv, Linked, HistoryTypes
<1>4. /\ answer'[x] = told
      /\ \A y \in Op : y # x => answer'[y] = answer[y]
  BY <1>2, <1>3 DEF HistoryTypes
<1>5. Exclusive(o) => told = Io!Outcome(o)
  <2> SUFFICES ASSUME Exclusive(o) PROVE told = Io!Outcome(o)
    OBVIOUS
  <2>1. hEvent[o] \in EventsFor[o]
    BY <1>1 DEF CallInv, IoP!CallerHasEvent
  <2>2. IoP!OwnEvent(o)
    BY <1>1, <2>1, ExclusiveIsOwn
  <2>3. [IoP!Next]_(IoP!vars)
    BY AnswerSteps DEF IoP!Next
  <2>4. told = IoP!Outcome(o)
    BY <1>1, <2>2, <2>3, IoConstants, IoP!AnswerStep DEF CallInv
  <2> QED BY <2>4, IoStates
<1>6. io[o].state \in {"pending", "success", "failure"}
  BY <1>1, IoTyped DEF Io!Io
<1>7. /\ io[o].state = "pending" /\ Exclusive(o) => told.kind = "nullopt"
      /\ Exclusive(o) /\ told.kind = "count" =>
           io[o].state = "success" /\ told.bytes = io[o].bytes
      /\ Exclusive(o) /\ told.kind = "error" => io[o].state = "failure"
  BY <1>5, <1>6 DEF Io!Outcome, Io!Count, Io!Error
<1>8. Linked' /\ Unmade' /\ Heard'
  <2>1. Linked' /\ Unmade'
    BY <1>1, <1>2 DEF ReportInv, Linked, Unmade
  <2>2. Heard'
    BY <1>2, <1>3, <1>4 DEF ReportInv, Heard
  <2> QED BY <2>1, <2>2
<1>9. ASSUME NEW p \in Ov PROVE Known(p)'
  <2>1. CASE p = o
    BY <2>1, <1>1, <1>2, <1>4, <1>7 DEF ReportInv, Known, Exclusive
  <2>2. CASE p # o
    <3>1. io[p] # Unused => current[p] # x /\ current[p] \in Op
      BY <1>3, <2>2 DEF ReportInv, Linked, HistoryTypes
    <3> QED BY <3>1, <1>1, <1>2, <1>4 DEF ReportInv, Known, Exclusive
  <2> QED BY <2>1, <2>2
<1>10. ASSUME NEW y \in Op PROVE Agree(y)'
  <2>1. CASE y = x
    <3>1. Known(o)
      BY <1>1 DEF ReportInv
    <3>2. Exclusive(o) /\ told.kind = "count" =>
            outcome[x] = [ok |-> TRUE, bytes |-> told.bytes]
      BY <3>1, <1>1, <1>7 DEF Known
    <3>3. Exclusive(o) /\ told.kind = "error" => outcome[x] = [ok |-> FALSE, bytes |-> 0]
      BY <3>1, <1>1, <1>7 DEF Known
    <3> QED BY <2>1, <3>2, <3>3, <1>2, <1>3, <1>4 DEF Agree, Exclusive
  <2>2. CASE y # x
    BY <2>2, <1>2, <1>4 DEF ReportInv, Agree, Exclusive
  <2> QED BY <2>1, <2>2
<1> QED BY <1>8, <1>9, <1>10 DEF ReportInv

LEMMA ReportStep == CallInv /\ HistoryTypes /\ ReportInv /\ [Next]_vars => ReportInv'
<1> SUFFICES ASSUME CallInv, HistoryTypes, ReportInv, [Next]_vars PROVE ReportInv'
  OBVIOUS
<1>0. CallInv'
  BY CallsStay
<1>1. ASSUME NEW t \in Thread, NEW x \in Op, NEW wait \in BOOLEAN, Reject(t, x, wait)
      PROVE  ReportInv'
  BY <1>1, RejectReports
<1>2. ASSUME NEW t \in Thread, NEW x \in Op, NEW size \in Size, NEW wait \in BOOLEAN,
             Issue(t, x, size, wait)
      PROVE  ReportInv'
  BY <1>0, <1>2, IssueReports
<1>3. ASSUME NEW t \in Thread, Answer(t) PROVE ReportInv'
  BY <1>3, AnswerReports
<1>4. ASSUME NEW o \in Ov, NEW ok \in BOOLEAN, NEW n \in Io!Dword, Complete(o, ok, n)
      PROVE  ReportInv'
  BY <1>0, <1>4, CompleteReports
<1>5. CASE UNCHANGED <<io, current, outcome, answer, started>>
  BY <1>5 DEF ReportInv, Linked, Known, Unmade, Heard, Agree, Exclusive
<1>6. ASSUME \/ \E o \in Ov, e \in Event \cup {NoEvent} : Prepare(o, e)
             \/ \E t \in Thread : Sleep(t) \/ Begin(t) \/ GiveUp(t) \/ Take(t)
             \/ \E x \in Op : Queue(x)
             \/ Manage
             \/ UNCHANGED vars
      PROVE  UNCHANGED <<io, current, outcome, answer, started>>
  BY <1>6 DEF Prepare, Io!InitializeWithEvent, Io!SetEvent, Sleep, Io!Sleep, Begin, GiveUp, Take,
     Queue, Manage, vars, history, ioVars
<1> QED
  BY <1>1, <1>2, <1>3, <1>4, <1>5, <1>6, Zenon DEF Next

LEMMA ReportsHold == Spec => []ReportInv
<1>1. Init => ReportInv
  BY DEF Init, Io!Init, ReportInv, Linked, Known, Unmade, Heard, Agree
<1> QED BY <1>1, ReportStep, CallsHold, HistoryTyped, PTL DEF Spec

(* A count or an error that the caller is told, and the packet's outcome,  *)
(* are the same, for an OVERLAPPED whose events are its own, whatever      *)
(* other operations share and however late the packet is.                  *)
THEOREM BothReportsAgree == Spec => []ReportsAgree
<1>1. ReportInv => ReportsAgree
  BY DEF ReportInv, Agree, ReportsAgree
<1> QED BY <1>1, ReportsHold, PTL

-----------------------------------------------------------------------------
(* Packets. *)

(* What a step that only empties queues may do to an operation. *)
Leaves(x, places) == item'[x] = item[x] \/ (item[x] = "landed" /\ item'[x] \in places)

LEMMA QueuedIsLanded ==
  ASSUME IocpP!Inv, NEW p \in Port, NEW packet \in IocpP!Elements(queue[p])
  PROVE  packet.item \in Op /\ item[packet.item] = "landed"
<1>1. queue[p] \in Seq(IocpP!Packet)
  BY DEF IocpP!Inv, IocpP!TypeOK
<1>2. packet \in IocpP!Packet
  BY <1>1 DEF IocpP!Elements
<1>3. packet.item \in IocpP!Item
  BY <1>2 DEF IocpP!Packet
<1>4. packet.item \in IocpP!Items(queue[p])
  BY DEF IocpP!Items
<1> QED BY <1>3, <1>4 DEF IocpP!Inv, IocpP!OnePacket, IocpP!Item

LEMMA TakeEffect ==
  ASSUME IocpP!Inv, NEW t \in Thread, Take(t)
  PROVE  /\ \A x \in Op : Leaves(x, {"idle", "dropped"})
         /\ assoc' = assoc
<1> DEFINE p == getCall[t].port
<1>a. IocpP!TypeOK
  BY DEF IocpP!Inv
<1>b. IocpP!Item = Op
  BY DEF IocpP!Item
<1>c. item \in [Op -> {"idle", "flying", "landed", "dropped", "stranded"}]
  BY <1>a, <1>b DEF IocpP!TypeOK
<1>2. CASE IocpP!TakeOne(t)
  <2>1. p \in Port /\ 1 \in 0 .. Len(queue[p])
    BY <1>2, <1>a, IocpConstants, IocpP!TakeOneStep
  <2> DEFINE packet == Head(queue[p])
  <2>3. packet \in IocpP!Elements(queue[p])
    <3>1. queue[p] \in Seq(IocpP!Packet) /\ queue[p] # <<>>
      BY <1>2, <1>a, <2>1 DEF IocpP!TakeOne, IocpP!TypeOK
    <3> QED BY <3>1 DEF IocpP!Elements
  <2>4. item[packet.item] = "landed"
    BY <2>1, <2>3, QueuedIsLanded
  <2>5. item' = [item EXCEPT ![packet.item] = IF packet.ok THEN "idle" ELSE "dropped"]
    BY <1>2 DEF IocpP!TakeOne
  <2> HIDE DEF packet
  <2>6. \A x \in Op : Leaves(x, {"idle", "dropped"})
    BY <1>c, <2>4, <2>5 DEF Leaves
  <2> QED BY <1>2, <2>6 DEF IocpP!TakeOne
<1>3. CASE IocpP!TakeMany(t)
  <2> DEFINE n == IF Len(queue[p]) < getCall[t].room THEN Len(queue[p]) ELSE getCall[t].room
             removed == {queue[p][i].item : i \in 1 .. n}
  <2>1. p \in Port /\ queue[p] \in Seq(IocpP!Packet) /\ getCall[t].room \in Nat
    BY <1>3, <1>a DEF IocpP!TakeMany, IocpP!Refused, IocpP!OpenPort, IocpP!TypeOK,
       IocpP!Waiting, IocpP!Dword
  <2>2. n \in 0 .. Len(queue[p])
    BY <2>1
  <2>3. /\ item' = [x \in Op |-> IF x \in removed THEN "idle" ELSE item[x]]
        /\ assoc' = assoc
    BY <1>3, <1>b DEF IocpP!TakeMany
  <2>4. ASSUME NEW x \in removed PROVE item[x] = "landed"
    <3>1. PICK i \in 1 .. n : x = queue[p][i].item
      OBVIOUS
    <3>2. queue[p][i] \in IocpP!Elements(queue[p])
      BY <2>1, <2>2 DEF IocpP!Elements
    <3> QED BY <2>1, <3>1, <3>2, QueuedIsLanded
  <2> HIDE DEF n, removed
  <2>5. \A x \in Op : Leaves(x, {"idle", "dropped"})
    BY <2>3, <2>4 DEF Leaves
  <2> QED BY <2>3, <2>5
<1> QED BY <1>2, <1>3, TakeSteps

LEMMA ManageEffect ==
  ASSUME IocpP!Inv, Manage
  PROVE  /\ \A x \in Op : Leaves(x, {"stranded"})
         /\ \A f \in File : assoc[f] # None => assoc'[f] = assoc[f]
<1>a. IocpP!TypeOK
  BY DEF IocpP!Inv
<1>b. IocpP!Item = Op
  BY DEF IocpP!Item
<1>1. ASSUME NEW c \in Cp, NEW p \in Port, IocpP!Create(c, p)
      PROVE  UNCHANGED <<item, assoc>>
  BY <1>1 DEF IocpP!Create
<1>2. ASSUME NEW c \in Cp, NEW f \in File, NEW token \in Token, IocpP!Add(c, f, token)
      PROVE  /\ item' = item
             /\ \A g \in File : assoc[g] # None => assoc'[g] = assoc[g]
  BY <1>2, <1>a DEF IocpP!Add, IocpP!TypeOK
<1>3. ASSUME NEW c \in Cp, IocpP!Destroy(c), handle[c] # Null
      PROVE  (\A x \in Op : Leaves(x, {"stranded"})) /\ assoc' = assoc
  <2> DEFINE p == handle[c]
  <2>1. p \in Port
    BY <1>3, <1>a DEF IocpP!Destroy, IocpP!Built, IocpP!TypeOK
  <2>2. /\ item' = [x \in Op |-> IF x \in IocpP!ItemsIn(p) THEN "stranded" ELSE item[x]]
        /\ assoc' = assoc
    BY <1>3, <1>b DEF IocpP!Destroy
  <2>3. \A x \in IocpP!ItemsIn(p) : item[x] = "landed"
    BY <2>1, QueuedIsLanded DEF IocpP!ItemsIn
  <2>4. \A x \in Op : Leaves(x, {"stranded"})
    BY <2>2, <2>3 DEF Leaves
  <2> QED BY <2>2, <2>4
<1>4. ASSUME NEW c \in Cp, IocpP!Destroy(c), handle[c] = Null
      PROVE  UNCHANGED <<item, assoc>>
  BY <1>4 DEF IocpP!Destroy
<1>5. ASSUME item' = item PROVE \A x \in Op : Leaves(x, {"stranded"})
  BY <1>5 DEF Leaves
<1> QED BY <1>1, <1>2, <1>3, <1>4, <1>5, ManageSteps

LEMMA QueueEffect ==
  ASSUME IocpP!Inv, NEW x \in Op, Queue(x)
  PROVE  /\ item[x] = "flying"
         /\ assoc[FileOf[x]] # None => item'[x] \in {"landed", "stranded"}
         /\ \A y \in Op : y # x => item'[y] = item[y]
         /\ assoc' = assoc
<1>1. item \in [Op -> {"idle", "flying", "landed", "dropped", "stranded"}]
  BY DEF IocpP!Inv, IocpP!TypeOK, IocpP!Item
<1>2. IocpP!Land(x, outcome[x].ok)
  BY QueueStep
<1> QED BY <1>1, <1>2 DEF IocpP!Land

(* An operation is idle before it starts and after it was reported. *)
Returned ==
  /\ \A x \in Op \ started : item[x] = "idle"
  /\ \A x \in reported : x \in started /\ item[x] = "idle"

(* An operation on an associated file has, or had, a packet. *)
Mailed ==
  \A x \in attached :
    /\ assoc[FileOf[x]] # None
    /\ item[x] \in {"flying", "landed", "dropped", "stranded"} \/ x \in reported

MailInv == Returned /\ Mailed

LEMMA IssueMail ==
  ASSUME HistoryTypes, IocpP!Inv, ReportInv, MailInv,
         NEW t \in Thread, NEW x \in Op, NEW size \in Size, NEW wait \in BOOLEAN,
         Issue(t, x, size, wait)
  PROVE  MailInv'
<1>1. /\ item' = [item EXCEPT ![x] = "flying"]
      /\ UNCHANGED <<queue, assoc, outcome, reported>>
      /\ current' = [current EXCEPT ![OvOf[x]] = x]
      /\ started' = started \cup {x}
      /\ attached' \subseteq attached \cup {x}
      /\ x \in attached' => x \in attached \/ assoc[FileOf[x]] # None
      /\ x \notin started
  BY DEF Issue, Iocp!StartIo, New
<1>2. item'[x] = "flying" /\ \A y \in Op : y # x => item'[y] = item[y]
  BY <1>1 DEF IocpP!Inv, IocpP!TypeOK, IocpP!Item
<1>3. x \notin reported
  BY <1>1 DEF MailInv, Returned
<1>4. Returned'
  BY <1>1, <1>2, <1>3 DEF MailInv, Returned, HistoryTypes
<1>5. Mailed'
  BY <1>1, <1>2 DEF MailInv, Mailed, HistoryTypes
<1> QED BY <1>4, <1>5 DEF MailInv

LEMMA CompleteMail ==
  ASSUME MailInv, NEW o \in Ov, NEW ok \in BOOLEAN, NEW n \in Io!Dword, Complete(o, ok, n)
  PROVE  MailInv'
<1>1. UNCHANGED <<item, assoc, started, attached, reported>>
  BY DEF Complete, portVars
<1> QED BY <1>1 DEF MailInv, Returned, Mailed

LEMMA QueueMail ==
  ASSUME HistoryTypes, IocpP!Inv, MailInv, NEW x \in Op, Queue(x)
  PROVE  MailInv'
<1>1. UNCHANGED <<current, outcome, started, attached, reported>>
  BY DEF Queue, history
<1>2. Returned'
  BY <1>1, QueueEffect DEF MailInv, Returned, HistoryTypes
<1>3. Mailed'
  BY <1>1, QueueEffect DEF MailInv, Mailed, HistoryTypes
<1> QED BY <1>2, <1>3 DEF MailInv

LEMMA ManageMail ==
  ASSUME HistoryTypes, IocpP!Inv, MailInv, Manage PROVE MailInv'
<1>1. UNCHANGED <<current, outcome, started, attached, reported>>
  BY DEF Manage, history
<1>2. Returned'
  BY <1>1, ManageEffect DEF MailInv, Returned, HistoryTypes, Leaves
<1>3. Mailed'
  <2> SUFFICES ASSUME NEW x \in attached
               PROVE  /\ assoc'[FileOf[x]] # None
                      /\ item'[x] \in {"flying", "landed", "dropped", "stranded"}
                           \/ x \in reported
    BY <1>1 DEF Mailed
  <2>1. x \in Op /\ FileOf[x] \in File
    BY SystemConstants DEF HistoryTypes
  <2> QED BY <2>1, ManageEffect DEF MailInv, Mailed, Leaves
<1> QED BY <1>2, <1>3 DEF MailInv

LEMMA TakeMail ==
  ASSUME HistoryTypes, IocpP!Inv, MailInv, NEW t \in Thread, Take(t) PROVE MailInv'
<1>1. /\ UNCHANGED <<current, outcome, started, attached>>
      /\ reported' = reported \cup {x \in Op : item[x] = "landed" /\ item'[x] = "idle"}
  BY DEF Take
<1>2. Returned'
  BY <1>1, TakeEffect DEF MailInv, Returned, HistoryTypes, Leaves
<1>3. Mailed'
  <2> SUFFICES ASSUME NEW x \in attached
               PROVE  /\ assoc'[FileOf[x]] # None
                      /\ item'[x] \in {"flying", "landed", "dropped", "stranded"}
                           \/ x \in reported'
    BY <1>1 DEF Mailed
  <2>1. x \in Op
    BY DEF HistoryTypes
  <2> QED BY <1>1, <2>1, TakeEffect DEF MailInv, Mailed, Leaves
<1> QED BY <1>2, <1>3 DEF MailInv

LEMMA MailStep ==
  HistoryTypes /\ IocpP!Inv /\ ReportInv /\ MailInv /\ [Next]_vars => MailInv'
<1> SUFFICES ASSUME HistoryTypes, IocpP!Inv, ReportInv, MailInv, [Next]_vars PROVE MailInv'
  OBVIOUS
<1>1. ASSUME NEW t \in Thread, NEW x \in Op, NEW size \in Size, NEW wait \in BOOLEAN,
             Issue(t, x, size, wait)
      PROVE  MailInv'
  BY <1>1, IssueMail
<1>2. ASSUME NEW o \in Ov, NEW ok \in BOOLEAN, NEW n \in Io!Dword, Complete(o, ok, n)
      PROVE  MailInv'
  BY <1>2, CompleteMail
<1>3. ASSUME NEW x \in Op, Queue(x) PROVE MailInv'
  BY <1>3, QueueMail
<1>4. CASE Manage
  BY <1>4, ManageMail
<1>5. ASSUME NEW t \in Thread, Take(t) PROVE MailInv'
  BY <1>5, TakeMail
<1>6. CASE UNCHANGED <<item, assoc, started, attached, reported>>
  BY <1>6 DEF MailInv, Returned, Mailed
<1>7. ASSUME \/ \E o \in Ov, e \in Event \cup {NoEvent} : Prepare(o, e)
             \/ \E t \in Thread, x \in Op, wait \in BOOLEAN : Reject(t, x, wait)
             \/ \E t \in Thread : Sleep(t) \/ Answer(t) \/ Begin(t) \/ GiveUp(t)
             \/ UNCHANGED vars
      PROVE  UNCHANGED <<item, assoc, started, attached, reported>>
  <2>1. \A t \in Thread : Begin(t) \/ GiveUp(t) => UNCHANGED <<item, assoc, queue>>
    BY CallerSteps
  <2> QED
    BY <1>7, <2>1 DEF Prepare, Reject, Sleep, Answer, Begin, GiveUp, portVars, history, vars
<1> QED
  BY <1>1, <1>2, <1>3, <1>4, <1>5, <1>6, <1>7, Zenon DEF Next

LEMMA MailHolds == Spec => []MailInv
<1>1. Init => MailInv
  BY DEF Init, Iocp!Init, Iocp!Item, MailInv, Returned, Mailed
<1> QED BY <1>1, MailStep, HistoryTyped, PortsHold, ReportsHold, PTL DEF Spec

(* Whoever was told a count, or nullopt, of an operation on an associated  *)
(* file can count on a packet, whatever became of its port.                *)
THEOREM CountsHavePackets == Spec => []CountMeansPacket
<1>1. ReportInv /\ MailInv => CountMeansPacket
  BY DEF ReportInv, Heard, MailInv, Mailed, CountMeansPacket
<1> QED BY <1>1, ReportsHold, MailHolds, PTL
=============================================================================
