-------------------------- MODULE OverlappedIo_proofs --------------------------
(***************************************************************************)
(* Theorems about OverlappedIo, for any number of threads, files, events   *)
(* and OVERLAPPED structures.                                              *)
(***************************************************************************)
EXTENDS OverlappedIo, TLAPS

(* A call that started an operation is the one that started it last.       *)
CallerOf(t) ==
  Inside(t) =>
    /\ call[t].op \in Ov
    /\ call[t].wait \in BOOLEAN
    /\ io[call[t].op] # Unused
    /\ io[call[t].op].by = t
    /\ call[t].pc = "asleep" => call[t].wait
CallerStarted == \A t \in Thread : CallerOf(t)

(* The event of a pending operation is one given to its OVERLAPPED; if to  *)
(* no other, it waits for that operation to complete.                      *)
Awaits(o) ==
  Pending(o) => hEvent[o] \in EventsFor[o] /\ (OwnEvent(o) => ~signal[hEvent[o]])
EventAwaits == \A o \in Ov : Awaits(o)

Inv == TypeOK /\ CallerStarted

LEMMA DwordRange == \A n \in Nat : ToDword(n) \in Dword
BY Constants DEF ToDword, Dword

LEMMA AnswerRange ==
  ASSUME TypeOK, NEW o \in Ov, io[o] # Unused, NEW awake \in BOOLEAN,
         NEW told \in Told(o, awake), NEW wait \in BOOLEAN
  PROVE  AnswerTo(told, wait) \in Answer /\ (wait => AnswerTo(told, wait).kind # "nullopt")
<1>1. io[o] \in Io
  BY DEF TypeOK
<1>2. CASE told.ok
  <2>1. told.bytes \in Dword
    BY <1>1, <1>2 DEF Told, Io
  <2> QED BY <1>2, <2>1 DEF AnswerTo, Count, Answer
<1>3. CASE ~told.ok
  BY <1>3 DEF AnswerTo, Error, Answer
<1> QED BY <1>2, <1>3

(* What a call that returns leaves in its thread. *)
LEMMA ReturnStep ==
  ASSUME TypeOK, NEW t \in Thread, NEW wait \in BOOLEAN,
         NEW answer \in Answer, Return(t, wait, answer)
  PROVE  /\ call' \in [Thread -> Call \cup {Away}]
         /\ \A u \in Thread : u # t => call'[u] = call[u]
         /\ call'[t] = [pc |-> "returned", wait |-> wait, answer |-> answer]
<1>1. [pc |-> "returned", wait |-> wait, answer |-> answer] \in Call
  BY DEF Call
<1> QED BY <1>1 DEF Return, TypeOK

LEMMA FinishStep ==
  ASSUME TypeOK, CallerStarted, NEW t \in Thread, Inside(t), NEW awake \in BOOLEAN,
         Finish(t, awake)
  PROVE  \E answer \in Answer :
           /\ Return(t, call[t].wait, answer)
           /\ call[t].wait => answer.kind # "nullopt"
<1>1. call[t].op \in Ov /\ call[t].wait \in BOOLEAN /\ io[call[t].op] # Unused
  BY DEF CallerStarted, CallerOf
<1>2. PICK told \in Told(call[t].op, awake) :
        Return(t, call[t].wait, AnswerTo(told, call[t].wait))
  BY DEF Finish
<1>3. /\ AnswerTo(told, call[t].wait) \in Answer
      /\ call[t].wait => AnswerTo(told, call[t].wait).kind # "nullopt"
  BY <1>1, AnswerRange
<1> QED BY <1>2, <1>3

(* What starting an operation leaves in its thread and its OVERLAPPED. *)
LEMMA StartTypes ==
  ASSUME TypeOK, NEW t \in Thread, NEW f \in Handle, NEW o \in Ov, NEW n \in Dword,
         NEW len \in Dword, NEW wait \in BOOLEAN,
         NEW state \in {"pending", "success", "failure"}, NEW on \in BOOLEAN,
         io' = [io EXCEPT ![o] = [state |-> state, bytes |-> n, len |-> len,
                                  file |-> f, by |-> t]],
         signal' = [signal EXCEPT ![SignalOf(o, f)] = on],
         call' = [call EXCEPT ![t] = [pc |-> "started", op |-> o, wait |-> wait]],
         UNCHANGED <<made, hEvent>>
  PROVE  TypeOK'
<1>1. [state |-> state, bytes |-> n, len |-> len, file |-> f, by |-> t] \in Io
  BY DEF Io
<1>2. [pc |-> "started", op |-> o, wait |-> wait] \in Call
  BY DEF Call
<1>3. io' \in [Ov -> Io \cup {Unused}]
  BY <1>1 DEF TypeOK
<1>4. call' \in [Thread -> Call \cup {Away}]
  BY <1>2 DEF TypeOK
<1>5. signal' \in [Waitable -> BOOLEAN]
  BY DEF TypeOK
<1> QED BY <1>3, <1>4, <1>5 DEF TypeOK

LEMMA TypeStep == TypeOK /\ CallerStarted /\ [Next]_vars => TypeOK'
<1> SUFFICES ASSUME TypeOK, CallerStarted, [Next]_vars PROVE TypeOK'
  OBVIOUS
<1>1. ASSUME NEW o \in Ov, NEW e \in Event, InitializeWithEvent(o, e) PROVE TypeOK'
  BY <1>1 DEF InitializeWithEvent, TypeOK
<1>2. ASSUME NEW o \in Ov, NEW e \in Event \cup {NoEvent}, SetEvent(o, e) PROVE TypeOK'
  BY <1>2 DEF SetEvent, TypeOK
<1>3. ASSUME NEW t \in Thread, NEW o \in Ov, NEW wait \in BOOLEAN, Reject(t, o, wait)
      PROVE TypeOK'
  <2>1. Error \in Answer
    BY DEF Error, Answer
  <2>2. call' \in [Thread -> Call \cup {Away}]
    BY <1>3, <2>1, ReturnStep DEF Reject
  <2> QED BY <1>3, <2>2 DEF Reject, TypeOK
<1>4. ASSUME NEW t \in Thread, NEW f \in File, NEW o \in Ov, NEW size \in Size,
             NEW wait \in BOOLEAN, Issue(t, f, o, size, wait)
      PROVE TypeOK'
  <2>1. ToDword(size) \in Dword /\ 0 \in Dword
    BY Constants, DwordRange DEF Dword
  <2>2. f \in Handle
    BY DEF Handle
  <2> QED BY <1>4, <2>1, <2>2, StartTypes DEF Issue, Start
<1>5. ASSUME NEW t \in Thread, NEW f \in SyncFile, NEW o \in Ov, NEW size \in Size,
             NEW wait \in BOOLEAN, IssueSync(t, f, o, size, wait)
      PROVE TypeOK'
  <2>1. ToDword(size) \in Dword /\ f \in Handle
    BY Constants, DwordRange DEF Handle
  <2>2. PICK n \in 0 .. ToDword(size) :
          io' = [io EXCEPT ![o] = [state |-> "success", bytes |-> n,
                                   len |-> ToDword(size), file |-> f, by |-> t]]
    BY <1>5 DEF IssueSync
  <2>3. n \in Dword
    BY <2>1, Constants DEF Dword
  <2> QED BY <1>5, <2>1, <2>2, <2>3, StartTypes DEF IssueSync
<1>6. ASSUME NEW t \in Thread, NEW f \in SyncFile, NEW size \in Size, Transfer(t, f, size)
      PROVE TypeOK'
  <2>1. ASSUME NEW n \in 0 .. ToDword(size) PROVE Count(n) \in Answer
    BY Constants, DwordRange DEF Count, Answer, Dword
  <2>2. Error \in Answer
    BY DEF Error, Answer
  <2>3. PICK answer \in Answer : Return(t, TRUE, answer)
    BY <1>6, <2>1, <2>2 DEF Transfer
  <2>4. call' \in [Thread -> Call \cup {Away}]
    BY <2>3, ReturnStep
  <2>5. signal' \in [Waitable -> BOOLEAN]
    BY <1>6 DEF Transfer, TypeOK
  <2> QED BY <1>6, <2>4, <2>5 DEF Transfer, TypeOK
<1>7. ASSUME NEW o \in Ov, NEW outcome \in {"success", "failure"}, NEW n \in Dword,
             Complete(o, outcome, n)
      PROVE TypeOK'
  <2>1. io[o] \in Io
    BY <1>7 DEF Complete, Pending, TypeOK
  <2>2. [io[o] EXCEPT !.state = outcome, !.bytes = n] \in Io
    BY <2>1 DEF Io
  <2>3. io' \in [Ov -> Io \cup {Unused}]
    BY <1>7, <2>2 DEF Complete, TypeOK
  <2>4. signal' \in [Waitable -> BOOLEAN]
    BY <1>7 DEF Complete, TypeOK
  <2> QED BY <1>7, <2>3, <2>4 DEF Complete, TypeOK
<1>8. ASSUME NEW t \in Thread, Look(t) \/ Wake(t) PROVE TypeOK'
  <2>1. Inside(t) /\ \E awake \in BOOLEAN : Finish(t, awake)
    BY <1>8 DEF Look, Wake
  <2>2. PICK answer \in Answer : Return(t, call[t].wait, answer)
    BY <2>1, FinishStep
  <2>3. call[t].op \in Ov /\ call[t].wait \in BOOLEAN
    BY <2>1 DEF CallerStarted, CallerOf
  <2>4. call' \in [Thread -> Call \cup {Away}]
    BY <2>2, <2>3, ReturnStep
  <2>5. signal' \in [Waitable -> BOOLEAN]
    BY <1>8 DEF Look, Wake, TypeOK
  <2> QED BY <1>8, <2>4, <2>5 DEF Look, Wake, TypeOK
<1>9. ASSUME NEW t \in Thread, Sleep(t) PROVE TypeOK'
  <2>1. call[t] \in [pc : {"started", "asleep"}, op : Ov, wait : BOOLEAN]
    BY <1>9 DEF Sleep, Inside, TypeOK, Call
  <2>2. [call[t] EXCEPT !.pc = "asleep"] \in Call
    BY <2>1 DEF Call
  <2> QED BY <1>9, <2>2 DEF Sleep, TypeOK
<1>10. CASE UNCHANGED vars
  BY <1>10 DEF vars, TypeOK
<1> QED
  BY <1>1, <1>2, <1>3, <1>4, <1>5, <1>6, <1>7, <1>8, <1>9, <1>10 DEF Next

(* A call that ends in a step, and what the step leaves alone. *)
LEMMA EndStep ==
  ASSUME TypeOK, CallerStarted, NEW t \in Thread, Look(t) \/ Wake(t)
  PROVE  /\ Inside(t)
         /\ ~Inside(t)'
         /\ \A u \in Thread : u # t => call'[u] = call[u]
         /\ UNCHANGED <<made, hEvent, io>>
         /\ call'[t].wait = call[t].wait
         /\ call[t].wait => call'[t].answer.kind # "nullopt"
<1>1. Inside(t) /\ \E awake \in BOOLEAN : Finish(t, awake)
  BY DEF Look, Wake
<1>2. PICK answer \in Answer : /\ Return(t, call[t].wait, answer)
                               /\ call[t].wait => answer.kind # "nullopt"
  BY <1>1, FinishStep
<1>3. call[t].op \in Ov /\ call[t].wait \in BOOLEAN
  BY <1>1 DEF CallerStarted, CallerOf
<1>4. /\ \A u \in Thread : u # t => call'[u] = call[u]
      /\ call'[t] = [pc |-> "returned", wait |-> call[t].wait,
                     answer |-> answer]
  BY <1>2, <1>3, ReturnStep
<1>5. ~Inside(t)'
  BY <1>4 DEF Inside
<1>6. /\ call'[t].wait = call[t].wait
      /\ call[t].wait => call'[t].answer.kind # "nullopt"
  BY <1>2, <1>4
<1>7. UNCHANGED <<made, hEvent, io>>
  BY DEF Look, Wake
<1> QED BY <1>1, <1>4, <1>5, <1>6, <1>7

(* Calls. *)
LEMMA CallerStep == Inv /\ [Next]_vars => CallerStarted'
<1> SUFFICES ASSUME Inv, [Next]_vars PROVE CallerStarted'
  OBVIOUS
<1>a. TypeOK /\ CallerStarted
  BY DEF Inv
<1>b. ASSUME NEW u \in Thread, call'[u] = call[u],
             Inside(u) => io'[call[u].op] # Unused /\ io'[call[u].op].by = io[call[u].op].by
      PROVE  CallerOf(u)'
  BY <1>a, <1>b DEF CallerStarted, CallerOf, Inside
<1>1. CASE UNCHANGED <<io, call>>
  BY <1>a, <1>b, <1>1 DEF CallerStarted, CallerOf
<1>2. ASSUME NEW t \in Thread, NEW o \in Ov, NEW wait \in BOOLEAN, Reject(t, o, wait)
      PROVE CallerStarted'
  <2>1. ~Inside(t)' /\ \A u \in Thread : u # t => call'[u] = call[u]
    BY <1>a, <1>2 DEF Reject, Return, Inside, TypeOK
  <2>2. ASSUME NEW u \in Thread PROVE CallerOf(u)'
    BY <1>a, <1>2, <1>b, <2>1 DEF Reject, CallerStarted, CallerOf
  <2> QED BY <2>2 DEF CallerStarted
<1>3. ASSUME NEW t \in Thread, NEW f \in SyncFile, NEW size \in Size, Transfer(t, f, size)
      PROVE CallerStarted'
  <2>1. ~Inside(t)' /\ \A u \in Thread : u # t => call'[u] = call[u]
    BY <1>a, <1>3 DEF Transfer, Return, Inside, TypeOK
  <2>2. ASSUME NEW u \in Thread PROVE CallerOf(u)'
    BY <1>a, <1>3, <1>b, <2>1 DEF Transfer, CallerStarted, CallerOf
  <2> QED BY <2>2 DEF CallerStarted
<1>4. ASSUME NEW t \in Thread, Look(t) \/ Wake(t) PROVE CallerStarted'
  <2>1. ~Inside(t)' /\ io' = io /\ \A u \in Thread : u # t => call'[u] = call[u]
    BY <1>a, <1>4, EndStep
  <2>2. ASSUME NEW u \in Thread PROVE CallerOf(u)'
    BY <1>a, <1>b, <2>1 DEF CallerStarted, CallerOf
  <2> QED BY <2>2 DEF CallerStarted
<1>5. ASSUME NEW t \in Thread, NEW f \in Handle, NEW o \in Ov, NEW size \in Size,
             NEW wait \in BOOLEAN, Issue(t, f, o, size, wait) \/ IssueSync(t, f, o, size, wait)
      PROVE CallerStarted'
  <2>1. /\ ~InCall(o)
        /\ call' = [call EXCEPT ![t] = [pc |-> "started", op |-> o, wait |-> wait]]
    BY <1>5 DEF Issue, Start, IssueSync, AtRest
  <2>2. PICK state \in {"pending", "success"}, n \in Dword :
          io' = [io EXCEPT ![o] = [state |-> state, bytes |-> n, len |-> ToDword(size),
                                   file |-> f, by |-> t]]
    BY <1>5, Constants, DwordRange DEF Issue, Start, IssueSync, Dword
  <2>3. io'[o] # Unused
    <3>1. ToDword(size) \in Dword
      BY Constants, DwordRange
    <3>2. [state |-> state, bytes |-> n, len |-> ToDword(size), file |-> f, by |-> t] \in Io
      BY <3>1 DEF Io
    <3>3. io'[o] \in Io
      BY <1>a, <2>2, <3>2 DEF TypeOK
    <3> QED BY <3>3, Sentinels
  <2>4. io'[o].by = t /\ \A p \in Ov : p # o => io'[p] = io[p]
    BY <1>a, <2>2 DEF TypeOK
  <2>5. call'[t] = [pc |-> "started", op |-> o, wait |-> wait]
        /\ \A u \in Thread : u # t => call'[u] = call[u]
    BY <1>a, <2>1 DEF TypeOK
  <2>6. CallerOf(t)'
    BY <2>3, <2>4, <2>5 DEF CallerOf
  <2>7. ASSUME NEW u \in Thread, u # t PROVE CallerOf(u)'
    <3>1. Inside(u) => call[u].op \in Ov /\ call[u].op # o
      BY <1>a, <2>1 DEF InCall, CallerStarted, CallerOf
    <3> QED BY <1>a, <1>b, <2>4, <2>5, <2>7, <3>1 DEF CallerStarted, CallerOf
  <2> QED BY <2>6, <2>7 DEF CallerStarted
<1>6. ASSUME NEW o \in Ov, NEW outcome \in {"success", "failure"}, NEW n \in Dword,
             Complete(o, outcome, n)
      PROVE CallerStarted'
  <2>1. io[o] \in Io
    BY <1>a, <1>6 DEF Complete, Pending, TypeOK
  <2>2. /\ io'[o] \in Io
        /\ io'[o].by = io[o].by
        /\ \A p \in Ov : p # o => io'[p] = io[p]
    BY <1>a, <1>6, <2>1 DEF Complete, TypeOK, Io, Dword
  <2>3. call' = call
    BY <1>6 DEF Complete
  <2>4. ASSUME NEW u \in Thread PROVE CallerOf(u)'
    BY <1>a, <1>b, <2>2, <2>3, Sentinels DEF CallerStarted, CallerOf
  <2> QED BY <2>4 DEF CallerStarted
<1>7. ASSUME NEW t \in Thread, Sleep(t) PROVE CallerStarted'
  <2>1. /\ Inside(t) /\ call[t].wait /\ io' = io
        /\ call' = [call EXCEPT ![t] = [@ EXCEPT !.pc = "asleep"]]
    BY <1>7 DEF Sleep
  <2>2. call[t] \in [pc : {"started", "asleep"}, op : Ov, wait : BOOLEAN]
    BY <1>a, <2>1 DEF Inside, TypeOK, Call
  <2>3. /\ call'[t].op = call[t].op /\ call'[t].wait = call[t].wait
        /\ \A u \in Thread : u # t => call'[u] = call[u]
    BY <1>a, <2>1, <2>2 DEF TypeOK
  <2>4. CallerOf(t)'
    BY <1>a, <2>1, <2>3 DEF CallerStarted, CallerOf
  <2>5. ASSUME NEW u \in Thread PROVE CallerOf(u)'
    BY <1>a, <1>b, <2>1, <2>3, <2>4 DEF CallerStarted, CallerOf
  <2> QED BY <2>5 DEF CallerStarted
<1> QED
  BY <1>1, <1>2, <1>3, <1>4, <1>5, <1>6, <1>7
     DEF Next, vars, InitializeWithEvent, SetEvent, Handle

LEMMA InvInit == Init => Inv
<1> SUFFICES ASSUME Init PROVE Inv
  OBVIOUS
<1>1. TypeOK
  BY DEF Init, TypeOK
<1>2. CallerStarted
  BY DEF Init, CallerStarted, CallerOf, Inside
<1> QED BY <1>1, <1>2 DEF Inv

LEMMA Invariance == Spec => []Inv
<1>1. Init => Inv
  BY InvInit
<1>2. Inv /\ [Next]_vars => Inv'
  BY TypeStep, CallerStep DEF Inv
<1> QED BY <1>1, <1>2, PTL DEF Spec

(* The variables keep their types; what is asked of the kernel, and what   *)
(* is answered, is a DWORD (read_overlapped_helper_, write_overlapped_     *)
(* helper_, read, write).                                                  *)
THEOREM TypeCorrect == Spec => []TypeOK
<1>1. Inv => TypeOK
  BY DEF Inv
<1> QED BY <1>1, Invariance, PTL

(* No waiting call ends with nullopt, whatever events the OVERLAPPED       *)
(* structures share: the dereference in read_overlapped_wait and in        *)
(* write_overlapped_wait is sound.                                         *)
THEOREM WaitsHaveACount == Spec => []WaitNeverNullopt
<1>1. Init => WaitNeverNullopt
  BY DEF Init, WaitNeverNullopt
<1>2. Inv /\ WaitNeverNullopt /\ [Next]_vars => WaitNeverNullopt'
  <2> SUFFICES ASSUME Inv, WaitNeverNullopt, [Next]_vars, NEW t \in Thread,
                      call'[t] # Away, call'[t].pc = "returned", call'[t].wait
               PROVE  call'[t].answer.kind # "nullopt"
    BY DEF WaitNeverNullopt
  <2>a. TypeOK /\ CallerStarted
    BY DEF Inv
  <2>1. CASE call'[t] = call[t]
    BY <2>1 DEF WaitNeverNullopt
  <2>2. ASSUME NEW u \in Thread, NEW o \in Ov, NEW wait \in BOOLEAN, Reject(u, o, wait)
        PROVE  call'[t] = call[t] \/ call'[t].answer = Error
    BY <2>a, <2>2 DEF Reject, Return, TypeOK
  <2>3. ASSUME NEW u \in Thread, NEW f \in SyncFile, NEW size \in Size, Transfer(u, f, size)
        PROVE  \/ call'[t] = call[t] \/ call'[t].answer = Error
               \/ \E n \in 0 .. ToDword(size) : call'[t].answer = Count(n)
    BY <2>a, <2>3 DEF Transfer, Return, TypeOK
  <2>4. ASSUME NEW u \in Thread, Look(u) \/ Wake(u)
        PROVE  call'[t] = call[t] \/ call'[t].answer.kind # "nullopt"
    <3>1. CASE u = t
      <4>1. call[t].wait = call'[t].wait
        BY <2>a, <2>4, <3>1, EndStep
      <4>2. call[u].wait => call'[u].answer.kind # "nullopt"
        BY <2>a, <2>4, EndStep
      <4> QED BY <3>1, <4>1, <4>2
    <3>2. CASE u # t
      BY <2>a, <2>4, <3>2, EndStep
    <3> QED BY <3>1, <3>2
  <2>5. ASSUME NEW u \in Thread, NEW f \in Handle, NEW o \in Ov, NEW size \in Size,
               NEW wait \in BOOLEAN, Issue(u, f, o, size, wait) \/ IssueSync(u, f, o, size, wait)
        PROVE  call'[t] = call[t]
    BY <2>a, <2>5 DEF Issue, Start, IssueSync, TypeOK
  <2>6. ASSUME NEW u \in Thread, Sleep(u) PROVE call'[t] = call[t]
    <3>1. call[u] \in [pc : {"started", "asleep"}, op : Ov, wait : BOOLEAN]
      BY <2>a, <2>6 DEF Sleep, Inside, TypeOK, Call
    <3>2. u = t => call'[t].pc = "asleep"
      BY <2>a, <2>6, <3>1 DEF Sleep, TypeOK
    <3> QED BY <2>a, <2>6, <3>2 DEF Sleep, TypeOK
  <2>7. Error.kind # "nullopt" /\ \A n : Count(n).kind # "nullopt"
    BY DEF Error, Count
  <2>8. CASE UNCHANGED call
    BY <2>1, <2>8
  <2>9. CASE Next /\ ~UNCHANGED call
    BY <2>1, <2>2, <2>3, <2>4, <2>5, <2>6, <2>7, <2>9, ZenonT(60)
       DEF Next, InitializeWithEvent, SetEvent, Complete, Handle
  <2> QED BY <2>8, <2>9 DEF vars
<1> QED BY <1>1, <1>2, Invariance, PTL DEF Spec

-----------------------------------------------------------------------------
(* An event of its own wakes a sleeper for its own operation only.         *)

(* The signal of another OVERLAPPED is not an event of o's own. *)
LEMMA SignalsApart ==
  ASSUME TypeOK, NEW o \in Ov, OwnEvent(o), NEW p \in Ov, p # o,
         hEvent[p] \in EventsFor[p], NEW f \in Handle
  PROVE  hEvent[o] \in Event /\ SignalOf(p, f) # hEvent[o]
<1>1. hEvent[o] \in Event
  BY DEF TypeOK, OwnEvent
<1>2. hEvent[p] # hEvent[o]
  BY DEF OwnEvent
<1> QED BY <1>1, <1>2, Constants DEF SignalOf

LEMMA EventStep == Inv /\ EventAwaits /\ [Next]_vars => EventAwaits'
<1> SUFFICES ASSUME Inv, EventAwaits, [Next]_vars PROVE EventAwaits'
  OBVIOUS
<1>a. TypeOK /\ CallerStarted
  BY DEF Inv
<1>b. ASSUME NEW o \in Ov, hEvent'[o] = hEvent[o], io'[o] = io[o],
             OwnEvent(o) /\ Pending(o) => (signal'[hEvent[o]] => signal[hEvent[o]])
      PROVE  Awaits(o)'
  BY <1>b DEF EventAwaits, Awaits, Pending, OwnEvent
<1>1. ASSUME NEW o \in Ov, NEW e \in Event \cup {NoEvent}, ~Pending(o),
             hEvent' = [hEvent EXCEPT ![o] = e], UNCHANGED <<signal, io, call>>
      PROVE EventAwaits'
  <2>1. ASSUME NEW p \in Ov PROVE Awaits(p)'
    <3>1. CASE p = o
      BY <1>1, <3>1 DEF Awaits, Pending
    <3>2. CASE p # o
      BY <1>a, <1>b, <1>1, <3>2 DEF TypeOK
    <3> QED BY <3>1, <3>2
  <2> QED BY <2>1 DEF EventAwaits
<1>2. CASE UNCHANGED <<hEvent, signal, io>>
  BY <1>b, <1>2 DEF EventAwaits
<1>3. ASSUME NEW t \in Thread, NEW f \in Handle, NEW o \in Ov, NEW size \in Size,
             NEW wait \in BOOLEAN, Issue(t, f, o, size, wait) \/ IssueSync(t, f, o, size, wait)
      PROVE EventAwaits'
  <2>1. hEvent[o] \in EventsFor[o] /\ hEvent' = hEvent
    BY <1>3 DEF Issue, IssueSync, Start
  <2>2. PICK state \in {"pending", "success"}, n \in Dword :
          io' = [io EXCEPT ![o] = [state |-> state, bytes |-> n, len |-> ToDword(size),
                                   file |-> f, by |-> t]]
    BY <1>3, Constants, DwordRange DEF Issue, Start, IssueSync, Dword
  <2>3. \E on \in BOOLEAN : signal' = [signal EXCEPT ![SignalOf(o, f)] = on]
    BY <1>3 DEF Issue, Start, IssueSync
  <2>4. Awaits(o)'
    <3>1. CASE Issue(t, f, o, size, wait)
      <4>1. OwnEvent(o) => hEvent[o] \in Event /\ SignalOf(o, f) = hEvent[o]
        BY <1>a DEF OwnEvent, TypeOK, SignalOf
      <4>2. signal' = [signal EXCEPT ![SignalOf(o, f)] = FALSE]
        BY <3>1 DEF Issue, Start
      <4>3. OwnEvent(o) => ~signal'[hEvent[o]]
        BY <1>a, <4>1, <4>2 DEF TypeOK, Waitable
      <4> QED BY <2>1, <4>3 DEF Awaits, OwnEvent
    <3>2. CASE IssueSync(t, f, o, size, wait)
      BY <1>a, <3>2 DEF IssueSync, Awaits, Pending, TypeOK
    <3> QED BY <1>3, <3>1, <3>2
  <2>5. ASSUME NEW p \in Ov, p # o PROVE Awaits(p)'
    <3>1. OwnEvent(p) => hEvent[p] \in Event /\ SignalOf(o, f) # hEvent[p]
      BY <1>a, <2>1, <2>5, SignalsApart
    <3>2. OwnEvent(p) => signal'[hEvent[p]] = signal[hEvent[p]]
      BY <1>a, <2>3, <3>1 DEF TypeOK, Waitable
    <3>3. io'[p] = io[p]
      BY <1>a, <2>2, <2>5 DEF TypeOK
    <3> QED BY <1>b, <2>1, <3>2, <3>3
  <2> QED BY <2>4, <2>5 DEF EventAwaits
<1>4. ASSUME NEW t \in Thread, NEW f \in SyncFile, NEW size \in Size, Transfer(t, f, size)
      PROVE EventAwaits'
  <2>1. ASSUME NEW o \in Ov, OwnEvent(o) PROVE signal'[hEvent[o]] = signal[hEvent[o]]
    BY <1>a, <1>4, <2>1, Constants DEF Transfer, TypeOK, Waitable, Handle, OwnEvent
  <2>2. UNCHANGED <<hEvent, io>>
    BY <1>4 DEF Transfer
  <2> QED BY <1>b, <2>1, <2>2 DEF EventAwaits
<1>5. ASSUME NEW o \in Ov, NEW outcome \in {"success", "failure"}, NEW n \in Dword,
             Complete(o, outcome, n)
      PROVE EventAwaits'
  <2>1. /\ Pending(o)
        /\ hEvent' = hEvent
        /\ hEvent[o] \in EventsFor[o]
        /\ io[o] \in Io
    BY <1>a, <1>5 DEF Complete, EventAwaits, Awaits, Pending, TypeOK
  <2>2. io'[o].state = outcome /\ \A p \in Ov : p # o => io'[p] = io[p]
    BY <1>a, <1>5, <2>1 DEF Complete, TypeOK, Io
  <2>3. Awaits(o)'
    BY <2>2 DEF Awaits, Pending
  <2>4. ASSUME NEW p \in Ov, p # o PROVE Awaits(p)'
    <3>1. io[o].file \in Handle
      BY <2>1 DEF Io
    <3>2. OwnEvent(p) => hEvent[p] \in Event /\ SignalOf(o, io[o].file) # hEvent[p]
      BY <1>a, <2>1, <2>4, <3>1, SignalsApart
    <3>3. signal' = [signal EXCEPT ![SignalOf(o, io[o].file)] = TRUE]
      BY <1>5 DEF Complete
    <3>4. OwnEvent(p) => signal'[hEvent[p]] = signal[hEvent[p]]
      BY <1>a, <3>2, <3>3 DEF TypeOK, Waitable
    <3> QED BY <1>b, <2>1, <2>2, <2>4, <3>4
  <2> QED BY <2>3, <2>4 DEF EventAwaits
<1>6. ASSUME NEW t \in Thread, Wake(t) PROVE EventAwaits'
  <2>1. UNCHANGED <<hEvent, io>>
    BY <1>6 DEF Wake
  <2>2. \A e \in Event : signal'[e] => signal[e]
    BY <1>a, <1>6 DEF Wake, TypeOK, Waitable
  <2>3. ASSUME NEW o \in Ov, OwnEvent(o) PROVE hEvent[o] \in Event
    BY <1>a, <2>3 DEF OwnEvent, TypeOK
  <2> QED BY <1>b, <2>1, <2>2, <2>3 DEF EventAwaits
<1>7. ASSUME NEW o \in Ov, NEW e \in Event, InitializeWithEvent(o, e) PROVE EventAwaits'
  BY <1>1, <1>7 DEF InitializeWithEvent, AtRest
<1>8. ASSUME NEW o \in Ov, NEW e \in Event \cup {NoEvent}, SetEvent(o, e) PROVE EventAwaits'
  BY <1>1, <1>8 DEF SetEvent, AtRest
<1> QED
  BY <1>2, <1>3, <1>4, <1>5, <1>6, <1>7, <1>8
     DEF Next, vars, Reject, Look, Sleep, Handle

(* A waiting call ends after its operation, and with its outcome.          *)
LEMMA AnswerStep ==
  ASSUME Inv, EventAwaits, [Next]_vars, NEW t \in Thread, Inside(t), ~Inside(t)',
         OwnEvent(call[t].op)
  PROVE  /\ io[call[t].op].by = t
         /\ call'[t].answer = Outcome(call[t].op)
         /\ call[t].wait => ~Pending(call[t].op)
<1> DEFINE o == call[t].op
<1>a. TypeOK /\ CallerStarted
  BY DEF Inv
<1>b. o \in Ov /\ io[o] \in Io /\ io[o].by = t /\ call[t].wait \in BOOLEAN
  BY <1>a DEF CallerStarted, CallerOf, TypeOK
<1>1. ASSUME NEW u \in Thread, u # t, \A v \in Thread : v # u => call'[v] = call[v]
      PROVE  FALSE
  BY <1>1, SMTT(60) DEF Inside
<1>2. Look(t) \/ Wake(t)
  <2>1. CASE UNCHANGED call
    BY <2>1 DEF Inside
  <2>2. ASSUME NEW u \in Thread,
               \/ \E p \in Ov, wait \in BOOLEAN : Reject(u, p, wait)
               \/ \E f \in SyncFile, size \in Size : Transfer(u, f, size)
               \/ \E f \in Handle, p \in Ov, size \in Size, wait \in BOOLEAN :
                    Issue(u, f, p, size, wait) \/ IssueSync(u, f, p, size, wait)
        PROVE  FALSE
    <3>1. ~Inside(u)
      BY <2>2 DEF Reject, Transfer, Issue, IssueSync, Start
    <3>2. \A v \in Thread : v # u => call'[v] = call[v]
      BY <1>a, <2>2 DEF Reject, Transfer, Issue, IssueSync, Start, Return, TypeOK
    <3> QED BY <1>1, <3>1, <3>2
  <2>3. ASSUME NEW u \in Thread, Sleep(u) PROVE FALSE
    <3>1. \A v \in Thread : v # u => call'[v] = call[v]
      BY <1>a, <2>3 DEF Sleep, TypeOK
    <3>2. call[u] \in [pc : {"started", "asleep"}, op : Ov, wait : BOOLEAN]
      BY <1>a, <2>3 DEF Sleep, Inside, TypeOK, Call
    <3>3. call'[u] = [call[u] EXCEPT !.pc = "asleep"]
      BY <1>a, <2>3 DEF Sleep, TypeOK
    <3>4. call'[u] \in Call /\ call'[u].pc = "asleep"
      BY <3>2, <3>3 DEF Call
    <3>5. Inside(u)'
      BY <3>4, Sentinels DEF Inside
    <3> QED BY <1>1, <3>1, <3>5
  <2>4. ASSUME NEW u \in Thread, Look(u) \/ Wake(u) PROVE u = t
    <3>1. \A v \in Thread : v # u => call'[v] = call[v]
      BY <1>a, <2>4, EndStep
    <3> QED BY <1>1, <3>1
  <2> QED
    BY <2>1, <2>2, <2>3, <2>4
       DEF Next, vars, InitializeWithEvent, SetEvent, Complete, Handle
<1>3. call[t].wait => ~Pending(o)
  <2>1. CASE Look(t)
    BY <2>1 DEF Look
  <2>2. CASE Wake(t)
    <3>1. signal[hEvent[o]]
      BY <2>2 DEF Wake, SignalOf, OwnEvent
    <3> QED BY <1>b, <3>1 DEF EventAwaits, Awaits
  <2> QED BY <1>2, <2>1, <2>2
<1>4. PICK awake \in BOOLEAN : Finish(t, awake) /\ (awake => call[t].wait)
  <2>1. Look(t) => Finish(t, FALSE)
    BY DEF Look
  <2>2. Wake(t) => Finish(t, TRUE) /\ call[t].wait
    BY <1>a DEF Wake, CallerStarted, CallerOf
  <2> QED BY <1>2, <2>1, <2>2
<1>5. PICK told \in Told(o, awake) :
        Return(t, call[t].wait, AnswerTo(told, call[t].wait))
  BY <1>4 DEF Finish
<1>6. call'[t].answer = AnswerTo(told, call[t].wait)
  BY <1>a, <1>5 DEF Return, TypeOK
<1>7. AnswerTo(told, call[t].wait) = Outcome(o)
  <2>1. CASE io[o].state = "success"
    BY <2>1 DEF Told, AnswerTo, Outcome
  <2>2. CASE io[o].state = "failure"
    BY <2>2 DEF Told, AnswerTo, Outcome
  <2>3. CASE io[o].state = "pending"
    <3>1. Pending(o)
      BY <1>b, <2>3, Sentinels DEF Pending
    <3>2. ~call[t].wait /\ ~awake
      BY <1>3, <1>4, <3>1
    <3>3. told = [ok |-> FALSE, err |-> "io_incomplete"]
      BY <2>3, <3>2 DEF Told
    <3> QED BY <2>3, <3>2, <3>3 DEF AnswerTo, Outcome
  <2> QED BY <1>b, <2>1, <2>2, <2>3 DEF Io
<1> QED BY <1>b, <1>3, <1>6, <1>7

(* A call that started an operation with an event of its own answers with  *)
(* that operation's outcome, and a waiting call not before it is complete, *)
(* whatever other calls do (read_overlapped_wait, read_overlapped).        *)
THEOREM OwnEventsAnswer == Spec => AnswersItsOwnIo
<1>1. Init => EventAwaits
  BY DEF Init, EventAwaits, Awaits, Pending
<1>2. Inv /\ EventAwaits /\ [Next]_vars => EventAwaits'
  BY EventStep
<1>3. Inv /\ EventAwaits /\ [Next]_vars =>
        [\A t \in Thread :
           LET o == call[t].op IN
             Inside(t) /\ ~Inside(t)' /\ OwnEvent(o) =>
               /\ io[o].by = t
               /\ call'[t].answer = Outcome(o)
               /\ call[t].wait => ~Pending(o)]_vars
  BY AnswerStep, SMTT(60)
<1> QED BY <1>1, <1>2, <1>3, Invariance, PTL DEF Spec, AnswersItsOwnIo

(* A caller's OVERLAPPED keeps its event during the call.                  *)
CallerHasEvent ==
  \A t \in Thread : Inside(t) => hEvent[call[t].op] \in EventsFor[call[t].op]

(* How calls go on: a caller stays at its operation, or has just begun.    *)
LEMMA CallStep ==
  ASSUME Inv, [Next]_vars, NEW t \in Thread, Inside(t)'
  PROVE  \/ Inside(t) /\ call'[t].op = call[t].op
         \/ /\ call'[t].pc = "started"
            /\ hEvent'[call'[t].op] \in EventsFor[call'[t].op]
<1>a. TypeOK /\ CallerStarted
  BY DEF Inv
<1>1. CASE call'[t] = call[t]
  BY <1>1 DEF Inside
<1>2. ASSUME NEW u \in Thread, NEW f \in Handle, NEW o \in Ov, NEW size \in Size,
             NEW wait \in BOOLEAN, Issue(u, f, o, size, wait) \/ IssueSync(u, f, o, size, wait)
      PROVE  \/ call'[t] = call[t]
             \/ /\ call'[t].pc = "started"
                /\ hEvent'[call'[t].op] \in EventsFor[call'[t].op]
  <2>1. /\ call' = [call EXCEPT ![u] = [pc |-> "started", op |-> o, wait |-> wait]]
        /\ hEvent[o] \in EventsFor[o]
        /\ hEvent' = hEvent
    BY <1>2 DEF Issue, Start, IssueSync
  <2>2. CASE u = t
    <3>1. call'[t] = [pc |-> "started", op |-> o, wait |-> wait]
      BY <1>a, <2>1, <2>2 DEF TypeOK
    <3> QED BY <2>1, <3>1
  <2>3. CASE u # t
    BY <1>a, <2>1, <2>3 DEF TypeOK
  <2> QED BY <2>2, <2>3
<1>3. ASSUME NEW u \in Thread, Sleep(u)
      PROVE  call'[t] = call[t] \/ (Inside(t) /\ call'[t].op = call[t].op)
  <2>1. Inside(u) /\ call'= [call EXCEPT ![u] = [call[u] EXCEPT !.pc = "asleep"]]
    BY <1>3 DEF Sleep
  <2>2. CASE u = t
    <3>1. call[t] \in [pc : {"started", "asleep"}, op : Ov, wait : BOOLEAN]
      BY <1>a, <2>1, <2>2 DEF Inside, TypeOK, Call
    <3>2. call'[t] = [call[t] EXCEPT !.pc = "asleep"]
      BY <1>a, <2>1, <2>2 DEF TypeOK
    <3> QED BY <2>1, <2>2, <3>1, <3>2
  <2>3. CASE u # t
    BY <1>a, <2>1, <2>3 DEF TypeOK
  <2> QED BY <2>2, <2>3
<1>4. ASSUME NEW u \in Thread,
             \/ \E p \in Ov, wait \in BOOLEAN : Reject(u, p, wait)
             \/ \E f \in SyncFile, size \in Size : Transfer(u, f, size)
      PROVE  call'[t] = call[t]
  <2>1. ~Inside(u)' /\ \A v \in Thread : v # u => call'[v] = call[v]
    BY <1>a, <1>4 DEF Reject, Transfer, Return, Inside, TypeOK
  <2> QED BY <2>1
<1>5. ASSUME NEW u \in Thread, Look(u) \/ Wake(u) PROVE call'[t] = call[t]
  BY <1>a, <1>5, EndStep
<1> QED
  BY <1>1, <1>2, <1>3, <1>4, <1>5
     DEF Next, vars, InitializeWithEvent, SetEvent, Complete, Handle

(* The OVERLAPPED of a call is left alone. *)
LEMMA EventKept ==
  ASSUME Inv, [Next]_vars, NEW o \in Ov, InCall(o)
  PROVE  hEvent'[o] = hEvent[o]
<1>1. hEvent \in [Ov -> Event \cup {NoEvent}]
  BY DEF Inv, TypeOK
<1>2. ASSUME NEW p \in Ov, NEW e, AtRest(p), hEvent' = [hEvent EXCEPT ![p] = e]
      PROVE  hEvent'[o] = hEvent[o]
  BY <1>1, <1>2 DEF AtRest
<1> QED
  BY <1>2, ZenonT(60) DEF Next, vars, InitializeWithEvent, SetEvent, Reject, Issue, Start, IssueSync,
              Transfer, Complete, Look, Sleep, Wake

LEMMA CallerEventStep == Inv /\ CallerHasEvent /\ [Next]_vars => CallerHasEvent'
<1> SUFFICES ASSUME Inv, CallerHasEvent, [Next]_vars, NEW t \in Thread, Inside(t)'
             PROVE  hEvent'[call'[t].op] \in EventsFor[call'[t].op]
  BY DEF CallerHasEvent
<1>a. TypeOK /\ CallerStarted
  BY DEF Inv
<1>1. CASE Inside(t) /\ call'[t].op = call[t].op
  <2>1. call[t].op \in Ov /\ InCall(call[t].op)
    BY <1>a, <1>1 DEF CallerStarted, CallerOf, InCall
  <2>3. hEvent'[call[t].op] = hEvent[call[t].op]
    BY <2>1, EventKept
  <2> QED BY <1>1, <2>3 DEF CallerHasEvent
<1> QED BY <1>1, CallStep

(* A sleeper was asleep, and its operation is where it was, unless this    *)
(* step puts it to sleep, for which its operation must be pending.         *)
LEMMA SleeperStep ==
  ASSUME Inv, [Next]_vars, NEW t \in Thread, Inside(t)', call'[t].pc = "asleep"
  PROVE  /\ call'[t].op = call[t].op
         /\ Inside(t)
         /\ call[t].pc = "asleep" \/ (Pending(call[t].op) /\ io' = io)
<1>a. TypeOK /\ CallerStarted
  BY DEF Inv
<1>b. Inside(t) /\ call'[t].op = call[t].op
  BY CallStep
<1>1. CASE call'[t] = call[t]
  BY <1>b, <1>1
<1>2. ASSUME NEW u \in Thread, Sleep(u), call'[t] # call[t]
      PROVE  Pending(call[t].op) /\ io' = io
  <2>1. u = t
    BY <1>a, <1>2 DEF Sleep, TypeOK
  <2> QED BY <1>2, <2>1 DEF Sleep
<1>3. ASSUME NEW u \in Thread,
             \/ \E p \in Ov, wait \in BOOLEAN : Reject(u, p, wait)
             \/ \E f \in SyncFile, size \in Size : Transfer(u, f, size)
             \/ \E f \in Handle, p \in Ov, size \in Size, wait \in BOOLEAN :
                  Issue(u, f, p, size, wait) \/ IssueSync(u, f, p, size, wait)
      PROVE  call'[t] = call[t]
  <2>1. ~Inside(u) /\ \A v \in Thread : v # u => call'[v] = call[v]
    BY <1>a, <1>3, SMTT(60) DEF Reject, Transfer, Issue, IssueSync, Start, Return, TypeOK
  <2> QED BY <1>b, <2>1
<1>4. ASSUME NEW u \in Thread, Look(u) \/ Wake(u) PROVE call'[t] = call[t]
  <2>1. ~Inside(u)' /\ \A v \in Thread : v # u => call'[v] = call[v]
    BY <1>a, <1>4, EndStep, Zenon
  <2> QED BY <2>1, Zenon
<1> QED
  <2>1. CASE UNCHANGED call
    BY <1>1, <2>1
  <2>2. CASE \E u \in Thread : Sleep(u)
    BY <1>b, <1>1, <1>2, <2>2, Zenon
  <2>3. CASE \/ \E u \in Thread, p \in Ov, wait \in BOOLEAN : Reject(u, p, wait)
             \/ \E u \in Thread, f \in SyncFile, size \in Size : Transfer(u, f, size)
             \/ \E u \in Thread, f \in Handle, p \in Ov, size \in Size, wait \in BOOLEAN :
                  Issue(u, f, p, size, wait) \/ IssueSync(u, f, p, size, wait)
    BY <1>1, <1>3, <2>3, Zenon
  <2>4. CASE \E u \in Thread : Look(u) \/ Wake(u)
    BY <1>1, <1>4, <2>4, Zenon
  <2>5. CASE Next /\ ~UNCHANGED call
    BY <2>2, <2>3, <2>4, <2>5, Zenon
       DEF Next, InitializeWithEvent, SetEvent, Complete, Handle
  <2> QED BY <2>1, <2>5, Zenon DEF vars

(* A step leaves the signal of a completed operation of a sleeper alone.   *)
LEMMA SignalStep ==
  ASSUME Inv, CallerHasEvent, EventAwaits, [Next]_vars,
         NEW t \in Thread, Inside(t), call[t].pc = "asleep", Inside(t)',
         call'[t].pc = "asleep",
         OwnEvent(call[t].op), ~Pending(call[t].op), signal[hEvent[call[t].op]]
  PROVE  signal'[hEvent[call[t].op]]
<1> DEFINE o == call[t].op
           e == hEvent[o]
<1>a. TypeOK /\ CallerStarted
  BY DEF Inv
<1>b. o \in Ov /\ InCall(o) /\ e \in Event
  <2>1. o \in Ov /\ InCall(o)
    BY <1>a DEF CallerStarted, CallerOf, InCall
  <2> QED BY <1>a, <2>1 DEF OwnEvent, TypeOK
<1>1. ASSUME NEW u \in Thread, NEW f \in Handle, NEW p \in Ov, NEW size \in Size,
             NEW wait \in BOOLEAN, Issue(u, f, p, size, wait) \/ IssueSync(u, f, p, size, wait)
      PROVE  signal'[e]
  <2>1. p # o /\ hEvent[p] \in EventsFor[p]
    BY <1>b, <1>1 DEF Issue, IssueSync, Start, AtRest
  <2>2. SignalOf(p, f) # e
    BY <1>a, <1>b, <2>1, SignalsApart
  <2>3. \E on \in BOOLEAN : signal' = [signal EXCEPT ![SignalOf(p, f)] = on]
    BY <1>1 DEF Issue, IssueSync, Start
  <2> QED BY <1>a, <1>b, <2>2, <2>3 DEF TypeOK, Waitable
<1>2. ASSUME NEW u \in Thread, Wake(u) PROVE signal'[e]
  <2>1. u # t
    <3>1. ~Inside(u)'
      BY <1>a, <1>2, EndStep
    <3> QED BY <3>1
  <2>2. /\ call[u].op \in Ov /\ io[call[u].op].by = u /\ Inside(u)
        /\ io[call[u].op].file \in Handle
    <3>1. call[u].op \in Ov /\ io[call[u].op].by = u /\ Inside(u) /\ io[call[u].op] # Unused
      BY <1>a, <1>2 DEF Wake, CallerStarted, CallerOf
    <3> QED BY <1>a, <3>1 DEF TypeOK, Io
  <2>3. call[u].op # o
    BY <1>a, <2>1, <2>2 DEF CallerStarted, CallerOf
  <2>4. hEvent[call[u].op] \in EventsFor[call[u].op]
    BY <2>2 DEF CallerHasEvent
  <2>5. SignalOf(call[u].op, io[call[u].op].file) # e
    BY <1>a, <1>b, <2>2, <2>3, <2>4, SignalsApart
  <2>6. \/ signal' = signal
        \/ signal' = [signal EXCEPT ![SignalOf(call[u].op, io[call[u].op].file)] = FALSE]
    BY <1>2 DEF Wake
  <2> QED BY <1>a, <1>b, <2>5, <2>6 DEF TypeOK, Waitable
<1>3. ASSUME NEW x, signal' = [signal EXCEPT ![x] = TRUE] PROVE signal'[e]
  BY <1>a, <1>b, <1>3 DEF TypeOK, Waitable
<1>4. CASE UNCHANGED signal
  BY <1>4
<1> QED
  BY <1>1, <1>2, <1>3, <1>4, ZenonT(60)
     DEF Next, vars, InitializeWithEvent, SetEvent, Reject, Transfer, Complete, Look, Sleep,
         Handle

(* No wake-up is lost on an event of its own: its signal outlasts whatever *)
(* completes, begins or sleeps before the caller wakes                     *)
(* (read_overlapped_wait, write_overlapped_wait).                          *)
THEOREM NoWakeupIsLost == Spec => []NoLostWakeup
<1>1. Init => EventAwaits /\ CallerHasEvent /\ NoLostWakeup
  BY DEF Init, EventAwaits, Awaits, CallerHasEvent, NoLostWakeup, Pending, Inside
<1>2. Inv /\ EventAwaits /\ CallerHasEvent /\ [Next]_vars
        => EventAwaits' /\ CallerHasEvent'
  BY EventStep, CallerEventStep
<1>3. ASSUME Inv, EventAwaits, CallerHasEvent, NoLostWakeup, [Next]_vars
      PROVE  NoLostWakeup'
  <2> SUFFICES ASSUME NEW t \in Thread, Inside(t)', call'[t].pc = "asleep",
                      ~Pending(call[t].op)', OwnEvent(call[t].op)'
               PROVE  signal'[SignalOf(call[t].op, io[call[t].op].file)']
    BY DEF NoLostWakeup
  <2> DEFINE o == call[t].op
  <2>a. TypeOK /\ CallerStarted
    BY <1>3 DEF Inv
  <2>1. /\ call'[t].op = o
        /\ Inside(t)
        /\ call[t].pc = "asleep" \/ (Pending(o) /\ io' = io)
    BY <1>3, SleeperStep
  <2>2. ~(io'[o] # Unused /\ io'[o].state = "pending")
    BY <2>1 DEF Pending
  <2>3. call[t].pc = "asleep"
    BY <2>1, <2>2 DEF Pending
  <2>4. o \in Ov /\ InCall(o)
    BY <2>a, <2>1 DEF CallerStarted, CallerOf, InCall
  <2>5. hEvent'[o] = hEvent[o]
    BY <1>3, <2>4, EventKept
  <2>6. OwnEvent(o) /\ hEvent[o] \in Event
    <3>1. OwnEvent(o)
      BY <2>1, <2>5 DEF OwnEvent
    <3> QED BY <2>a, <2>4, <3>1 DEF OwnEvent, TypeOK
  <2>7. signal'[hEvent[o]]
    <3>1. CASE ~Pending(o)
      <4>1. signal[hEvent[o]]
        BY <1>3, <2>1, <2>3, <2>6, <3>1 DEF NoLostWakeup, SignalOf, OwnEvent
      <4> QED BY <1>3, <2>1, <2>3, <2>6, <3>1, <4>1, SignalStep
    <3>2. CASE Pending(o)
      <4>1. io'[o] # io[o]
        BY <2>2, <3>2 DEF Pending
      <4>2. ASSUME NEW p \in Ov, ~InCall(p), NEW v, io' = [io EXCEPT ![p] = v]
            PROVE  FALSE
        BY <2>a, <2>4, <4>1, <4>2 DEF TypeOK
      <4>3. PICK p \in Ov, outcome \in {"success", "failure"}, n \in Dword :
              Complete(p, outcome, n)
        BY <1>3, <4>1, <4>2, ZenonT(60)
           DEF Next, vars, InitializeWithEvent, SetEvent, Reject, Issue, Start, IssueSync,
               AtRest, Transfer, Look, Sleep, Wake
      <4>4. p = o
        BY <2>a, <2>4, <4>1, <4>3 DEF Complete, TypeOK
      <4> QED BY <2>a, <2>4, <2>6, <4>3, <4>4
              DEF Complete, SignalOf, TypeOK, Waitable, OwnEvent
    <3> QED BY <3>1, <3>2
  <2> QED BY <2>1, <2>5, <2>6, <2>7 DEF SignalOf, OwnEvent
<1> QED BY <1>1, <1>2, <1>3, Invariance, PTL DEF Spec
=============================================================================
