------------------------------- MODULE IoSpanMut -------------------------------
(***************************************************************************)
(* Class laio::net::IoSpanMut: a WSABUF, which is a pointer and an unsigned*)
(* length of 32 bits, that advances through a buffer.  Positions are       *)
(* relative to the start of the buffer; the pointer is wide enough for all *)
(* of them.                                                                *)
(***************************************************************************)
EXTENDS Integers

CONSTANTS
  Length,      \* lengths of the buffers
  Step,        \* arguments of advance
  LenSize,     \* sizeof(ULONG), 4
  UlongLimit,  \* 2^32: a ULONG holds 0 .. UlongLimit - 1
  MaxAt,       \* bound on the position
  NoSpan,      \* no object yet, and no view taken
  Terminated   \* what a view of a negative size does to the process

ASSUME SpanConstants ==
  /\ UlongLimit \in Nat
  /\ UlongLimit > 1
  /\ LenSize \in Nat
  /\ MaxAt \in Nat
  /\ Step \subseteq Nat
  /\ Length \subseteq 0 .. UlongLimit - 1

VARIABLES
  size,   \* the length the object was made with
  ptr,    \* where the pointer is
  len,    \* the length
  view    \* what as_span or as_mut_span returned last

span == <<size, ptr, len, view>>

Ulong == 0 .. UlongLimit - 1

SpanInit == size = NoSpan /\ ptr = 0 /\ len = 0 /\ view = NoSpan

Alive == size # NoSpan /\ view # Terminated

MakeSpan(n) ==
  /\ size = NoSpan
  /\ size' = n
  /\ len' = n
  /\ UNCHANGED <<ptr, view>>

(* create: the length is the size of one unsigned char.                   *)
CreateSpan == MakeSpan(1)

(* MakeSpan a WSABUF. *)
WrapBuffer(n) == MakeSpan(n)

(* The pointer moved and not the length. *)
AdvancePointerOnly(n) ==
  /\ Alive
  /\ ptr + n <= MaxAt
  /\ n <= LenSize
  /\ ptr' = ptr + n
  /\ UNCHANGED <<size, len, view>>

(* n is compared with the size of the member len, not with its value; an   *)
(* n that is too large is an error and changes nothing.                    *)
Advance(n) ==
  /\ Alive
  /\ ptr + n <= MaxAt
  /\ IF LenSize < n THEN UNCHANGED <<ptr, len>>
     ELSE /\ len' = (len - n) % UlongLimit
          /\ ptr' = ptr + n
  /\ UNCHANGED <<size, view>>

(* static_cast<int>. *)
AsInt(n) == IF n < UlongLimit \div 2 THEN n ELSE n - UlongLimit

(* as_span, as_mut_span.  A gsl::span of negative size terminates.         *)
AsSpan ==
  /\ Alive
  /\ view' = IF AsInt(len) < 0 THEN Terminated ELSE [at |-> ptr, len |-> AsInt(len)]
  /\ UNCHANGED <<size, ptr, len>>

SpanNext ==
  \/ CreateSpan
  \/ \E n \in Length : WrapBuffer(n)
  \/ \E n \in Step : Advance(n)
  \/ AsSpan

SpanSpec == SpanInit /\ [][SpanNext]_span

-----------------------------------------------------------------------------
(* Properties. *)

SpanTypeOK ==
  /\ size \in Ulong \cup {NoSpan}
  /\ ptr \in 0 .. MaxAt
  /\ len \in Ulong
  /\ view \in [at : 0 .. MaxAt, len : 0 .. UlongLimit \div 2] \cup {NoSpan, Terminated}

(* A view taken while the pointer was within the buffer is exactly the     *)
(* rest of the buffer.  Where it was past the end: see StaysInBuffer.      *)
ViewIsTheRest ==
  view \notin {NoSpan, Terminated} /\ view.at <= size => view.at + view.len = size

(* "Advancing out of range" (IoSpanMut.h:38) does not happen: pointer and  *)
(* length stay the rest of the buffer.  It does happen, four bytes at a    *)
(* time: advance compares with the size of the member that has the length, *)
(* and the length underflows.                                              *)
StaysInBuffer == size # NoSpan => ptr + len = size
=============================================================================
