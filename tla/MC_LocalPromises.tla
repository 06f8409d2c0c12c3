--------------------------- MODULE MC_LocalPromises ---------------------------
(***************************************************************************)
(* The classes of LocalClasses used in turn, by an application that has an *)
(* object of each, and the promises in their comments that do not hold.    *)
(* Every constant is as small as it can be for all of them to break.       *)
(***************************************************************************)
EXTENDS LocalClasses

(* "0", a text of one field. *)
OneField == {<<0>>}

TogetherNext ==
  \/ Next /\ UNCHANGED <<values, sockets, span>>
  \/ ValueNext /\ UNCHANGED <<parse, print, sockets, span>>
  \/ SocketNext /\ UNCHANGED <<parse, print, values, span>>
  \/ SpanNext /\ UNCHANGED <<parse, print, values, sockets>>

TogetherSpec == LocalInit /\ [][TogetherNext]_<<parse, print, values, sockets, span>>

(* Each of these is a promise that the comment of its definition quotes    *)
(* from the code.  They concern different objects, so that one state can   *)
(* break them all; a state that breaks this disjunction is one.  In the    *)
(* shortest counterexample from accepts "0", its mapped address prints as  *)
(* "::", a flow information and a port are wrong in a socket address, its  *)
(* copy is not equal to it, and a span has left its buffer.                *)
SomePromiseKept ==
  \/ PreciselyThreePeriods
  \/ TextDenotesAddress
  \/ FlowInfoTold
  \/ CopiesEqual
  \/ StaysInBuffer
=============================================================================
