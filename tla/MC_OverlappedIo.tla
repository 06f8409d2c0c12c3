----------------------------- MODULE MC_OverlappedIo -----------------------------
(* Instances of OverlappedIo for TLC. *)
EXTENDS OverlappedIo, TLC

CONSTANTS f, s, o1, o2, e1

(* Each OVERLAPPED has an event of its own, or none. *)
OwnOrNone == o1 :> {e1, NoEvent} @@ o2 :> {NoEvent}

(* Both have the same event, or none. *)
SharedOrNone == [o \in {o1, o2} |-> {e1, NoEvent}]
=============================================================================
