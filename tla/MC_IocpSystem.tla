---------------------------- MODULE MC_IocpSystem ----------------------------
(* An instance of IocpSystem for TLC: two operations on one file, one      *)
(* after the other with the same OVERLAPPED, which has its own event.      *)
EXTENDS IocpSystem, TLC

CONSTANTS f, o1, e1, x1, x2

OneFile == [x \in {x1, x2} |-> f]
OneOv == [x \in {x1, x2} |-> o1]
OwnEvent == o1 :> {e1}

Symmetry == Permutations(Thread)
=============================================================================
