-------------------------- MODULE MC_CompletionPort --------------------------
(* Instances of CompletionPort: wrappers, ports and callers are            *)
(* interchangeable, operations and files are not (FileOf ties them).       *)
EXTENDS CompletionPort, TLC

CONSTANTS x1, x2, f1, f2

FilePerOp == (x1 :> f1) @@ (x2 :> f2)
OneFile == (x1 :> f1) @@ (x2 :> f1)
OnlyFile == x1 :> f1

(* With DwordLimit = 8, INFINITE is 7.  In milliseconds: no timeout and    *)
(* zero; the ones whose DWORD is INFINITE; and the ones whose is not,      *)
(* negative or wrapping ones included.                                     *)
Plain == {Nullopt, 0}
Unlucky == {Nullopt, -1, 7}
Lucky == {Nullopt, 0, -3, 8}

Symmetry == Permutations(Thread) \cup Permutations(Cp) \cup Permutations(Port)
=============================================================================
