---------------------------- MODULE UniqueResource ----------------------------
(***************************************************************************)
(* What class Handle promises its users, without handle values, wrappers   *)
(* or a kernel table: every resource has at most one owner, is released    *)
(* once and by its owner, and is never used for anything again.  Replace   *)
(* is the class's own deviation from unique_ptr: what the target held      *)
(* stays open and nobody owns it any more.                                 *)
(***************************************************************************)

CONSTANTS Holder, Resource

VARIABLES
  owners,   \* who may release each resource
  live,     \* resources that exist now
  used,     \* resources that were created so far
  defined   \* FALSE once the program has undefined behaviour

vars == <<owners, live, used, defined>>

Init ==
  /\ owners = [r \in Resource |-> {}]
  /\ live = {}
  /\ used = {}
  /\ defined = TRUE

Acquire(x, r) ==
  /\ r \notin used
  /\ owners' = [owners EXCEPT ![r] = {x}]
  /\ live' = live \cup {r}
  /\ used' = used \cup {r}

Transfer(x, y, r) ==
  /\ owners[r] = {x}
  /\ r \in live
  /\ owners' = [owners EXCEPT ![r] = {y}]
  /\ UNCHANGED <<live, used>>

(* x takes over whatever y owns, and abandons what it owned itself, which  *)
(* includes all of it when x is y.                                         *)
Replace(x, y) ==
  /\ owners' = [r \in Resource |-> IF x \in owners[r] THEN {}
                                   ELSE IF y \in owners[r] THEN {x}
                                   ELSE owners[r]]
  /\ UNCHANGED <<live, used>>

Release(x, r) ==
  /\ owners[r] = {x}
  /\ owners' = [owners EXCEPT ![r] = {}]
  /\ live' = live \ {r}
  /\ UNCHANGED used

Keeps == 
  \/ \E x \in Holder, r \in Resource : Acquire(x, r) \/ Release(x, r)
  \/ \E x, y \in Holder, r \in Resource : Transfer(x, y, r)
  \/ \E x, y \in Holder : Replace(x, y)

Break ==
  /\ defined' = FALSE
  /\ owners' \in [Resource -> SUBSET Holder]
  /\ live' \in SUBSET Resource
  /\ used' \in SUBSET Resource

Next == (defined /\ Keeps /\ UNCHANGED defined) \/ Break

Spec == Init /\ [][Next]_vars
=============================================================================
