----------------------------- MODULE ValueObjects -----------------------------
(***************************************************************************)
(* What a class of plain values promises: an object is a record of fields, *)
(* a copy is equal to its original, an object moved from is as if it had   *)
(* just been default-constructed, and a setter changes one field.          *)
(***************************************************************************)
CONSTANTS
  Object,   \* storage for objects
  Class,
  Default,  \* the fields of a default-constructed object of each class
  Absent    \* storage without an object

VARIABLE value

Present(o) == value[o] # Absent

Init == value = [o \in Object |-> Absent]

Construct(o, fields) ==
  /\ ~Present(o)
  /\ value' = [value EXCEPT ![o] = fields]

Copy(o, p) ==
  /\ ~Present(o)
  /\ Present(p)
  /\ value' = [value EXCEPT ![o] = value[p]]

Move(o, p) ==
  /\ ~Present(o)
  /\ Present(p)
  /\ value' = [value EXCEPT ![o] = value[p], ![p] = Default[value[p].class]]

Assign(o, p) ==
  /\ Present(o)
  /\ Present(p)
  /\ value[o].class = value[p].class
  /\ value' = [value EXCEPT ![o] = value[p]]

Set(o, field, x) ==
  /\ Present(o)
  /\ value' = [value EXCEPT ![o] = [@ EXCEPT ![field] = x]]

Destroy(o) ==
  /\ Present(o)
  /\ value' = [value EXCEPT ![o] = Absent]
=============================================================================
