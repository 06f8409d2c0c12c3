--------------------------- MODULE CompletionDelivery ---------------------------
(***************************************************************************)
(* What completion ports promise, without wrappers, queues or threads:     *)
(* every item submitted is reported at most once, from the box it was      *)
(* mailed to, and is not forgotten except in the ways named here.          *)
(***************************************************************************)

CONSTANTS Item, Box, Nowhere

VARIABLES
  phase,   \* where each item is between its submission and its report
  box,     \* the box that holds each item's mail
  shut     \* boxes that are closed

vars == <<phase, box, shut>>

Init ==
  /\ phase = [x \in Item |-> "idle"]
  /\ box = [x \in Item |-> Nowhere]
  /\ shut = {}

Leave(S) == box' = [x \in Item |-> IF x \in S THEN Nowhere ELSE box[x]]
Become(S, p) == phase' = [x \in Item |-> IF x \in S THEN p ELSE phase[x]]
MailIn(b) == {x \in Item : box[x] = b /\ phase[x] \in {"mailed", "failed"}}

Submit(x) ==
  /\ phase[x] = "idle"
  /\ Become({x}, "owed")
  /\ UNCHANGED <<box, shut>>

(* An operation that ends, or a status that is posted, becomes mail. *)
Mail(x, b, outcome) ==
  /\ \/ phase[x] = "owed"
     \/ phase[x] = "idle" /\ outcome = "mailed"
  /\ b \notin shut
  /\ Become({x}, outcome)
  /\ box' = [box EXCEPT ![x] = b]
  /\ UNCHANGED shut

(* An operation that ends without a box. *)
Skip(x) ==
  /\ phase[x] = "owed"
  /\ Become({x}, "idle")
  /\ UNCHANGED <<box, shut>>

(* One call reports some of the mail of one box. *)
Report(b, S) ==
  /\ S # {}
  /\ S \subseteq MailIn(b)
  /\ Become(S, "idle")
  /\ Leave(S)
  /\ UNCHANGED shut

(* A call for one status takes a failed operation's and does not report it.*)
Lose(b, x) ==
  /\ x \in MailIn(b)
  /\ phase[x] = "failed"
  /\ Become({x}, "gone")
  /\ Leave({x})
  /\ UNCHANGED shut

(* A box is closed with the mail in it. *)
Shut(b) ==
  /\ b \notin shut
  /\ shut' = shut \cup {b}
  /\ Become(MailIn(b), "gone")
  /\ Leave(MailIn(b))

(* An operation that ends after its box was closed. *)
ComeLate(x) ==
  /\ phase[x] = "owed"
  /\ shut # {}
  /\ Become({x}, "gone")
  /\ UNCHANGED <<box, shut>>

Next ==
  \/ \E x \in Item : Submit(x) \/ Skip(x) \/ ComeLate(x)
  \/ \E x \in Item, b \in Box, outcome \in {"mailed", "failed"} : Mail(x, b, outcome)
  \/ \E x \in Item, b \in Box : Lose(b, x)
  \/ \E b \in Box : Shut(b) \/ \E S \in SUBSET MailIn(b) : Report(b, S)

Spec == Init /\ [][Next]_vars
=============================================================================
