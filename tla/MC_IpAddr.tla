------------------------------ MODULE MC_IpAddr ------------------------------
(* An instance of LocalClasses: texts of one to five fields, the printed borders *)
(* of every IPv4 block; IPv6 addresses with every pattern of zeros and the *)
(* borders of every IPv6 block.                                            *)
EXTENDS LocalClasses

(* Empty, short, longest, too large, with leading zeros, too long, foreign.*)
Fields == {<<>>, <<7>>, <<2, 5, 5>>, <<2, 5, 6>>, <<0, 1, 9>>, <<0, 0, 0, 1>>, <<Other>>}
FewFields == {<<>>, <<4, 2>>, <<2, 5, 5>>}

Joined(f, n) ==
  LET Upto[k \in 1 .. n] == IF k = 1 THEN f[1] ELSE Upto[k - 1] \o <<Dot>> \o f[k] IN Upto[n]

Borders == UNION {BordersOf(b, 4) : b \in UNION {Blocks[class] : class \in DOMAIN Blocks}}

Texts4 == UNION {{Joined(f, n) : f \in [1 .. n -> Fields]} : n \in 1 .. 3}
          \cup UNION {{Joined(f, n) : f \in [1 .. n -> FewFields]} : n \in 4 .. 5}
          \cup {TextOf(a) : a \in Borders}

AsWords(b) == [k \in 0 .. 7 |-> b[2 * k] + 256 * b[2 * k + 1]]

(* Every pattern of zero segments, and, in memory order, 0, 1, ffff and    *)
(* 2 in the segments that an embedded IPv4 address takes.                  *)
Patterns == [0 .. 7 -> {0, 256}]
Embedded == {[k \in 0 .. 7 |-> IF k < 5 THEN 0 ELSE tail[k]] :
               tail \in [5 .. 7 -> {0, 256, 512, 65535}]}
Borders6 == UNION {BordersOf(Blocks6[class], 16) : class \in DOMAIN Blocks6}
Given6 == Patterns \cup Embedded \cup {AsWords(b) : b \in Borders6}
=============================================================================
