----------------------------- MODULE MCEvidence -----------------------------
(***************************************************************************)
(* Instances of Observer and its readers for TLC: a brute-force solution   *)
(* and a single pass over a set, of eight lines each.                      *)
(***************************************************************************)
EXTENDS Grading

Solution(depth, loops, hashes) ==
  [function |-> TRUE, depth |-> depth, loops |-> loops, hashes |-> hashes,
   sorts |-> FALSE, lines |-> 8, returnsEarly |-> TRUE, valid |-> TRUE]

Solutions == {Solution(2, 2, FALSE), Solution(1, 1, TRUE)}

Cost(family) == IF family = "sf-nested-loop" THEN "O(n^2)" ELSE "O(n)"

\* Whole replies that cite one event of a log of n events, with the words of
\* a turn or with others; and some that cite nothing, leak or are broken.
Reply(flaw, cites) ==
  [leaks |-> flaw = "leaks", whole |-> flaw # "broken", score |-> 120, cites |-> cites]

EveryReply(n) ==
  {Reply("none", <<>>), Reply("leaks", <<[seq |-> 1, quote |-> ""]>>),
   Reply("broken", <<[seq |-> 1, quote |-> ""]>>)}
  \cup {Reply("none", <<[seq |-> i, quote |-> q]>>) : i \in 1..n, q \in Claims \cup {"invented"}}

\* The first two inputs may come at once, the third on an empty line.
Waiting(taken) == IF taken < 2 THEN 2 ELSE 1

Act(type, id) == [type |-> type, id |-> id]

Hints == {Act("HINT_GIVEN", "L1"), Act("CLARIFICATION_ANSWERED", "range")}
Acts  == Hints \cup {Act("PROBE_ASKED", "complexity_claim"), Act("PROBE_ASKED", "invariant"),
                     Act("FOLLOW_UP_PRESENTED", "stream")}

\* Remarks are read by the report alone, which counts them wherever they
\* stand: they are made while nothing is in flight.
Quiet == inbox = <<>> /\ pass = Idle

Spec == ObserverInit /\ [][ObserverNext \/ (Quiet /\ Remark)]_observerVars
=============================================================================
