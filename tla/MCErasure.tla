------------------------------ MODULE MCErasure ------------------------------
(***************************************************************************)
(* Instances of Erasure for TLC.                                           *)
(***************************************************************************)
EXTENDS Erasure

TwoGraders == <<"solution", "transcript">>

Both == {"p", "q"}
One  == {"p"}

\* Reports: failures with a crash, with a stall, with the end repeated; and a
\* regeneration on its own (a crash after it loses the job).  Deletion, on one
\* process: with a support report, a failure, a regeneration, a crash, a stall
\* that lets a second deletion in.
Mishaps ==
  {Trouble(Both, {}, 1, 1, 0, 0, 0, 0, 0), Trouble(Both, {}, 0, 1, 1, 0, 0, 0, 0),
   Trouble(Both, {}, 1, 0, 0, 1, 0, 0, 0), Trouble(Both, {}, 0, 0, 0, 0, 1, 0, 0),
   Trouble(One, {"d"}, 0, 0, 0, 0, 0, 2, 1), Trouble(One, {"d"}, 1, 0, 0, 0, 0, 1, 0),
   Trouble(One, {"d"}, 0, 0, 0, 0, 1, 1, 0),
   Trouble(One, {"d"}, 0, 1, 0, 0, 0, 1, 0), Trouble(One, {"d", "e"}, 0, 0, 1, 0, 0, 1, 0)}

=============================================================================
