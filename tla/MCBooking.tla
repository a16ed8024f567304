------------------------------ MODULE MCBooking ------------------------------
(***************************************************************************)
(* An instance of Preparation for TLC: one candidate with a preparation    *)
(* and a direct request, another with a direct request.                    *)
(***************************************************************************)
EXTENDS Preparation

Owner(k)  == IF k = "other" THEN "bob" ELSE "ann"
Picked(k) == IF k = "prep" THEN None ELSE "q1"

Both == {"p", "q"}
One  == {"p"}

\* What exists, who is up, what is asked for; then how much may go wrong.
Quiet ==
  [begun |-> {}, up |-> One, prepare |-> {}, startBy |-> 0, until |-> 0,
   open |-> 0, close |-> 0, drop |-> 0, lose |-> 0, end |-> 0, fault |-> 0, crash |-> 0,
   stall |-> 0, erase |-> 0, expire |-> 0, retire |-> 0, delete |-> 0]

\* Attending an interview: two drops, several reloads, a lost call, a crash.
There == [Quiet EXCEPT !.begun = {"prep"}, !.startBy = 1, !.open = 2, !.close = 1]
Attended ==
  {[There EXCEPT !.until = 7, !.drop = 2],
   [There EXCEPT !.until = 5, !.drop = 1, !.open = 3, !.close = 2],
   [There EXCEPT !.until = 5, !.drop = 1, !.lose = 1],
   [There EXCEPT !.until = 5, !.drop = 1, !.crash = 1]}

\* Making one: three keys at once; a request repeated; a preparation on two processes, with each
\* kind of trouble.
Alone == [Quiet EXCEPT !.up = Both, !.prepare = {"prep"}]
Made ==
  {[Quiet EXCEPT !.prepare = {"prep", "direct", "other"}, !.end = 1],
   [Quiet EXCEPT !.up = Both, !.prepare = {"direct", "other"}, !.end = 1, !.fault = 1],
   [Alone EXCEPT !.fault = 1, !.crash = 1, !.stall = 1],
   [Alone EXCEPT !.erase = 1, !.stall = 1],
   [Alone EXCEPT !.expire = 1, !.fault = 1],
   [Alone EXCEPT !.end = 1, !.delete = 1, !.retire = 1]}

Everything == Attended \cup Made

=============================================================================
