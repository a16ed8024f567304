----------------------------- MODULE MCRuntime -----------------------------
(***************************************************************************)
(* Instances of InterviewRuntime for TLC.  Each setting starts a session   *)
(* at an image the log of a real round produces and lets a few kinds of    *)
(* environment step happen a few times.                                    *)
(***************************************************************************)
EXTENDS InterviewRuntime

\* A finished, confidently complete turn of one intent.
Kind(intent) ==
  [intent |-> intent, sure |-> TRUE, trails |-> FALSE, repeat |-> FALSE,
   answerable |-> TRUE, names |-> FALSE]

Repeat == [Kind("CLARIFICATION_REQUEST") EXCEPT !.repeat = TRUE]
Unsure == [Kind("THINK_ALOUD") EXCEPT !.sure = FALSE]
Commits == [Kind("APPROACH_COMMITMENT") EXCEPT !.names = TRUE]

\* A session that has just started: SESSION_STARTED and nothing else.
NewSession ==
  [stage |-> "ORAL_PROBLEM_DELIVERY", briefs |-> 0, redeliver |-> FALSE,
   redeliveries |-> 0, reasoning |-> 0, approach |-> FALSE, rev |-> 0,
   seen |-> 0, runs |-> 0, passed |-> FALSE, followUps |-> 0, hints |-> <<>>,
   speechStarted |-> FALSE, stopped |-> FALSE, passes |-> 0]

AskingStage == [NewSession EXCEPT !.stage = "CLARIFICATION", !.briefs = 1]

MidApproach ==
  [AskingStage EXCEPT !.stage = "APPROACH_EXPLORATION", !.approach = TRUE]

Coding ==
  [MidApproach EXCEPT !.stage = "IMPLEMENTATION", !.rev = 1, !.seen = 1,
                      !.passes = 1]

NoLimits == [talk |-> 0, barge |-> 0, turn |-> 0, edit |-> 0, run |-> 0,
             result |-> 0, tick |-> 0, ready |-> 0, crash |-> 0, fault |-> 0, socket |-> 0]

\* A setting in which only turns happen, sockets stay attached and the
\* database commits transactions in the order issued.
Plain(start, limits, kinds) ==
  [start |-> start, limits |-> limits, kinds |-> kinds, probes |-> {"none"},
   stuck |-> {FALSE}, aged |-> {FALSE}, sockets |-> {TRUE}, ordered |-> TRUE]

\* Two turns and one stretch of speech in mid-approach.
Talk ==
  [Plain(MidApproach, [NoLimits EXCEPT !.talk = 1, !.turn = 2, !.run = 1],
         {Kind("EXPLICIT_QUESTION"), Kind("THINK_ALOUD"), Kind("HINT_REQUEST")})
     EXCEPT !.probes = {"none", "plain"}]

\* Probes about the code, judged again by the silence timer while the
\* candidate goes on editing.
Grounded ==
  [Plain(Coding, [NoLimits EXCEPT !.talk = 1, !.turn = 1, !.edit = 1],
         {Kind("THINK_ALOUD")})
     EXCEPT !.probes = {"none", "code"}, !.aged = {TRUE, FALSE}]

\* A new session whose browser reports ready twice, whose candidate may
\* speak, and whose process may die.
OpeningRound ==
  [Plain(NewSession,
         [NoLimits EXCEPT !.barge = 1, !.turn = 1, !.ready = 2, !.crash = 1],
         {Repeat})
     EXCEPT !.sockets = {TRUE, FALSE}]

\* Edits and runs that move the round from clarification onwards while
\* observation passes run and operations fail.
Observed ==
  Plain(AskingStage,
        [NoLimits EXCEPT !.edit = 1, !.result = 2, !.tick = 1, !.fault = 1],
        {Commits})

\* The same with one run, in a process that may die.
Recovered ==
  [Observed EXCEPT !.limits.result = 1, !.limits.crash = 1]

Named(name) ==
  CASE name = "talk"      -> Talk
    [] name = "grounded"  -> Grounded
    [] name = "observed"  -> Observed
    [] name = "recovered" -> Recovered
    [] name = "opening"   -> OpeningRound

=============================================================================
