---------------------------- MODULE MCTurnTaking ----------------------------
(***************************************************************************)
(* Instances of TurnTaking for TLC.  A frame is 250 ms where the code's is  *)
(* 20 ms, and the rates and the count of voiced frames are scaled with it. *)
(***************************************************************************)
EXTENDS TurnTaking

\* A steady voice, and one that falls and trails off.
Steady == [over |-> 30, f0 |-> 4, word |-> TRUE]
Falling == [over |-> 7, f0 |-> 1, word |-> TRUE]
Noise == [over |-> 30, f0 |-> None, word |-> FALSE]

\* A statement, one that breaks off at full voice, one with a breath in it,
\* a noise too short to be speech, and one the detector takes for it.
Statement == <<Steady, Steady, Falling>>
BrokenOff == <<Steady, Steady>>
Breath == <<Steady, Steady, Silence, Steady, Falling>>
Knock == <<Noise, Silence>>
Cough == <<Noise, Noise>>

Words(cues, mark, opens, trails) ==
  [said |-> TRUE, brief |-> FALSE, cues |-> cues, mark |-> mark, opens |-> opens,
   about |-> FALSE, trails |-> trails]

\* "That should work.", "what should I do now", "so I would sort it and", and
\* what the transcriber leaves without a mark.
Done == Words({"DONE_SIGNAL"}, ".", FALSE, FALSE)
Asked == Words({}, "", TRUE, FALSE)
TrailsOff == Words({}, "", FALSE, TRUE)
Unmarked == Words({"APPROACH_COMMITMENT"}, "", FALSE, FALSE)

\* A model that is sure of an end, and one whose reply does not validate.
ModelReplies ==
  {[intent |-> "THINK_ALOUD", end |-> 85], [intent |-> "NOD", end |-> 95]}

Conversations ==
  {[room |-> -40, utterances |-> {Statement, Cough}, mutes |-> 0, coalesce |-> TRUE,
    transcripts |-> {Done}],
   [room |-> -55, utterances |-> {Breath, Knock}, mutes |-> 0, coalesce |-> FALSE,
    transcripts |-> {Unmarked}],
   [room |-> -40, utterances |-> {BrokenOff}, mutes |-> 0, coalesce |-> TRUE,
    transcripts |-> {TrailsOff}],
   [room |-> -40, utterances |-> {Statement}, mutes |-> 1, coalesce |-> TRUE,
    transcripts |-> {Asked}]}

=============================================================================
