------------------------- MODULE UtteranceLifecycle -------------------------
(***************************************************************************)
(* web/lib/utterance-lifecycle.ts: one authorized utterance, from its      *)
(* authorization to an honest ending.  Pure: a signal maps an utterance to *)
(* the next one, and an utterance that has ended ignores every signal.     *)
(* Audio is counted in chunks.                                             *)
(***************************************************************************)
EXTENDS Naturals

Terminal == {"COMPLETED", "INTERRUPTED", "FAILED", "CANCELLED"}

NoUtterance ==
  [id |-> 0, source |-> "MODEL", phase |-> "CANCELLED", got |-> 0,
   complete |-> FALSE, playing |-> FALSE, reason |-> "none"]

New(id, source) ==
  [NoUtterance EXCEPT !.id = id, !.source = source, !.phase = "AUTHORIZED"]

Finished(u, outcome, reason) ==
  [u EXCEPT !.phase = outcome, !.playing = FALSE, !.reason = reason]

\* A cached head that cannot be played is left to the model, only before any
\* audio exists.
SwitchSource(u, source) ==
  IF u.phase \in Terminal \/ u.got > 0 THEN u ELSE [u EXCEPT !.source = source]

SourceComplete(u) ==
  LET done == [u EXCEPT !.complete = TRUE]
  IN  IF u.got = 0 THEN Finished(done, "FAILED", "EMPTY_RESPONSE")
      ELSE IF u.playing THEN done
      ELSE Finished(done, "COMPLETED", "none")

\* Defect: a drained queue ends the utterance, whatever is still owed.
DrainedIsDone(u) ==
  IF u.playing THEN Finished(u, "COMPLETED", "none") ELSE u

\* A queue that runs dry while audio is owed is an underrun, not an ending.
Drained(u) ==
  IF ~u.playing THEN u
  ELSE IF u.complete THEN Finished(u, "COMPLETED", "none")
  ELSE [u EXCEPT !.playing = FALSE]

Interrupted(u) ==
  IF u.got > 0 THEN Finished(u, "INTERRUPTED", "CANDIDATE_BARGE_IN")
  ELSE Finished(u, "CANCELLED", "CANDIDATE_SPOKE_BEFORE_AUDIO")

Apply(u, signal, reason) ==
  IF u.phase \in Terminal THEN u ELSE
  CASE signal = "REQUESTED" ->
         [u EXCEPT !.phase = IF @ = "AUTHORIZED" THEN "REQUESTED" ELSE @]
    [] signal = "AUDIO_RECEIVED" ->
         [u EXCEPT !.got = @ + 1,
                   !.phase = IF @ \in {"AUTHORIZED", "REQUESTED"}
                             THEN "FIRST_AUDIO" ELSE @]
    [] signal = "PLAYBACK_STARTED" ->
         [u EXCEPT !.playing = TRUE, !.phase = "PLAYING"]
    [] signal = "SOURCE_COMPLETE"  -> SourceComplete(u)
    [] signal = "PLAYBACK_DRAINED" -> Drained(u)
    [] signal = "INTERRUPT"        -> Interrupted(u)
    [] signal = "FAIL"             -> Finished(u, "FAILED", reason)
    [] signal = "CANCEL"           -> Finished(u, "CANCELLED", reason)
=============================================================================
