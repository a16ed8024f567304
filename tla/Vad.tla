--------------------------------- MODULE Vad ---------------------------------
(***************************************************************************)
(* The browser's voice activity detector (web/lib/vad.ts): frames in,      *)
(* boundaries out.                                                         *)
(*                                                                         *)
(* A detector is a record.  Its clocks count frames: since the first frame *)
(* (`age`), since the run of voice began (`voice`) and since the run of    *)
(* quiet began (`quiet`); None is null.  Levels are whole dB, and the      *)
(* floor moves by whole dB, at least one at a time, so that it arrives     *)
(* where the code's only comes arbitrarily close.                          *)
(***************************************************************************)
EXTENDS Integers

CONSTANTS
  FrameMs,            \* length of a frame
  CalibratePercent,   \* calibrationAdaptRate over one such frame
  AdaptPercent        \* noiseAdaptRate over one such frame

ASSUME FrameAssumption ==
  /\ FrameMs \in Nat \ {0}
  /\ CalibratePercent \in 1 .. 100
  /\ AdaptPercent \in 1 .. 100

None == -1

\* DEFAULT_VAD_CONFIG, with the hangover the voice session asks for.
StartMarginDb == 9
ContinueMarginDb == 5
MinSpeechMs == 40
EndHangoverMs == 500
CalibrationMs == 500
InitialNoiseFloorDb == -55

Fresh ==
  [floor |-> InitialNoiseFloorDb, speaking |-> FALSE, voice |-> None,
   quiet |-> None, age |-> None]

\* A clock that counts frames up to a cap.
Later(clock, cap) ==
  IF clock = None THEN None ELSE IF clock < cap THEN clock + 1 ELSE cap

\* Frames beyond which a span of time has passed.
Frames(ms) == ms \div FrameMs + 1

\* One frame's time goes by, whether or not the frame is pushed.
Aged(v) ==
  [v EXCEPT !.age = Later(@, Frames(CalibrationMs)), !.voice = Later(@, Frames(MinSpeechMs)),
            !.quiet = Later(@, Frames(EndHangoverMs))]

Since(clock) == IF clock = None THEN 0 ELSE clock

Calibrating(v) == Since(v.age) * FrameMs < CalibrationMs

\* The floor moves toward a level by a percentage of the distance.
Toward(floor, db, percent) ==
  IF db > floor THEN floor + ((db - floor) * percent + 99) \div 100
  ELSE floor - ((floor - db) * percent + 99) \div 100

IsVoice(v, db) ==
  db > v.floor + (IF v.speaking THEN ContinueMarginDb ELSE StartMarginDb)

\* A step of the detector: its next state, the boundary it crossed and how
\* many frames ago that is judged to have happened.
Same(v) == [vad |-> v, event |-> "none", ago |-> 0]

WhileSilent(v, voice) ==
  LET since == Since(v.voice)
  IN  IF ~voice THEN Same([v EXCEPT !.voice = None])
      ELSE IF since * FrameMs >= MinSpeechMs
      THEN [vad |-> [v EXCEPT !.speaking = TRUE, !.voice = None, !.quiet = None],
            event |-> "start", ago |-> since]
      ELSE Same([v EXCEPT !.voice = since])

\* Defect: voice does not end a run of quiet.
WhileSpeakingKeepsRun(v, voice) ==
  LET since == Since(v.quiet)
  IN  IF voice THEN Same(v)
      ELSE IF since * FrameMs >= EndHangoverMs
      THEN [vad |-> [v EXCEPT !.speaking = FALSE, !.voice = None, !.quiet = None],
            event |-> "end", ago |-> since]
      ELSE Same([v EXCEPT !.quiet = since])

WhileSpeaking(v, voice) ==
  LET since == Since(v.quiet)
  IN  IF voice THEN Same([v EXCEPT !.quiet = None])
      ELSE IF since * FrameMs >= EndHangoverMs
      THEN [vad |-> [v EXCEPT !.speaking = FALSE, !.voice = None, !.quiet = None],
            event |-> "end", ago |-> since]
      ELSE Same([v EXCEPT !.quiet = since])

\* Listens only while calibrating; adapts only in silence.
PushDb(v, db) ==
  LET first == [v EXCEPT !.age = Since(@)]
      voice == IsVoice(first, db)
  IN  IF Calibrating(first)
      THEN Same([first EXCEPT !.floor = Toward(@, db, CalibratePercent)])
      ELSE IF first.speaking THEN WhileSpeaking(first, voice)
      ELSE WhileSilent([first EXCEPT !.floor =
                          IF voice THEN @ ELSE Toward(@, db, AdaptPercent)],
                       voice)

\* Mute and teardown force the end.
Reset(v) ==
  [vad |-> [v EXCEPT !.speaking = FALSE, !.voice = None, !.quiet = None],
   event |-> IF v.speaking THEN "end" ELSE "none", ago |-> 0]
=============================================================================
