------------------------------- MODULE Prosody -------------------------------
(***************************************************************************)
(* What the end of a turn sounded like (web/lib/turn-predictor.ts,         *)
(* ProsodicTurnEndPredictor): pitch, energy and timing of its tail, turned *)
(* into a probability that the floor was yielded and a confidence in it.   *)
(*                                                                         *)
(* A frame is [db, f0]: its level and its pitch in semitones, None where   *)
(* no pitch was found.  Frames are kept in order, one every FrameMs, the   *)
(* newest last.  Probabilities, weights and strengths are percentages.     *)
(***************************************************************************)
EXTENDS Vad, TurnCompletion, Sequences, SequencesExt, FiniteSets, FiniteSetsExt

TailMs == 800

CONSTANT MinVoiced    \* MIN_VOICED_TAIL_FRAMES, in frames of FrameMs

ASSUME ProsodyAssumption == MinVoiced \in Nat \ {0} /\ FrameMs <= TailMs

TailFrames == TailMs \div FrameMs

\* PROSODY_WEIGHTS.
FallingPitch == 90
RisingPitch == 70
LevelPitch == -100
FinalLengthening == 80
EnergyDecay == 60
AbruptStop == -70

\* The logistic with sharpness 1.6, at each tenth of a score.
LogisticAt ==
  <<50, 54, 58, 62, 65, 69, 72, 75, 78, 81, 83, 85, 87, 89, 90, 92, 93, 94,
    95, 95, 96, 97, 97, 98>>

Sigmoid(score) ==
  IF score >= 0 THEN LogisticAt[AtMost(score \div 10, 23) + 1]
  ELSE 100 - LogisticAt[AtMost((-score) \div 10, 23) + 1]

\* The slope, in hundredths per second, of the points <<x, y>> with x in
\* frames, as a set: empty when they do not determine one.
Slope(points) ==
  LET n   == Cardinality(points)
      Sx  == MapThenSumSet(LAMBDA p : p[1], points)
      Sy  == MapThenSumSet(LAMBDA p : p[2], points)
      Sxy == MapThenSumSet(LAMBDA p : p[1] * p[2], points)
      Sxx == MapThenSumSet(LAMBDA p : p[1] * p[1], points)
      den == n * Sxx - Sx * Sx
  IN  IF n < 3 \/ den = 0 THEN {}
      ELSE {((n * Sxy - Sx * Sy) * (100000 \div FrameMs)) \div den}

PitchSlope(tail) ==
  Slope({<<i, tail[i].f0>> : i \in {j \in DOMAIN tail : tail[j].f0 # None}})

EnergySlope(tail) == Slope({<<i, tail[i].db>> : i \in DOMAIN tail})

\* The runs of voiced frames, as pairs of their first and last positions.
Runs(tail) ==
  {<<i, j>> \in (DOMAIN tail) \X (DOMAIN tail) :
     /\ i <= j
     /\ \A k \in i .. j : tail[k].f0 # None
     /\ i = 1 \/ tail[i - 1].f0 = None
     /\ j = Len(tail) \/ tail[j + 1].f0 = None}

\* The last run over the median run, in percent.  A run of one frame has no
\* length and is left out.
Lengthening(tail) ==
  LET runs  == {r \in Runs(tail) : r[1] < r[2]}
      long(r) == r[2] - r[1]
      sorted == SortSeq(SetToSeq(runs), LAMBDA a, b : long(a) < long(b))
      final == CHOOSE r \in runs : \A o \in runs : o[1] <= r[1]
  IN  IF Cardinality(runs) < 2 THEN {}
      ELSE {(long(final) * 100) \div long(sorted[Len(sorted) \div 2 + 1])}

\* The share of a threshold that is reached, at most all of it.
Strength(much, full) == AtMost(100, (much * 100) \div full)

\* Falling and rising both yield the floor; level pitch holds it.
PitchCue(slope) ==
  IF slope <= -200 THEN (FallingPitch * Strength(-slope, 600)) \div 100
  ELSE IF slope >= 300 THEN (RisingPitch * Strength(slope, 800)) \div 100
  ELSE (LevelPitch * (100 - Strength(IF slope < 0 THEN -slope ELSE slope, 300)))
       \div 100

LengthCue(ratio) ==
  IF ratio <= 115 THEN 0
  ELSE (FinalLengthening * Strength(ratio - 115, 85)) \div 100

EnergyCue(slope) ==
  IF slope <= -600 THEN (EnergyDecay * Strength(-slope, 2500)) \div 100
  ELSE IF slope >= -100 THEN AbruptStop
  ELSE 0

Score(tail) ==
  MapThenSumSet(PitchCue, PitchSlope(tail))
    + MapThenSumSet(LengthCue, Lengthening(tail))
    + MapThenSumSet(EnergyCue, EnergySlope(tail))

NoEvidence == [probability |-> 50, confidence |-> 0]

\* The tail that ended `ago` frames back.  The frame at the boundary, which is
\* the first quiet one, is in it.
Read(frames, ago) ==
  LET last == Len(frames) - ago
  IN  SubSeq(frames, IF last > TailFrames THEN last - TailFrames ELSE 1, last)

Estimate(frames, ago) ==
  LET tail   == Read(frames, ago)
      voiced == Cardinality({i \in DOMAIN tail : tail[i].f0 # None})
  IN  IF voiced < MinVoiced THEN NoEvidence
      ELSE [probability |-> Sigmoid(Score(tail)),
            confidence |-> AtMost(100, ((voiced - MinVoiced) * 100) \div MinVoiced)]

\* push(): what no boundary can read any more, `run` frames of quiet into
\* one, is dropped.
Heard(frames, frame, run) ==
  LET all  == Append(frames, frame)
      kept == TailFrames + 1 + run
  IN  IF Len(all) > kept THEN SubSeq(all, Len(all) - kept + 1, Len(all)) ELSE all
=============================================================================
