--------------------------- MODULE TurnCompletion ---------------------------
(***************************************************************************)
(* Whether a turn has ended (orchestrator/turn-completion.ts), and how     *)
(* long the policy waits before it may have (orchestrator/policy.ts).      *)
(* Probabilities and pulls are percentages, times are milliseconds.        *)
(***************************************************************************)
EXTENDS Integers

AtMost(a, b) == IF a < b THEN a ELSE b

HeldFloorCeiling == 35
MidThoughtCeiling == 20

Window(min, settled) == [min |-> min, settled |-> settled]

\* POLICIES, as far as turn ends read them.
Policies ==
  [LEARNING |-> [threshold |-> 75, plain |-> Window(1200, 2400),
                 confident |-> Window(250, 600), patient |-> Window(1800, 3200)],
   MOCK     |-> [threshold |-> 80, plain |-> Window(1500, 2800),
                 confident |-> Window(300, 700), patient |-> Window(2200, 3800)],
   STRICT   |-> [threshold |-> 88, plain |-> Window(2200, 4000),
                 confident |-> Window(500, 1200), patient |-> Window(3000, 5200)]]

\* One signed number: positive when the voice yielded the floor.
ProsodyPull(heard) ==
  (heard.confidence * (2 * heard.probability - 100)) \div 100

Lerp(from, to, percent) == from + ((to - from) * percent) \div 100

TurnEndWindow(policy, pull) ==
  LET side == IF pull > 0 THEN policy.confident ELSE policy.patient
      far  == IF pull > 0 THEN pull ELSE -pull
  IN  [min |-> Lerp(policy.plain.min, side.min, far),
       settled |-> Lerp(policy.plain.settled, side.settled, far)]

\* How much end-confidence the elapsed silence permits.
SilenceCeiling(ms, policy, pull) ==
  LET w == TurnEndWindow(policy, pull)
  IN  IF ms <= w.min THEN HeldFloorCeiling
      ELSE IF ms >= w.settled THEN 100
      ELSE HeldFloorCeiling
             + ((ms - w.min) * (100 - HeldFloorCeiling)) \div (w.settled - w.min)

\* Defect: a held turn is looked at again as soon as the floor may be lost.
SilenceRequiredAtOnce(policy, pull) == TurnEndWindow(policy, pull).min

\* The quiet time at which the ceiling first reaches the policy's threshold.
SilenceRequired(policy, pull) ==
  LET w    == TurnEndWindow(policy, pull)
      span == w.settled - w.min
      rest == 100 - HeldFloorCeiling
  IN  IF policy.threshold <= HeldFloorCeiling THEN w.min
      ELSE IF span <= 0 THEN w.settled
      ELSE w.min + ((policy.threshold - HeldFloorCeiling) * span + rest - 1) \div rest

\* A turn is [text, trails, asks]: how finished its words read, whether they
\* end mid-thought, whether they hand the floor back.  Unknown timing
\* is not zero silence.
Untimed == -1

EndProbability(turn, ms, policy, pull) ==
  IF turn.trails THEN AtMost(turn.text, MidThoughtCeiling)
  ELSE IF turn.asks \/ ms = Untimed THEN turn.text
  ELSE AtMost(turn.text, SilenceCeiling(ms, policy, pull))
=============================================================================
