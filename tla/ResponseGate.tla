---------------------------- MODULE ResponseGate ----------------------------
(***************************************************************************)
(* orchestrator/gate.ts: the one place that decides whether the            *)
(* interviewer speaks.  Decide(c) is a pure function of the context c that *)
(* the runtime builds; the guards below are its rules in the order the     *)
(* code tries them.                                                        *)
(*                                                                         *)
(* A context holds what the rules tell apart:                              *)
(*   stage, briefs, redeliver    ctx.state, briefDeliveryCount,            *)
(*                               openingRedeliveryPending                  *)
(*   speaking, speechStarted, speakingNow   the three floor flags          *)
(*   turn      [present, finalized, ended, repeat, intent, answerable]:    *)
(*             ended is semanticEndProbability >= endOfTurnThreshold,      *)
(*             repeat is isBriefRequest, answerable getClarificationFact   *)
(*   hints     candidateState.hintsUsed                                    *)
(*   behind, coded, aged   the observer is behind the latest revision,     *)
(*             there is a revision, the observation is older than allowed  *)
(*   moving, quiet         code activity within maxCodeStalenessSeconds,   *)
(*             and none within interruptQuietSeconds                       *)
(*   probe     "none", "plain" or "code": the selected authored probe, and *)
(*             whether its trigger needs code grounding                    *)
(*   paced, stuck, followUp      canProbeNow, stuck score over threshold,  *)
(*             an eligible follow-up exists                                *)
(***************************************************************************)
EXTENDS Integers, Sequences, FiniteSetsExt, InterviewContract

CONSTANTS MaxHintLevel,          \* policy.maxHintLevel
          HintBudget,            \* policy.hintBudget
          AcknowledgesSmallTalk  \* policy.acknowledgeSmallTalk

ASSUME HintAssumption == MaxHintLevel \in 0..4 /\ HintBudget \in Nat
ASSUME SmallTalkAssumption == AcknowledgesSmallTalk \in BOOLEAN

Questions == {"EXPLICIT_QUESTION", "CLARIFICATION_REQUEST"}

\* A decision: the action, the hint level it carries (0: none) and whether
\* it cites the code revision the observer last saw (groundedInRevision).
Say(action)        == [action |-> action, level |-> 0, grounded |-> FALSE]
SayGrounded(action) == [action |-> action, level |-> 0, grounded |-> TRUE]
Silent             == Say("STAY_SILENT")

\* nextAllowedHintLevel: 0 is the code's null.
HighestHint(hints) == Max({0} \cup {hints[i] : i \in DOMAIN hints})

NextHintLevel(hints) ==
  IF /\ MaxHintLevel > 0
     /\ Len(hints) < HintBudget
     /\ HighestHint(hints) + 1 <= MaxHintLevel
  THEN HighestHint(hints) + 1
  ELSE 0

Hint(level, grounded) ==
  [action   |-> IF level = 1 THEN "GIVE_HINT_L1" ELSE "GIVE_HINT_L2",
   level    |-> level,
   grounded |-> grounded]

-----------------------------------------------------------------------------
(* The rules' guards.                                                      *)

OpeningDue(c) ==
  c.stage = "ORAL_PROBLEM_DELIVERY" /\ c.briefs = 0 /\ ~c.speaking

\* Defect: an owed opening is offered again only in the stage that opens.
RedeliveryDueInOpeningStage(c) ==
  /\ c.redeliver /\ ~c.turn.present /\ ~c.speaking /\ ~c.speakingNow
  /\ c.stage = "ORAL_PROBLEM_DELIVERY"

RedeliveryDueOnReadiness(c) ==
  c.redeliver /\ ~c.turn.present /\ ~c.speaking /\ ~c.speakingNow

\* Defect: speech that starts while nobody else speaks counts as a barge-in.
BargeInAnySpeech(c) == c.speechStarted

BargeIn(c) == c.speaking /\ c.speechStarted

TurnOver(c) == c.turn.present /\ c.turn.finalized /\ c.turn.ended

RepeatRequested(c) == c.turn.repeat /\ c.briefs > 0

ObserverTrailsMovingCode(c) == c.behind /\ c.moving

\* codeFreshnessReason # null
CodeNotFresh(c) == c.behind \/ (c.coded /\ c.aged)

\* canHintNow, with the level ceiling of unsolicited hints
UnsolicitedHintDue(c) ==
  /\ c.quiet
  /\ MaxHintLevel > 0
  /\ Len(c.hints) < HintBudget
  /\ c.stuck
  /\ NextHintLevel(c.hints) \in 1..2

Answer(c) ==
  Say(IF c.turn.answerable THEN "ANSWER_CLARIFICATION" ELSE "ACKNOWLEDGE_BRIEFLY")

RequestedHint(c) ==
  IF NextHintLevel(c.hints) = 0 THEN Silent ELSE Hint(NextHintLevel(c.hints), FALSE)

SmallTalk == IF AcknowledgesSmallTalk THEN Say("ACKNOWLEDGE_BRIEFLY") ELSE Silent

\* Rule 9: an eligible probe ends the ladder whether or not it may be asked.
Probe(c) ==
  IF c.quiet /\ c.paced /\ ~(c.probe = "code" /\ CodeNotFresh(c))
  THEN IF c.probe = "code" THEN SayGrounded("ASK_PROBE") ELSE Say("ASK_PROBE")
  ELSE Silent

\* Rules 3a to 10, for a turn that is over.
RespondToTurn(c) ==
  IF c.redeliver THEN Say("DELIVER_BRIEF")
  ELSE IF RepeatRequested(c) THEN Say("DELIVER_BRIEF")
  ELSE IF c.turn.intent \in Questions THEN Answer(c)
  ELSE IF c.turn.intent = "HINT_REQUEST" THEN RequestedHint(c)
  ELSE IF c.turn.intent = "SOCIAL_SMALL_TALK" THEN SmallTalk
  ELSE IF c.stage = "FOLLOW_UP" /\ c.followUp THEN Say("PRESENT_FOLLOW_UP")
  ELSE IF ObserverTrailsMovingCode(c) THEN Silent
  ELSE IF c.probe # "none" THEN Probe(c)
  ELSE IF UnsolicitedHintDue(c) /\ ~CodeNotFresh(c)
       THEN Hint(NextHintLevel(c.hints), TRUE)
  ELSE Silent

\* decide()
Wanted(c) ==
  IF OpeningDue(c) \/ RedeliveryDueOnReadiness(c) THEN Say("DELIVER_BRIEF")
  ELSE IF BargeIn(c) \/ c.speakingNow \/ ~TurnOver(c) THEN Silent
  ELSE RespondToTurn(c)

\* decideAction(): a decision the stage forbids degrades to silence.
Decide(c) ==
  IF IsActionAllowed(c.stage, Wanted(c).action) THEN Wanted(c) ELSE Silent

=============================================================================
