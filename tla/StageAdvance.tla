---------------------------- MODULE StageAdvance ----------------------------
(***************************************************************************)
(* orchestrator/stage-advance.ts: which stage a round moves to next, given *)
(* what the log says has happened.  NextStage is a set with at most one    *)
(* element; the empty set is the code's null.                              *)
(*                                                                         *)
(* A signals record s has the fields of the code's StageSignals that the   *)
(* rules read: stage, briefs (briefDeliveryCount), reasoning               *)
(* (reasoningTurnsInStage), rev (latestCodeRevision), approach             *)
(* (approachCommitted), runs (runsStarted), passed (BASE_TESTS_PASS among  *)
(* the milestones), remaining (seconds) and followUps (presented).         *)
(***************************************************************************)
EXTENDS Integers, InterviewContract

CONSTANTS WrapUpSeconds,       \* policy.wrapUpSeconds
          FollowUpMinSeconds,  \* policy.followUpMinSeconds
          FollowUpsAvailable   \* scenario.followUps.length

\* Every policy of orchestrator/policy.ts leaves more time for a follow-up
\* than for the wrap-up.
ASSUME PolicyAssumption ==
  /\ WrapUpSeconds \in Nat
  /\ FollowUpMinSeconds \in Nat
  /\ FollowUpMinSeconds > WrapUpSeconds
  /\ FollowUpsAvailable \in Nat

ReasoningTurnsToLeaveClarification == 2

ReasoningIntents ==
  {"THINK_ALOUD", "APPROACH_COMMITMENT", "COMPLEXITY_CLAIM", "TEST_PLAN",
   "DONE_SIGNAL"}

\* The single-step path a round under time pressure walks.
TowardWrapUp ==
  [ORAL_PROBLEM_DELIVERY |-> {"CLARIFICATION"},
   CLARIFICATION         |-> {"APPROACH_EXPLORATION"},
   APPROACH_EXPLORATION  |-> {"IMPLEMENTATION"},
   IMPLEMENTATION        |-> {"TEST_AND_DEBUG"},
   TEST_AND_DEBUG        |-> {"WRAP_UP"},
   FOLLOW_UP             |-> {"WRAP_UP"},
   WRAP_UP               |-> {},
   EVALUATION            |-> {}]

\* Defect: the last moment before the wrap-up is not yet time pressure.
TimePressureLate(s) ==
  IF s.briefs > 0 /\ s.remaining < WrapUpSeconds
  THEN TowardWrapUp[s.stage]
  ELSE {}

TimePressure(s) ==
  IF s.briefs > 0 /\ s.remaining <= WrapUpSeconds
  THEN TowardWrapUp[s.stage]
  ELSE {}

AllFollowUpsPresented(s) == s.followUps >= FollowUpsAvailable

\* The one stage each stage leads to when the round is not short of time.
Goal ==
  [ORAL_PROBLEM_DELIVERY |-> "CLARIFICATION",
   CLARIFICATION         |-> "APPROACH_EXPLORATION",
   APPROACH_EXPLORATION  |-> "IMPLEMENTATION",
   IMPLEMENTATION        |-> "TEST_AND_DEBUG",
   TEST_AND_DEBUG        |-> "FOLLOW_UP",
   FOLLOW_UP             |-> "WRAP_UP"]

\* What the candidate must have done for a stage to be over.
StageDone(s) ==
  CASE s.stage = "ORAL_PROBLEM_DELIVERY" -> s.briefs > 0
    [] s.stage = "CLARIFICATION" ->
         \/ s.rev > 0
         \/ s.approach
         \/ s.reasoning >= ReasoningTurnsToLeaveClarification
    [] s.stage = "APPROACH_EXPLORATION" -> s.rev > 0
    [] s.stage = "IMPLEMENTATION" -> s.runs > 0
    [] s.stage = "TEST_AND_DEBUG" ->
         /\ s.passed
         /\ ~AllFollowUpsPresented(s)
         /\ s.remaining >= FollowUpMinSeconds
    [] s.stage = "FOLLOW_UP" -> AllFollowUpsPresented(s)
    [] OTHER -> FALSE

ByProgress(s) == IF StageDone(s) THEN {Goal[s.stage]} ELSE {}

NextStage(s) ==
  LET due == IF TimePressure(s) # {} THEN TimePressure(s) ELSE ByProgress(s)
  IN  IF IsActionAllowed(s.stage, "TRANSITION_STAGE")
      THEN {to \in due : IsTransitionAllowed(s.stage, to)}
      ELSE {}

=============================================================================
