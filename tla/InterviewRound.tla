---------------------------- MODULE InterviewRound ----------------------------
(***************************************************************************)
(* A whole round with nothing in flight: each event is judged, realized    *)
(* and followed by its stage transitions before the next one.  This is     *)
(* orchestrator/runtime.ts's ingest read as one atomic step, around the    *)
(* gate (ResponseGate) and the stage rules (StageAdvance), so that every   *)
(* mix of stage, evidence, hints and circumstances a round can reach meets *)
(* every rule.  InterviewRuntime has the interleavings.                    *)
(*                                                                         *)
(* `round` is what the rules read; what the scenario's author wrote is     *)
(* Scenario's.  `setting` says which mix a behaviour is about.             *)
(***************************************************************************)
EXTENDS StageAdvance, ResponseGate, Scenario

CONSTANTS Settings,          \* the rounds to look at
          MaxRepeats         \* deliveries of the brief on the candidate's request

\* A setting: shapes (what a finished turn may say), floors (the floor flags),
\* codes (what the gate may know about the code), paces ([paced, stuck]),
\* outcomes (whether an opening is heard), families (what the observer may
\* recognize), strengths (how strong the round may be) and clock (the
\* remaining seconds it shows, from the first).
ASSUME RoundAssumption ==
  /\ MaxRepeats \in Nat
  /\ FollowUpsAvailable = Len(FollowUps)
  /\ \A s \in Settings : \A i \in DOMAIN s.clock : s.clock[i] <= s.clock[1]

VARIABLES setting, round
vars == <<setting, round>>

StageAdvanceLimit == 8
MaxOpeningRedeliveries == 2

\* triggerCtx: what the scenario's triggers read of the round.
Candidate(r) ==
  [stage |-> r.stage, remaining |-> r.remaining, uses |-> r.uses, followUps |-> r.followUps,
   milestones |-> IF r.passed THEN {"BASE_TESTS_PASS"} ELSE {}, understood |-> r.understood,
   claimedTime |-> r.claimedTime, currentApproach |-> r.currentApproach,
   detectedFamily |-> r.detectedFamily]

\* The stage after this one, for as long as there is one; a stage starts with
\* no reasoning turns.
Due(r) == NextStage([r EXCEPT !.followUps = Len(@)])

StepStage(rounds) ==
  UNION {IF Due(r) = {} THEN {r}
         ELSE {[r EXCEPT !.stage = to, !.reasoning = 0] : to \in Due(r)} : r \in rounds}

\* advanceStages: at most StageAdvanceLimit steps, the last ones idle.
Advanced(r) ==
  LET walk[n \in 0..StageAdvanceLimit] ==
        IF n = 0 THEN {r} ELSE StepStage(walk[n - 1])
  IN  IF Due(r) = {} THEN {r} ELSE walk[StageAdvanceLimit]

NoTurn == [present |-> FALSE, finalized |-> FALSE, ended |-> FALSE, repeat |-> FALSE,
           intent |-> "THINK_ALOUD", asks |-> Missing, mentions |-> {},
           claims |-> Missing, names |-> FALSE]

Kind(probes) ==
  IF probes = {} THEN "none" ELSE IF \E p \in probes : NeedsCode(p) THEN "code" ELSE "plain"

\* What the gate is asked about: the round, the turn, who has the floor, what
\* is known of the code and the pace, and what the scenario has to say.
Context(r, turn, floor, code, pace, scenario) ==
  [stage |-> r.stage, briefs |-> r.briefs, redeliver |-> r.redeliver, hints |-> r.hints,
   turn |-> [present |-> turn.present, finalized |-> turn.finalized, ended |-> turn.ended,
             repeat |-> turn.repeat, intent |-> turn.intent,
             answerable |-> scenario.answerable],
   speaking |-> floor.speaking, speechStarted |-> floor.speechStarted,
   speakingNow |-> floor.speakingNow,
   behind |-> code.behind, coded |-> code.coded, aged |-> code.aged,
   moving |-> code.moving, quiet |-> code.quiet, paced |-> pace.paced, stuck |-> pace.stuck,
   probe |-> scenario.probe, followUp |-> scenario.followUp]

\* A decision, with what the scenario chose for it to say.
Choice(r, turn, floor, code, pace, probes, followUp) ==
  [said     |-> Decide(Context(r, turn, floor, code, pace,
                  [answerable |-> Disclosable(turn.asks, Candidate(r)),
                   probe |-> Kind(probes), followUp |-> followUp # {}])),
   probe    |-> {p.id : p \in probes},
   followUp |-> followUp,
   fact     |-> {turn.asks}]

\* The decisions it may come to, the code and the pace being as they may.
Decisions(r, turn, floor) ==
  LET probes    == SelectedProbe(Candidate(r))
      followUps == {SelectedFollowUp(Candidate(r), strength) : strength \in setting.strengths}
  IN  {Choice(r, turn, floor, code, pace, probes, followUp) :
         code \in setting.codes, pace \in setting.paces, followUp \in followUps}

\* realize(): what saying it leaves behind.
Realized(r, choice) ==
  LET d == choice.said IN
  CASE d.action = "DELIVER_BRIEF" /\ r.redeliver ->
         [r EXCEPT !.redeliver = FALSE, !.redeliveries = @ + 1, !.opening = TRUE]
    [] d.action = "DELIVER_BRIEF" /\ ~r.redeliver ->
         [r EXCEPT !.briefs = @ + 1, !.opening = r.briefs = 0]
    [] d.action = "ANSWER_CLARIFICATION" ->
         [r EXCEPT !.facts = @ \cup choice.fact, !.opening = FALSE]
    [] d.action = "ASK_PROBE" ->
         [r EXCEPT !.uses = [p \in DOMAIN @ |-> @[p] + Cardinality({p} \cap choice.probe)],
                   !.opening = FALSE]
    [] d.level > 0 -> [r EXCEPT !.hints = Append(@, d.level), !.opening = FALSE]
    [] d.action = "PRESENT_FOLLOW_UP" ->
         [r EXCEPT !.followUps = @ \o SetToSeq(choice.followUp), !.opening = FALSE]
    [] d = Silent -> r
    [] OTHER -> [r EXCEPT !.opening = FALSE]

\* observeTranscript: the claim, the approach and the constraints the turn
\* put into words.
Observed(r, turn) ==
  [r EXCEPT !.claimedTime     = IF turn.claims = Missing THEN @ ELSE turn.claims,
            !.currentApproach = IF turn.names THEN "named" ELSE @,
            !.understood      = @ \cup turn.mentions]

\* A readiness report: the gate is asked with no turn at hand.
Ready(floor) ==
  \E d \in Decisions(round, NoTurn, floor) : round' \in Advanced(Realized(round, d))

\* What a turn tells the stages, before the gate is asked about it.
Folded(turn) ==
  IF turn.finalized
  THEN [round EXCEPT !.reasoning = IF turn.intent \in ReasoningIntents /\ @ < 2
                                   THEN @ + 1 ELSE @,
                     !.approach  = @ \/ turn.intent = "APPROACH_COMMITMENT"]
  ELSE round

\* A finished turn: its stage evidence first, then the stages, then the gate,
\* then the observer.
TakeTurn(turn, floor) ==
  \E moved \in Advanced(Folded(turn)) : \E d \in Decisions(moved, turn, floor) :
    /\ d.said.action = "DELIVER_BRIEF" => moved.redeliver \/ moved.briefs <= MaxRepeats
    /\ \E after \in Advanced(Realized(moved, d)) : round' = Observed(after, turn)

\* The outcome of an opening still authorized: heard, or owed again while a
\* redelivery is left (markSpeechFinished).
OpeningOutcome(heard) ==
  LET owed   == ~heard /\ (round.redeliver \/ round.redeliveries < MaxOpeningRedeliveries)
      closed == [round EXCEPT !.opening = FALSE, !.redeliver = owed]
  IN  /\ round.opening
      /\ round' \in IF round.stage = "ORAL_PROBLEM_DELIVERY"
                    THEN Advanced(closed) ELSE {closed}

\* A revision, and what the observer makes of it: a solution family of its
\* own list, or none.
EditCode(family) ==
  /\ round.rev = 0 \/ family # round.detectedFamily
  /\ \E moved \in Advanced([round EXCEPT !.rev = 1]) :
       round' = [moved EXCEPT !.detectedFamily = family]

RunCode ==
  /\ round.runs = 0
  /\ round' \in Advanced([round EXCEPT !.runs = 1])

PassTests ==
  /\ round.runs > 0
  /\ round' \in Advanced([round EXCEPT !.passed = TRUE])

\* Time passes; the stages notice at the next event.
ClockRuns ==
  /\ \E later \in ToSet(setting.clock) :
       /\ later < round.remaining
       /\ round' = [round EXCEPT !.remaining = later]

Init ==
  /\ setting \in Settings
  /\ round = [stage |-> "ORAL_PROBLEM_DELIVERY", briefs |-> 0, opening |-> FALSE,
              redeliver |-> FALSE, redeliveries |-> 0, reasoning |-> 0,
              approach |-> FALSE, rev |-> 0, runs |-> 0, passed |-> FALSE, remaining |-> setting.clock[1],
              followUps |-> <<>>, hints |-> <<>>, facts |-> {},
              uses |-> [p \in ProbeIds |-> 0], understood |-> {},
              claimedTime |-> Missing, currentApproach |-> Missing,
              detectedFamily |-> Missing]

Handle ==
  \/ \E floor \in setting.floors : Ready(floor)
  \/ \E turn \in setting.shapes, floor \in setting.floors : TakeTurn(turn, floor)
  \/ \E family \in setting.families : EditCode(family)
  \/ RunCode \/ PassTests

Next ==
  /\ Handle \/ (\E heard \in setting.outcomes : OpeningOutcome(heard)) \/ ClockRuns
  /\ UNCHANGED setting

Spec == Init /\ [][Next]_vars

-----------------------------------------------------------------------------
\* Over a whole round, whoever asked and however often, the interviewer stays
\* within what the policy grants and the author wrote: hints climb one level at
\* a time from the first and stop at the ceiling and the budget; no probe is
\* asked more often than it may be; no follow-up is presented twice; and a fact
\* held back until a probe is told only after one (nextAllowedHintLevel,
\* eligibleProbes, eligibleFollowUps, getClarificationFact, realize).
KeepsToTheScenario ==
  /\ \A i \in DOMAIN round.hints : round.hints[i] = i
  /\ Len(round.hints) <= MaxHintLevel /\ Len(round.hints) <= HintBudget
  /\ \A i \in DOMAIN Probes : round.uses[Probes[i].id] <= Probes[i].maxUses
  /\ IsInjective(round.followUps)
  /\ \A key \in round.facts : Facts[key] = "AFTER_PROBE" => AskedIds(round) # {}

\* Once time presses, the next event leaves the round winding down, from
\* whichever stage it was in: the walk toward WRAP_UP is never cut short
\* (TOWARD_WRAP_UP, STAGE_ADVANCE_LIMIT).
WindsDownUnderPressure ==
  [][ Handle /\ round'.briefs > 0 /\ round'.remaining <= WrapUpSeconds
        => round'.stage \in {"WRAP_UP", "EVALUATION"} ]_vars

=============================================================================
