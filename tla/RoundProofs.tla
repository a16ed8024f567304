----------------------------- MODULE RoundProofs -----------------------------
(***************************************************************************)
(* Proofs about InterviewRound, for every policy, scenario and setting.    *)
(*                                                                         *)
(* What the interviewer may say rests on two things.  A decision says no   *)
(* more than the rule that made it was granted (Granted), and what saying  *)
(* it leaves behind is one more of what was counted (Kept).  That a round  *)
(* winds down rests on how far each stage is from its end.                 *)
(***************************************************************************)
EXTENDS InterviewRound, FiniteSetTheorems, FunctionTheorems, SequenceTheorems, TLAPS

-----------------------------------------------------------------------------
(* The round.                                                              *)

Fields ==
  {"stage", "briefs", "opening", "redeliver", "redeliveries", "reasoning", "approach",
   "rev", "runs", "passed", "remaining", "followUps", "hints", "facts", "uses",
   "understood", "claimedTime", "currentApproach", "detectedFamily"}

Counted == {"stage", "hints", "uses", "followUps", "facts"}

\* The hints given climb from the first, to the ceiling and the budget.
HintsKept(hints) ==
  /\ hints \in Seq(Nat)
  /\ \A i \in 1..Len(hints) : hints[i] = i
  /\ Len(hints) <= MaxHintLevel /\ Len(hints) <= HintBudget

\* No probe was asked more often than it may be.
UsesKept(uses) ==
  /\ uses \in [ProbeIds -> Nat]
  /\ \A i \in DOMAIN Probes : uses[Probes[i].id] <= Probes[i].maxUses

\* No follow-up was presented twice.
FollowUpsKept(followUps) ==
  /\ followUps \in Seq({FollowUps[i].id : i \in DOMAIN FollowUps})
  /\ IsInjective(followUps)

\* What was held back until a probe was told after one.
FactsKept(facts, uses) ==
  \A key \in facts : Facts[key] = "AFTER_PROBE" => \E p \in ProbeIds : uses[p] > 0

Kept(r) ==
  /\ r = [f \in Fields |-> r[f]]
  /\ r.stage \in States
  /\ HintsKept(r.hints) /\ UsesKept(r.uses) /\ FollowUpsKept(r.followUps)
  /\ FactsKept(r.facts, r.uses)

\* What the invariant is for.
LEMMA KeptIsEnough == Kept(round) => KeepsToTheScenario
<1> SUFFICES ASSUME Kept(round) PROVE KeepsToTheScenario
  OBVIOUS
<1>1. DOMAIN round.hints = 1..Len(round.hints)
  BY DEF Kept, HintsKept
<1>2. DOMAIN round.uses = ProbeIds
  BY DEF Kept, UsesKept
<1>3. \A key \in round.facts : Facts[key] = "AFTER_PROBE" => AskedIds(round) # {}
  BY <1>2 DEF Kept, FactsKept, AskedIds
<1> QED
  BY <1>1, <1>3 DEF Kept, HintsKept, UsesKept, FollowUpsKept, KeepsToTheScenario

\* A change of the fields the invariant does not count.
LEMMA Uncounted ==
  ASSUME NEW r, Kept(r), NEW q, q = [f \in Fields |-> q[f]], q.stage \in States,
         q.hints = r.hints, q.uses = r.uses, q.followUps = r.followUps, q.facts = r.facts
  PROVE  Kept(q)
BY DEF Kept

-----------------------------------------------------------------------------
(* The stages.                                                             *)

\* Where a round may go: on, by the table of the contract.
LEMMA DueIsAllowed ==
  ASSUME NEW r, r = [f \in Fields |-> r[f]], r.stage \in States, NEW to \in Due(r)
  PROVE  to \in AllowedTransitions[r.stage] /\ to \in States
<1>1. PICK s : s = [r EXCEPT !.followUps = Len(@)]
  OBVIOUS
<1>2. s.stage = r.stage /\ to \in NextStage(s)
  BY <1>1 DEF Due, Fields
<1>3. to \in AllowedTransitions[r.stage]
  BY <1>2 DEF NextStage, IsTransitionAllowed
<1> QED
  BY <1>3 DEF AllowedTransitions, States

\* One step of the walk: the stage, and the reasoning turns in it.
LEMMA StageSteps ==
  ASSUME NEW r, r = [f \in Fields |-> r[f]], r.stage \in States, NEW q \in StepStage({r})
  PROVE  \/ q = r /\ Due(r) = {}
         \/ /\ q.stage \in Due(r) /\ q = [f \in Fields |-> q[f]] /\ q.stage \in States
            /\ \A f \in Fields \ {"stage", "reasoning"} : q[f] = r[f]
<1>1. \/ q = r /\ Due(r) = {}
      \/ \E to \in Due(r) : q = [r EXCEPT !.stage = to, !.reasoning = 0]
  <2>1. q \in IF Due(r) = {} THEN {r}
              ELSE {[r EXCEPT !.stage = to, !.reasoning = 0] : to \in Due(r)}
    BY Zenon DEF StepStage
  <2> QED
    BY <2>1, Zenon
<1>2. ASSUME NEW to \in Due(r), q = [r EXCEPT !.stage = to, !.reasoning = 0]
      PROVE  /\ q.stage = to /\ q = [f \in Fields |-> q[f]]
             /\ \A f \in Fields \ {"stage", "reasoning"} : q[f] = r[f]
  <2>1. PICK p : p = [r EXCEPT !.stage = to]
    OBVIOUS
  <2>2. "stage" \in Fields /\ "reasoning" \in Fields
    BY DEF Fields
  <2>3. /\ p["stage"] = to /\ p = [f \in Fields |-> p[f]]
        /\ \A f \in Fields \ {"stage"} : p[f] = r[f]
    BY <2>1, <2>2
  <2>4. q = [p EXCEPT !.reasoning = 0]
    BY <1>2, <2>1
  <2> QED
    BY <2>2, <2>3, <2>4
<1> QED
  BY <1>1, <1>2, DueIsAllowed

\* The walk takes its steps one at a time from each of the rounds it is at.
LEMMA StepsAreOfEach ==
  ASSUME NEW rounds, NEW q \in StepStage(rounds)
  PROVE  \E r \in rounds : q \in StepStage({r})
BY DEF StepStage

\* advanceStages: a round with nowhere to go, or eight steps.
LEMMA AdvancedInSteps ==
  ASSUME NEW r
  PROVE  Advanced(r) =
           IF Due(r) = {} THEN {r}
           ELSE StepStage(StepStage(StepStage(StepStage(
                  StepStage(StepStage(StepStage(StepStage({r}))))))))
<1> DEFINE Walks(w) == w = [n \in 0..8 |-> IF n = 0 THEN {r} ELSE StepStage(w[n - 1])]
           walk == CHOOSE w : Walks(w)
<1>1. \E w : Walks(w)
  <2>1. PICK s0 : s0 = {r}
    OBVIOUS
  <2>2. PICK s1, s2, s3, s4 : /\ s1 = StepStage(s0) /\ s2 = StepStage(s1)
                              /\ s3 = StepStage(s2) /\ s4 = StepStage(s3)
    OBVIOUS
  <2>3. PICK s5, s6, s7, s8 : /\ s5 = StepStage(s4) /\ s6 = StepStage(s5)
                              /\ s7 = StepStage(s6) /\ s8 = StepStage(s7)
    OBVIOUS
  <2>4. PICK w : w = [n \in 0..8 |->
                        CASE n = 0 -> s0 [] n = 1 -> s1 [] n = 2 -> s2 [] n = 3 -> s3
                          [] n = 4 -> s4 [] n = 5 -> s5 [] n = 6 -> s6 [] n = 7 -> s7
                          [] OTHER -> s8]
    OBVIOUS
  <2>5. /\ w[0] = s0 /\ w[1] = s1 /\ w[2] = s2 /\ w[3] = s3 /\ w[4] = s4
        /\ w[5] = s5 /\ w[6] = s6 /\ w[7] = s7 /\ w[8] = s8
    BY <2>4
  <2>6. \A n \in 0..8 : w[n] = IF n = 0 THEN {r} ELSE StepStage(w[n - 1])
    BY <2>1, <2>2, <2>3, <2>5
  <2>7. w = [n \in 0..8 |-> w[n]]
    BY <2>4
  <2> QED
    BY <2>6, <2>7
<1>2. Walks(walk)
  BY <1>1
<1>3. Advanced(r) = IF Due(r) = {} THEN {r} ELSE walk[8]
  BY DEF Advanced, StageAdvanceLimit
<1> HIDE DEF walk
<1>4. walk[0] = {r} /\ \A n \in 1..8 : walk[n] = StepStage(walk[n - 1])
  BY <1>2
<1>5. /\ walk[1] = StepStage({r}) /\ walk[2] = StepStage(walk[1])
      /\ walk[3] = StepStage(walk[2]) /\ walk[4] = StepStage(walk[3])
      /\ walk[5] = StepStage(walk[4]) /\ walk[6] = StepStage(walk[5])
      /\ walk[7] = StepStage(walk[6]) /\ walk[8] = StepStage(walk[7])
  BY <1>4
<1> QED
  BY <1>3, <1>5

\* The walk counts nothing.
LEMMA AdvancedIsKept ==
  ASSUME NEW r, Kept(r), NEW q \in Advanced(r)
  PROVE  Kept(q) /\ \A f \in Fields \ {"stage", "reasoning"} : q[f] = r[f]
<1> DEFINE Same(x) == /\ x = [f \in Fields |-> x[f]] /\ x.stage \in States
                      /\ \A f \in Fields \ {"stage", "reasoning"} : x[f] = r[f]
<1>1. ASSUME NEW rounds, \A x \in rounds : Same(x), NEW x \in StepStage(rounds) PROVE Same(x)
  <2>1. PICK y \in rounds : x \in StepStage({y})
    BY <1>1, StepsAreOfEach
  <2>2. Same(y)
    BY <1>1
  <2>3. \/ x = y
        \/ /\ x = [f \in Fields |-> x[f]] /\ x.stage \in States
           /\ \A f \in Fields \ {"stage", "reasoning"} : x[f] = y[f]
    BY <2>1, <2>2, StageSteps
  <2> QED
    BY <2>2, <2>3
<1>2. \A x \in {r} : Same(x)
  BY DEF Kept
<1> HIDE DEF Same
<1>3. PICK s1 : s1 = StepStage(StepStage({r}))
  OBVIOUS
<1>4. PICK s2 : s2 = StepStage(StepStage(s1))
  OBVIOUS
<1>5. PICK s3 : s3 = StepStage(StepStage(s2))
  OBVIOUS
<1>6. PICK s4 : s4 = StepStage(StepStage(s3))
  OBVIOUS
<1>7. \A rounds : (\A x \in rounds : Same(x)) => \A x \in StepStage(rounds) : Same(x)
  BY <1>1
<1>8. \A x \in s1 : Same(x)
  BY <1>2, <1>3, <1>7
<1>9. \A x \in s2 : Same(x)
  BY <1>4, <1>7, <1>8
<1>10. \A x \in s3 : Same(x)
  BY <1>5, <1>7, <1>9
<1>11. \A x \in s4 : Same(x)
  BY <1>6, <1>7, <1>10
<1>12. q \in {r} \/ q \in s4
  BY <1>3, <1>4, <1>5, <1>6, AdvancedInSteps
<1>13. Same(q)
  BY <1>2, <1>11, <1>12
<1>14. /\ {"hints", "uses", "followUps", "facts"} \subseteq Fields \ {"stage", "reasoning"}
       /\ q.hints = r.hints /\ q.uses = r.uses /\ q.followUps = r.followUps /\ q.facts = r.facts
  BY <1>13 DEF Fields, Same
<1> QED
  BY <1>13, <1>14, Uncounted DEF Same

-----------------------------------------------------------------------------
(* The decisions.                                                          *)

\* The highest of the hints given, which climb from the first.
LEMMA HighestIsLast ==
  ASSUME NEW hints, HintsKept(hints)
  PROVE  HighestHint(hints) = Len(hints)
<1>1. PICK levels : levels = {0} \cup {hints[i] : i \in DOMAIN hints}
  OBVIOUS
<1>2. DOMAIN hints = 1..Len(hints) /\ Len(hints) \in Nat
  BY DEF HintsKept
<1>3. \A x : x \in levels <=> x = 0 \/ x \in 1..Len(hints)
  BY <1>1, <1>2 DEF HintsKept
<1>4. Len(hints) \in levels /\ \A x \in levels : Len(hints) >= x
  BY <1>2, <1>3
<1>5. \A y \in levels : (\A x \in levels : y >= x) => y = Len(hints)
  BY <1>2, <1>3, <1>4
<1>6. Max(levels) = Len(hints)
  BY <1>4, <1>5 DEF Max
<1> QED
  BY <1>1, <1>6 DEF HighestHint

\* A hint is the level the policy allows next: one more than the last.
LEMMA NextHintClimbs ==
  ASSUME NEW hints, HintsKept(hints), NextHintLevel(hints) # 0
  PROVE  HintsKept(Append(hints, NextHintLevel(hints)))
<1>1. /\ Len(hints) \in Nat /\ hints \in Seq(Nat)
      /\ Len(hints) < HintBudget /\ Len(hints) + 1 <= MaxHintLevel
      /\ NextHintLevel(hints) = Len(hints) + 1
  BY HighestIsLast DEF NextHintLevel, HintsKept
<1>2. PICK n : n = NextHintLevel(hints)
  OBVIOUS
<1>3. /\ Append(hints, n) \in Seq(Nat) /\ Len(Append(hints, n)) = Len(hints) + 1
      /\ \A i \in 1..Len(hints) : Append(hints, n)[i] = hints[i]
      /\ Append(hints, n)[Len(hints) + 1] = n
  BY <1>1, <1>2
<1>4. Len(hints) + 1 <= HintBudget
  BY <1>1, HintAssumption
<1> QED
  BY <1>1, <1>2, <1>3, <1>4 DEF HintsKept

\* What the gate grants: a hint is the next one, and a fact may be disclosed.
Granted(d, c) ==
  /\ d.level # 0 => d.level = NextHintLevel(c.hints)
  /\ d.action = "ANSWER_CLARIFICATION" => c.turn.answerable

\* decide never grants more than that, whichever of its rules answers.
LEMMA DecideGrants ==
  ASSUME NEW c
  PROVE  Granted(Decide(c), c)
<1>1. \A action : /\ Say(action).level = 0 /\ Say(action).action = action
                  /\ SayGrounded(action).level = 0 /\ SayGrounded(action).action = action
  BY DEF Say, SayGrounded
<1>2. \A level, grounded : Hint(level, grounded).level = level
        /\ Hint(level, grounded).action # "ANSWER_CLARIFICATION"
  BY DEF Hint
<1>3. Granted(Silent, c) /\ Granted(Say("DELIVER_BRIEF"), c)
      /\ Granted(Say("PRESENT_FOLLOW_UP"), c)
  BY <1>1 DEF Granted, Silent
<1>4. Granted(Answer(c), c)
  <2>1. Granted(Say("ACKNOWLEDGE_BRIEFLY"), c)
    BY <1>1 DEF Granted
  <2>2. c.turn.answerable => Granted(Say("ANSWER_CLARIFICATION"), c)
    BY <1>1 DEF Granted
  <2> QED
    BY <2>1, <2>2 DEF Answer
<1>5. Granted(RequestedHint(c), c)
  BY <1>2, <1>3 DEF Granted, RequestedHint
<1>6. Granted(SmallTalk, c)
  BY <1>1, <1>3 DEF Granted, SmallTalk
<1>7. Granted(Probe(c), c)
  BY <1>1, <1>3 DEF Granted, Probe
<1>8. Granted(Hint(NextHintLevel(c.hints), TRUE), c)
  BY <1>2 DEF Granted
<1>9. Granted(RespondToTurn(c), c)
  BY <1>3, <1>4, <1>5, <1>6, <1>7, <1>8 DEF RespondToTurn
<1>10. Granted(Wanted(c), c)
  BY <1>3, <1>9 DEF Wanted
<1> QED
  BY <1>3, <1>10 DEF Decide

\* A choice of the round's: a decision with what the scenario gave it.
Chosen(r, choice) ==
  LET s == Candidate(r)
  IN  /\ choice.said.level # 0 => choice.said.level = NextHintLevel(r.hints)
      /\ choice.said.action = "ANSWER_CLARIFICATION" =>
           \A key \in choice.fact : Disclosable(key, s)
      /\ choice.probe = {p.id : p \in SelectedProbe(s)}
      /\ \E strength : choice.followUp = SelectedFollowUp(s, strength)

\* Every decision of a round is one the scenario allowed it.
LEMMA DecisionsAreChosen ==
  ASSUME NEW r, NEW turn, NEW floor, NEW choice \in Decisions(r, turn, floor)
  PROVE  Chosen(r, choice)
<1>1. PICK s : s = Candidate(r)
  OBVIOUS
<1>2. PICK probes : probes = SelectedProbe(s)
  OBVIOUS
<1>3. \E code, pace, strength :
        choice = Choice(r, turn, floor, code, pace, probes, SelectedFollowUp(s, strength))
  BY <1>1, <1>2 DEF Decisions
<1>4. PICK code, pace, strength, followUp :
        /\ followUp = SelectedFollowUp(s, strength)
        /\ choice = Choice(r, turn, floor, code, pace, probes, followUp)
  BY <1>3
<1>5. PICK scenario : scenario = [answerable |-> Disclosable(turn.asks, s),
                                  probe |-> Kind(probes), followUp |-> followUp # {}]
  OBVIOUS
<1>6. PICK c : c = Context(r, turn, floor, code, pace, scenario)
  OBVIOUS
<1>7. /\ choice.said = Decide(c) /\ choice.probe = {p.id : p \in probes}
      /\ choice.followUp = followUp /\ choice.fact = {turn.asks}
  BY <1>1, <1>4, <1>5, <1>6 DEF Choice
<1>8. c.hints = r.hints /\ (c.turn.answerable <=> Disclosable(turn.asks, s))
  BY <1>5, <1>6 DEF Context
<1>9. Granted(choice.said, c)
  BY <1>7, DecideGrants
<1>10. /\ choice.said.level # 0 => choice.said.level = NextHintLevel(r.hints)
       /\ choice.said.action = "ANSWER_CLARIFICATION" => Disclosable(turn.asks, s)
  BY <1>8, <1>9 DEF Granted
<1> QED
  BY <1>1, <1>2, <1>4, <1>7, <1>10 DEF Chosen

-----------------------------------------------------------------------------
(* What saying it leaves behind.                                           *)

\* A probe that is asked was asked less often than it may be.
LEMMA ProbeIsCounted ==
  ASSUME NEW r, Kept(r), NEW choice, Chosen(r, choice), NEW uses,
         uses = [p \in DOMAIN r.uses |-> r.uses[p] + Cardinality({p} \cap choice.probe)]
  PROVE  UsesKept(uses) /\ \A p \in ProbeIds : r.uses[p] > 0 => uses[p] > 0
<1>1. DOMAIN r.uses = ProbeIds /\ r.uses \in [ProbeIds -> Nat]
  BY DEF Kept, UsesKept
<1>2. \A p : Cardinality({p} \cap choice.probe) = IF p \in choice.probe THEN 1 ELSE 0
  <2> SUFFICES ASSUME NEW p
               PROVE  Cardinality({p} \cap choice.probe) = IF p \in choice.probe THEN 1 ELSE 0
    OBVIOUS
  <2>1. CASE p \in choice.probe
    <3>1. {p} \cap choice.probe = {p}
      BY <2>1
    <3> QED
      BY <2>1, <3>1, FS_Singleton
  <2>2. CASE p \notin choice.probe
    <3>1. {p} \cap choice.probe = {}
      BY <2>2
    <3> QED
      BY <2>2, <3>1, FS_EmptySet
  <2> QED
    BY <2>1, <2>2
<1>3. \A p \in ProbeIds : uses[p] = r.uses[p] + IF p \in choice.probe THEN 1 ELSE 0
  BY <1>1, <1>2
<1>4. uses \in [ProbeIds -> Nat] /\ \A p \in ProbeIds : r.uses[p] > 0 => uses[p] > 0
  <2>1. uses = [p \in ProbeIds |-> uses[p]]
    BY <1>1
  <2>2. \A p \in ProbeIds : r.uses[p] \in Nat /\ (uses[p] = r.uses[p] \/ uses[p] = r.uses[p] + 1)
    BY <1>1, <1>3
  <2>3. ASSUME NEW p \in ProbeIds PROVE uses[p] \in Nat /\ (r.uses[p] > 0 => uses[p] > 0)
    <3>1. PICK n \in Nat : n = r.uses[p]
      BY <2>2
    <3>2. uses[p] = n \/ uses[p] = n + 1
      BY <2>2, <3>1
    <3> QED
      BY <3>1, <3>2
  <2> QED
    BY <2>1, <2>3
<1>5. PICK s : s = Candidate(r) /\ s.uses = r.uses
  <2>1. Candidate(r).uses = r.uses
    BY DEF Candidate
  <2> QED
    BY <2>1
<1>6. ASSUME NEW i \in DOMAIN Probes PROVE uses[Probes[i].id] <= Probes[i].maxUses
  <2>1. PICK p : p = Probes[i].id
    OBVIOUS
  <2>2. p \in ProbeIds /\ r.uses[p] <= Probes[i].maxUses /\ Probes[i].maxUses \in Nat
    BY <2>1, ScenarioAssumption DEF Kept, UsesKept, ProbeIds
  <2>3. CASE p \in choice.probe
    <3>1. PICK q \in SelectedProbe(s) : p = q.id
      BY <1>5, <2>3 DEF Chosen
    <3>2. PICK j \in DOMAIN Probes : q = Probes[j] /\ Eligible(Probes[j], s)
      BY <3>1 DEF SelectedProbe
    <3>3. i = j
      BY <2>1, <3>1, <3>2, ScenarioAssumption
    <3>4. r.uses[p] < Probes[i].maxUses
      BY <1>5, <2>1, <3>2, <3>3 DEF Eligible
    <3> QED
      BY <1>1, <1>3, <2>1, <2>2, <2>3, <3>4
  <2>4. CASE p \notin choice.probe
    BY <1>1, <1>3, <2>1, <2>2, <2>4
  <2> QED
    BY <2>3, <2>4
<1> QED
  BY <1>4, <1>6 DEF UsesKept

\* A follow-up that is presented was not before.
LEMMA FollowUpIsNew ==
  ASSUME NEW r, Kept(r), NEW choice, Chosen(r, choice)
  PROVE  FollowUpsKept(r.followUps \o SetToSeq(choice.followUp))
<1> DEFINE Ids == {FollowUps[i].id : i \in DOMAIN FollowUps}
<1>1. PICK s : s = Candidate(r) /\ s.followUps = r.followUps
  <2>1. Candidate(r).followUps = r.followUps
    BY DEF Candidate
  <2> QED
    BY <2>1
<1>2. PICK strength : choice.followUp = SelectedFollowUp(s, strength)
  BY <1>1 DEF Chosen
<1>3. PICK new : new = choice.followUp
  OBVIOUS
<1>4. \A x \in new : x \in Ids /\ x \notin ToSet(r.followUps)
  <2>1. \A i \in EligibleFollowUps(s) : FollowUps[i].id \in Ids
                                        /\ FollowUps[i].id \notin ToSet(r.followUps)
    BY <1>1 DEF EligibleFollowUps
  <2>2. \A x \in new : \E i \in EligibleFollowUps(s) : x = FollowUps[i].id
    BY <1>2, <1>3 DEF SelectedFollowUp
  <2> QED
    BY <2>1, <2>2
<1>5. IsFiniteSet(Ids)
  <2>1. IsFiniteSet(DOMAIN FollowUps)
    BY ScenarioAssumption, FS_Interval
  <2>2. PICK f : f = [i \in DOMAIN FollowUps |-> FollowUps[i].id]
    OBVIOUS
  <2>3. f \in Surjection(DOMAIN FollowUps, Ids)
    BY <2>2 DEF Surjection
  <2> QED
    BY <2>1, <2>3, FS_Surjection
<1> HIDE DEF Ids
<1>6. IsFiniteSet(new)
  <2>1. new \in SUBSET Ids
    BY <1>4
  <2> QED
    BY <1>5, <2>1, FS_Subset
<1>7. PICK n, t : /\ n \in Nat /\ t = SetToSeq(new) /\ t \in [1..n -> new]
                  /\ IsInjective(t)
  <2>1. Cardinality(new) \in Nat /\ ExistsBijection(1..Cardinality(new), new)
    BY <1>6, FS_CardinalityType
  <2>2. PICK f : f \in Bijection(1..Cardinality(new), new)
    BY <2>1 DEF ExistsBijection
  <2>3. f \in [1..Cardinality(new) -> new] /\ IsInjective(f)
    BY <2>2 DEF Bijection, Injection, IsInjective
  <2>4. /\ SetToSeq(new) \in [1..Cardinality(new) -> new]
        /\ IsInjective(SetToSeq(new))
    BY <2>3 DEF SetToSeq
  <2> QED
    BY <2>1, <2>4
<1>8. PICK old : old = r.followUps
  OBVIOUS
<1>9. old \in Seq(Ids) /\ DOMAIN old = 1..Len(old) /\ IsInjective(old)
  BY <1>8 DEF Kept, FollowUpsKept, Ids
<1>10. t \in Seq(Ids) /\ Len(t) = n /\ DOMAIN t = 1..n
  BY <1>4, <1>7
<1>11. /\ old \o t \in Seq(Ids) /\ Len(old \o t) = Len(old) + n
       /\ DOMAIN (old \o t) = 1..(Len(old) + n)
       /\ \A i \in 1..(Len(old) + n) :
            (old \o t)[i] = IF i <= Len(old) THEN old[i] ELSE t[i - Len(old)]
  BY <1>9, <1>10
<1>12. \A i \in 1..Len(old), j \in 1..n : old[i] # t[j]
  <2>1. \A j \in 1..n : t[j] \in new
    BY <1>7
  <2>2. \A i \in 1..Len(old) : old[i] \in ToSet(r.followUps)
    BY <1>8, <1>9 DEF ToSet
  <2> QED
    BY <1>4, <2>1, <2>2
<1>13. ASSUME NEW i \in 1..(Len(old) + n), NEW j \in 1..(Len(old) + n),
              (old \o t)[i] = (old \o t)[j]
       PROVE  i = j
  <2>1. CASE i <= Len(old) /\ j <= Len(old)
    BY <1>9, <1>11, <1>13, <2>1 DEF IsInjective
  <2>2. CASE i > Len(old) /\ j > Len(old)
    <3>1. /\ i - Len(old) \in 1..n /\ j - Len(old) \in 1..n
          /\ t[i - Len(old)] = t[j - Len(old)]
      BY <1>7, <1>9, <1>11, <1>13, <2>2
    <3>2. i - Len(old) = j - Len(old)
      BY <1>7, <1>10, <3>1 DEF IsInjective
    <3> QED
      BY <1>9, <3>2
  <2>3. CASE i <= Len(old) /\ j > Len(old)
    BY <1>7, <1>9, <1>11, <1>12, <1>13, <2>3
  <2>4. CASE i > Len(old) /\ j <= Len(old)
    BY <1>7, <1>9, <1>11, <1>12, <1>13, <2>4
  <2> QED
    BY <1>7, <1>9, <2>1, <2>2, <2>3, <2>4
<1>14. IsInjective(old \o t)
  BY <1>11, <1>13 DEF IsInjective
<1> QED
  BY <1>3, <1>7, <1>8, <1>11, <1>14 DEF FollowUpsKept, Ids

\* A fact held back until a probe is disclosed after one.
LEMMA FactIsDue ==
  ASSUME NEW r, Kept(r), NEW choice, Chosen(r, choice),
         choice.said.action = "ANSWER_CLARIFICATION"
  PROVE  FactsKept(r.facts \cup choice.fact, r.uses)
<1>1. PICK s : s = Candidate(r) /\ s.uses = r.uses
  <2>1. Candidate(r).uses = r.uses
    BY DEF Candidate
  <2> QED
    BY <2>1
<1>2. DOMAIN r.uses = ProbeIds
  BY DEF Kept, UsesKept
<1>3. \A key \in choice.fact : Disclosable(key, s)
  BY <1>1 DEF Chosen
<1>4. AskedIds(s) # {} => \E p \in ProbeIds : r.uses[p] > 0
  BY <1>1, <1>2 DEF AskedIds
<1>5. \A key \in choice.fact : Facts[key] = "AFTER_PROBE" => \E p \in ProbeIds : r.uses[p] > 0
  BY <1>3, <1>4 DEF Disclosable
<1> QED
  BY <1>5 DEF Kept, FactsKept

\* One more, or one fewer, field of a round.
LEMMA FieldIsPut ==
  ASSUME NEW r, r = [f \in Fields |-> r[f]], NEW field \in Fields, NEW value,
         NEW q, q = [r EXCEPT ![field] = value]
  PROVE  /\ q = [f \in Fields |-> q[f]] /\ q[field] = value
         /\ \A f \in Fields : f # field => q[f] = r[f]
OBVIOUS

\* A field the invariant does not count is put.
LEMMA UncountedIsPut ==
  ASSUME NEW r, Kept(r), NEW field \in Fields \ Counted,
         NEW value, NEW q, q = [r EXCEPT ![field] = value]
  PROVE  Kept(q) /\ \A f \in Fields : f # field => q[f] = r[f]
<1>1. {"stage", "hints", "uses", "followUps", "facts"} \subseteq Fields
  BY DEF Fields, Counted
<1>2. q = [f \in Fields |-> q[f]] /\ \A f \in Fields : f # field => q[f] = r[f]
  BY FieldIsPut DEF Kept
<1>3. /\ q.stage = r.stage /\ q.hints = r.hints /\ q.uses = r.uses
      /\ q.followUps = r.followUps /\ q.facts = r.facts
  BY <1>1, <1>2 DEF Counted
<1> QED
  BY <1>2, <1>3, Uncounted DEF Kept

\* realize(): what a decision leaves behind is counted.
LEMMA RealizedIsKept ==
  ASSUME NEW r, Kept(r), NEW choice, Chosen(r, choice)
  PROVE  Kept(Realized(r, choice))
<1>1. PICK d : d = choice.said
  OBVIOUS
<1>2. PICK q : q = Realized(r, choice)
  OBVIOUS
<1>3. \/ q = [r EXCEPT !.redeliver = FALSE, !.redeliveries = r.redeliveries + 1,
                       !.opening = TRUE]
      \/ q = [r EXCEPT !.briefs = r.briefs + 1, !.opening = r.briefs = 0]
      \/ /\ d.action = "ANSWER_CLARIFICATION"
         /\ q = [r EXCEPT !.facts = r.facts \cup choice.fact, !.opening = FALSE]
      \/ q = [r EXCEPT !.uses = [p \in DOMAIN r.uses |->
                                   r.uses[p] + Cardinality({p} \cap choice.probe)],
                       !.opening = FALSE]
      \/ /\ d.level > 0
         /\ q = [r EXCEPT !.hints = Append(r.hints, d.level), !.opening = FALSE]
      \/ q = [r EXCEPT !.followUps = r.followUps \o SetToSeq(choice.followUp),
                       !.opening = FALSE]
      \/ q = r
      \/ q = [r EXCEPT !.opening = FALSE]
  BY <1>1, <1>2 DEF Realized
<1>4. /\ {"facts", "uses", "hints", "followUps", "stage"} \subseteq Fields
      /\ "redeliver" \in Fields \ Counted
      /\ "redeliveries" \in Fields \ Counted
      /\ "opening" \in Fields \ Counted
      /\ "briefs" \in Fields \ Counted
  BY DEF Fields, Counted
<1>5. CASE q = [r EXCEPT !.redeliver = FALSE, !.redeliveries = r.redeliveries + 1,
                         !.opening = TRUE]
  <2>1. PICK p1 : p1 = [r EXCEPT !["redeliver"] = FALSE]
    OBVIOUS
  <2>2. PICK p2 : p2 = [p1 EXCEPT !["redeliveries"] = r.redeliveries + 1]
    OBVIOUS
  <2>3. q = [p2 EXCEPT !["opening"] = TRUE]
    BY <1>5, <2>1, <2>2
  <2>4. Kept(p1)
    BY <1>4, <2>1, UncountedIsPut
  <2>5. Kept(p2)
    BY <1>4, <2>2, <2>4, UncountedIsPut
  <2> QED
    BY <1>2, <1>4, <2>3, <2>5, UncountedIsPut
<1>6. CASE q = [r EXCEPT !.briefs = r.briefs + 1, !.opening = r.briefs = 0]
  <2>1. PICK p1 : p1 = [r EXCEPT !["briefs"] = r.briefs + 1]
    OBVIOUS
  <2>2. PICK first : q = [p1 EXCEPT !["opening"] = first]
    BY <1>6, <2>1, Zenon
  <2>3. Kept(p1)
    BY <1>4, <2>1, UncountedIsPut
  <2> QED
    BY <1>2, <1>4, <2>2, <2>3, UncountedIsPut
<1>7. ASSUME NEW p1, Kept(p1), q = [p1 EXCEPT !["opening"] = FALSE] PROVE Kept(q)
  BY <1>4, <1>7, UncountedIsPut
<1>8. CASE /\ d.action = "ANSWER_CLARIFICATION"
           /\ q = [r EXCEPT !.facts = r.facts \cup choice.fact, !.opening = FALSE]
  <2>1. PICK p1 : p1 = [r EXCEPT !["facts"] = r.facts \cup choice.fact]
    OBVIOUS
  <2>2. q = [p1 EXCEPT !["opening"] = FALSE]
    BY <1>8, <2>1
  <2>3. /\ p1 = [f \in Fields |-> p1[f]] /\ p1["facts"] = r.facts \cup choice.fact
        /\ \A f \in Fields : f # "facts" => p1[f] = r[f]
    BY <1>4, <2>1, FieldIsPut DEF Kept
  <2>4. /\ p1.facts = r.facts \cup choice.fact /\ p1.stage = r.stage /\ p1.uses = r.uses
        /\ p1.hints = r.hints /\ p1.followUps = r.followUps
    BY <1>4, <2>3
  <2>5. FactsKept(p1.facts, p1.uses)
    BY <1>1, <1>8, <2>4, FactIsDue
  <2>6. Kept(p1)
    BY <2>3, <2>4, <2>5 DEF Kept
  <2> QED
    BY <1>2, <1>7, <2>2, <2>6
<1>9. CASE q = [r EXCEPT !.uses = [p \in DOMAIN r.uses |->
                                     r.uses[p] + Cardinality({p} \cap choice.probe)],
                         !.opening = FALSE]
  <2>1. PICK uses : uses = [p \in DOMAIN r.uses |->
                              r.uses[p] + Cardinality({p} \cap choice.probe)]
    OBVIOUS
  <2>2. PICK p1 : p1 = [r EXCEPT !["uses"] = uses]
    OBVIOUS
  <2>3. q = [p1 EXCEPT !["opening"] = FALSE]
    BY <1>9, <2>1, <2>2
  <2>4. /\ p1 = [f \in Fields |-> p1[f]] /\ p1["uses"] = uses
        /\ \A f \in Fields : f # "uses" => p1[f] = r[f]
    BY <1>4, <2>2, FieldIsPut DEF Kept
  <2>5. /\ p1.uses = uses /\ p1.stage = r.stage /\ p1.facts = r.facts
        /\ p1.hints = r.hints /\ p1.followUps = r.followUps
    BY <1>4, <2>4
  <2>6. UsesKept(uses) /\ \A p \in ProbeIds : r.uses[p] > 0 => uses[p] > 0
    BY <2>1, ProbeIsCounted
  <2>7. FactsKept(p1.facts, uses)
    BY <2>5, <2>6 DEF Kept, FactsKept
  <2>8. Kept(p1)
    BY <2>4, <2>5, <2>6, <2>7 DEF Kept
  <2> QED
    BY <1>2, <1>7, <2>3, <2>8
<1>10. CASE /\ d.level > 0
            /\ q = [r EXCEPT !.hints = Append(r.hints, d.level), !.opening = FALSE]
  <2>1. PICK p1 : p1 = [r EXCEPT !["hints"] = Append(r.hints, d.level)]
    OBVIOUS
  <2>2. q = [p1 EXCEPT !["opening"] = FALSE]
    BY <1>10, <2>1
  <2>3. /\ p1 = [f \in Fields |-> p1[f]] /\ p1["hints"] = Append(r.hints, d.level)
        /\ \A f \in Fields : f # "hints" => p1[f] = r[f]
    BY <1>4, <2>1, FieldIsPut DEF Kept
  <2>4. /\ p1.hints = Append(r.hints, d.level) /\ p1.stage = r.stage /\ p1.uses = r.uses
        /\ p1.facts = r.facts /\ p1.followUps = r.followUps
    BY <1>4, <2>3
  <2>5. d.level = NextHintLevel(r.hints) /\ NextHintLevel(r.hints) # 0
    BY <1>1, <1>10 DEF Chosen
  <2>6. HintsKept(p1.hints)
    BY <2>4, <2>5, NextHintClimbs DEF Kept
  <2>7. Kept(p1)
    BY <2>3, <2>4, <2>6 DEF Kept
  <2> QED
    BY <1>2, <1>7, <2>2, <2>7
<1>11. CASE q = [r EXCEPT !.followUps = r.followUps \o SetToSeq(choice.followUp),
                          !.opening = FALSE]
  <2>1. PICK p1 : p1 = [r EXCEPT !["followUps"] = r.followUps \o SetToSeq(choice.followUp)]
    OBVIOUS
  <2>2. q = [p1 EXCEPT !["opening"] = FALSE]
    BY <1>11, <2>1
  <2>3. /\ p1 = [f \in Fields |-> p1[f]]
        /\ p1["followUps"] = r.followUps \o SetToSeq(choice.followUp)
        /\ \A f \in Fields : f # "followUps" => p1[f] = r[f]
    BY <1>4, <2>1, FieldIsPut DEF Kept
  <2>4. /\ p1.followUps = r.followUps \o SetToSeq(choice.followUp)
        /\ p1.stage = r.stage /\ p1.uses = r.uses /\ p1.facts = r.facts /\ p1.hints = r.hints
    BY <1>4, <2>3
  <2>5. Kept(p1)
    BY <2>3, <2>4, FollowUpIsNew DEF Kept
  <2> QED
    BY <1>2, <1>7, <2>2, <2>5
<1>12. CASE q = r \/ q = [r EXCEPT !.opening = FALSE]
  BY <1>2, <1>7, <1>12
<1> QED
  BY <1>3, <1>5, <1>6, <1>8, <1>9, <1>10, <1>11, <1>12

-----------------------------------------------------------------------------
(* The steps of a round.                                                   *)

\* What a turn says, and what the observer makes of it, is not counted.
LEMMA ObservedIsKept ==
  ASSUME NEW r, Kept(r), NEW turn
  PROVE  /\ Kept(Observed(r, turn)) /\ Observed(r, turn).stage = r.stage
         /\ Observed(r, turn).briefs = r.briefs /\ Observed(r, turn).remaining = r.remaining
<1>1. PICK c, a, u : Observed(r, turn) = [r EXCEPT !.claimedTime = c, !.currentApproach = a,
                                                   !.understood = u]
  BY Zenon DEF Observed
<1>2. PICK p1 : p1 = [r EXCEPT !["claimedTime"] = c]
  OBVIOUS
<1>3. PICK p2 : p2 = [p1 EXCEPT !["currentApproach"] = a]
  OBVIOUS
<1>4. PICK p3 : p3 = [p2 EXCEPT !["understood"] = u] /\ p3 = Observed(r, turn)
  BY <1>1, <1>2, <1>3
<1>5. /\ "claimedTime" \in Fields \ Counted
      /\ "currentApproach" \in Fields \ Counted
      /\ "understood" \in Fields \ Counted
      /\ {"stage", "briefs", "remaining"} \subseteq Fields
  BY DEF Fields, Counted
<1>6. Kept(p1)
  BY <1>2, <1>5, UncountedIsPut
<1>7. Kept(p2)
  BY <1>3, <1>5, <1>6, UncountedIsPut
<1>8. Kept(p3)
  BY <1>4, <1>5, <1>7, UncountedIsPut
<1>9. /\ p1.stage = r.stage /\ p1.briefs = r.briefs /\ p1.remaining = r.remaining
      /\ p2.stage = p1.stage /\ p2.briefs = p1.briefs /\ p2.remaining = p1.remaining
      /\ p3.stage = p2.stage /\ p3.briefs = p2.briefs /\ p3.remaining = p2.remaining
  BY <1>2, <1>3, <1>4, <1>5, <1>6, <1>7 DEF Kept
<1>10. p3.stage = r.stage /\ p3.briefs = r.briefs /\ p3.remaining = r.remaining
  BY <1>9
<1> QED
  BY <1>4, <1>8, <1>10

\* Folding a final turn into the round counts nothing: all that is kept stays.
LEMMA FoldedIsKept ==
  ASSUME Kept(round), NEW turn
  PROVE  Kept(Folded(turn))
<1>1. CASE ~turn.finalized
  BY <1>1 DEF Folded
<1>2. CASE turn.finalized
  <2>1. PICK n, a : Folded(turn) = [round EXCEPT !.reasoning = n, !.approach = a]
    BY <1>2, Zenon DEF Folded
  <2>2. PICK p1 : p1 = [round EXCEPT !["reasoning"] = n]
    OBVIOUS
  <2>3. Folded(turn) = [p1 EXCEPT !["approach"] = a]
    BY <2>1, <2>2
  <2>4. /\ "reasoning" \in Fields \ Counted
        /\ "approach" \in Fields \ Counted
    BY DEF Fields, Counted
  <2>5. Kept(p1)
    BY <2>2, <2>4, UncountedIsPut
  <2> QED
    BY <2>3, <2>4, <2>5, UncountedIsPut
<1> QED
  BY <1>1, <1>2

\* A round that ends as another does.
EndsAs(q, r) ==
  Kept(q) /\ q.stage = r.stage /\ q.briefs = r.briefs /\ q.remaining = r.remaining

\* Every handler ends with the walk, but for what the observer makes of it.
LEMMA HandledAtTheEnd ==
  ASSUME Kept(round), Handle
  PROVE  \E r : Kept(r) /\ \E after \in Advanced(r) : EndsAs(round', after)
<1>1. ASSUME NEW r, Kept(r), NEW after \in Advanced(r) PROVE EndsAs(after, after)
  BY <1>1, AdvancedIsKept DEF EndsAs
<1>2. ASSUME NEW floor, Ready(floor)
      PROVE  \E r : Kept(r) /\ \E after \in Advanced(r) : EndsAs(round', after)
  <2>1. PICK d \in Decisions(round, NoTurn, floor) : round' \in Advanced(Realized(round, d))
    BY <1>2 DEF Ready
  <2>2. Kept(Realized(round, d))
    BY DecisionsAreChosen, RealizedIsKept
  <2> QED
    BY <1>1, <2>1, <2>2
<1>3. ASSUME NEW turn, NEW floor, TakeTurn(turn, floor)
      PROVE  \E r : Kept(r) /\ \E after \in Advanced(r) : EndsAs(round', after)
  <2>1. PICK moved \in Advanced(Folded(turn)) : \E d \in Decisions(moved, turn, floor) :
          \E after \in Advanced(Realized(moved, d)) : round' = Observed(after, turn)
    BY <1>3 DEF TakeTurn
  <2>2. PICK d \in Decisions(moved, turn, floor) :
          \E after \in Advanced(Realized(moved, d)) : round' = Observed(after, turn)
    BY <2>1
  <2>3. PICK after \in Advanced(Realized(moved, d)) : round' = Observed(after, turn)
    BY <2>2
  <2>4. Kept(moved)
    BY FoldedIsKept, AdvancedIsKept
  <2>5. Kept(Realized(moved, d))
    BY <2>4, DecisionsAreChosen, RealizedIsKept
  <2>6. EndsAs(Observed(after, turn), after)
    BY <2>5, AdvancedIsKept, ObservedIsKept DEF EndsAs
  <2> QED
    BY <2>3, <2>5, <2>6
<1>4. ASSUME NEW family, EditCode(family)
      PROVE  \E r : Kept(r) /\ \E after \in Advanced(r) : EndsAs(round', after)
  <2>1. PICK p1 : p1 = [round EXCEPT !["rev"] = 1]
    OBVIOUS
  <2>2. PICK moved \in Advanced(p1) : round' = [moved EXCEPT !.detectedFamily = family]
    BY <1>4, <2>1 DEF EditCode
  <2>3. PICK q : q = [moved EXCEPT !["detectedFamily"] = family]
    OBVIOUS
  <2>4. /\ "rev" \in Fields \ Counted
        /\ "detectedFamily" \in Fields \ Counted
        /\ {"stage", "briefs", "remaining"} \subseteq Fields
    BY DEF Fields, Counted
  <2>5. Kept(p1)
    BY <2>1, <2>4, UncountedIsPut
  <2>6. Kept(moved)
    BY <2>5, AdvancedIsKept
  <2>7. Kept(q)
    BY <2>3, <2>4, <2>6, UncountedIsPut
  <2>8. q.stage = moved.stage /\ q.briefs = moved.briefs /\ q.remaining = moved.remaining
    BY <2>3, <2>4, <2>6 DEF Kept
  <2>9. EndsAs(q, moved)
    BY <2>7, <2>8 DEF EndsAs
  <2> QED
    BY <2>2, <2>3, <2>5, <2>9
<1>5. ASSUME RunCode \/ PassTests
      PROVE  \E r : Kept(r) /\ \E after \in Advanced(r) : EndsAs(round', after)
  <2>1. ASSUME NEW field \in Fields \ Counted, NEW value, NEW p1,
               p1 = [round EXCEPT ![field] = value], round' \in Advanced(p1)
        PROVE  \E r : Kept(r) /\ \E after \in Advanced(r) : EndsAs(round', after)
    <3>1. Kept(p1)
      BY <2>1, UncountedIsPut
    <3> QED
      BY <1>1, <2>1, <3>1
  <2>2. "runs" \in Fields \ Counted /\ "passed" \in Fields \ Counted
    BY DEF Fields, Counted
  <2>3. CASE RunCode
    <3>1. PICK p1 : p1 = [round EXCEPT !["runs"] = 1]
      OBVIOUS
    <3>2. round' \in Advanced(p1)
      BY <2>3, <3>1 DEF RunCode
    <3> QED
      BY <2>1, <2>2, <3>1, <3>2
  <2>4. CASE PassTests
    <3>1. PICK p1 : p1 = [round EXCEPT !["passed"] = TRUE]
      OBVIOUS
    <3>2. round' \in Advanced(p1)
      BY <2>4, <3>1 DEF PassTests
    <3> QED
      BY <2>1, <2>2, <3>1, <3>2
  <2> QED
    BY <1>5, <2>3, <2>4
<1> QED
  BY <1>2, <1>3, <1>4, <1>5 DEF Handle

\* So is every other step, the one that changes nothing included.
LEMMA StepIsKept ==
  ASSUME Kept(round), [Next]_vars
  PROVE  Kept(round')
<1>1. CASE Handle
  BY <1>1, HandledAtTheEnd DEF EndsAs
<1>2. ASSUME NEW heard, OpeningOutcome(heard) PROVE Kept(round')
  <2>1. PICK owed, closed : /\ closed = [round EXCEPT !.opening = FALSE, !.redeliver = owed]
                            /\ round' \in Advanced(closed) \cup {closed}
    BY <1>2 DEF OpeningOutcome
  <2>2. PICK p1 : p1 = [round EXCEPT !["opening"] = FALSE]
    OBVIOUS
  <2>3. closed = [p1 EXCEPT !["redeliver"] = owed]
    BY <2>1, <2>2
  <2>4. /\ "opening" \in Fields \ Counted
        /\ "redeliver" \in Fields \ Counted
    BY DEF Fields, Counted
  <2>5. Kept(p1)
    BY <2>2, <2>4, UncountedIsPut
  <2>6. Kept(closed)
    BY <2>3, <2>4, <2>5, UncountedIsPut
  <2> QED
    BY <2>1, <2>6, AdvancedIsKept
<1>3. CASE ClockRuns
  <2>1. PICK later : round' = [round EXCEPT !["remaining"] = later]
    BY <1>3 DEF ClockRuns
  <2>2. "remaining" \in Fields \ Counted
    BY DEF Fields, Counted
  <2>3. PICK p1 : p1 = [round EXCEPT !["remaining"] = later]
    OBVIOUS
  <2>4. Kept(p1)
    BY <2>2, <2>3, UncountedIsPut
  <2> QED
    BY <2>1, <2>3, <2>4
<1>4. CASE UNCHANGED vars
  BY <1>4 DEF vars
<1> QED
  BY <1>1, <1>2, <1>3, <1>4 DEF Next

\* A round begins with nothing asked, given or told.
LEMMA InitIsKept ==
  ASSUME Init
  PROVE  Kept(round)
<1>1. round = [f \in Fields |-> round[f]]
  BY DEF Init, Fields
<1>2. /\ round.stage = "ORAL_PROBLEM_DELIVERY" /\ round.hints = <<>> /\ round.followUps = <<>>
      /\ round.facts = {} /\ round.uses = [p \in ProbeIds |-> 0]
  BY DEF Init
<1>3. HintsKept(<<>>)
  BY HintAssumption DEF HintsKept
<1>4. UsesKept(round.uses)
  BY <1>2, ScenarioAssumption DEF UsesKept, ProbeIds
<1>5. FollowUpsKept(<<>>)
  BY DEF FollowUpsKept, IsInjective
<1>6. "ORAL_PROBLEM_DELIVERY" \in States
  BY DEF States
<1> QED
  BY <1>1, <1>2, <1>3, <1>4, <1>5, <1>6 DEF Kept, FactsKept

(* Whatever is asked for, however often and in whichever stage, hints climb *)
(* to the ceiling and the budget, no probe is asked more often than it may  *)
(* be, no follow-up is presented twice and a held-back fact is told after a *)
(* probe: for every policy, and every scenario whose probe ids differ.      *)
THEOREM ScenarioIsKept == Spec => []KeepsToTheScenario
<1> DEFINE Inv == Kept(round)
<1>1. Init => Inv
  BY InitIsKept
<1>2. Inv /\ [Next]_vars => Inv'
  BY StepIsKept
<1>3. Inv => KeepsToTheScenario
  BY KeptIsEnough
<1> QED
  BY <1>1, <1>2, <1>3, PTL DEF Spec

-----------------------------------------------------------------------------
(* Winding down.                                                           *)

\* How many steps a stage is from one that winds down, under time pressure.
Left ==
  [ORAL_PROBLEM_DELIVERY |-> 5, CLARIFICATION |-> 4, APPROACH_EXPLORATION |-> 3,
   IMPLEMENTATION |-> 2, TEST_AND_DEBUG |-> 1, FOLLOW_UP |-> 1, WRAP_UP |-> 0, EVALUATION |-> 0]

Pressed(r) == r.briefs > 0 /\ r.remaining <= WrapUpSeconds

\* TOWARD_WRAP_UP: whatever the candidate has done, a round under time
\* pressure goes where the table of the pressure says.
LEMMA PressureDecides ==
  ASSUME NEW r, r = [f \in Fields |-> r[f]], r.stage \in States, Pressed(r)
  PROVE  Due(r) = TowardWrapUp[r.stage]
<1>1. PICK s : s = [r EXCEPT !.followUps = Len(@)]
  OBVIOUS
<1>2. s.stage = r.stage /\ s.briefs = r.briefs /\ s.remaining = r.remaining /\ Due(r) = NextStage(s)
  BY <1>1 DEF Due, Fields
<1>3. TimePressure(s) = TowardWrapUp[r.stage]
  BY <1>2 DEF TimePressure, Pressed
<1>4. CASE r.stage \in {"WRAP_UP", "EVALUATION"}
  <2>1. ~IsActionAllowed(r.stage, "TRANSITION_STAGE") /\ TowardWrapUp[r.stage] = {}
    BY <1>4 DEF IsActionAllowed, AllowedActions, TowardWrapUp
  <2> QED
    BY <1>2, <2>1 DEF NextStage
<1>5. CASE r.stage \notin {"WRAP_UP", "EVALUATION"}
  <2>1. IsActionAllowed(r.stage, "TRANSITION_STAGE")
    BY <1>5 DEF IsActionAllowed, AllowedActions, States
  <2>2. /\ TowardWrapUp[r.stage] # {}
        /\ \A to \in TowardWrapUp[r.stage] : IsTransitionAllowed(r.stage, to)
    BY <1>5 DEF IsTransitionAllowed, AllowedTransitions, TowardWrapUp, States
  <2> QED
    BY <1>2, <1>3, <2>1, <2>2 DEF NextStage
<1> QED
  BY <1>4, <1>5

\* A step of the walk brings a pressed round one nearer, and keeps it there.
LEMMA StepIsNearer ==
  ASSUME NEW r, r = [f \in Fields |-> r[f]], r.stage \in States, Pressed(r),
         NEW q \in StepStage({r})
  PROVE  /\ q = [f \in Fields |-> q[f]] /\ q.stage \in States /\ Pressed(q)
         /\ Left[q.stage] = IF Left[r.stage] = 0 THEN 0 ELSE Left[r.stage] - 1
<1>1. Due(r) = TowardWrapUp[r.stage]
  BY PressureDecides
<1>2. CASE q = r /\ Due(r) = {}
  <2>1. r.stage \in {"WRAP_UP", "EVALUATION"}
    BY <1>1, <1>2 DEF TowardWrapUp, States
  <2> QED
    BY <1>2, <2>1 DEF Left
<1>3. CASE /\ q.stage \in Due(r) /\ q = [f \in Fields |-> q[f]] /\ q.stage \in States
           /\ \A f \in Fields \ {"stage", "reasoning"} : q[f] = r[f]
  <2>1. Pressed(q)
    BY <1>3 DEF Pressed, Fields
  <2>2. Left[q.stage] = Left[r.stage] - 1 /\ Left[r.stage] # 0
    BY <1>1, <1>3 DEF TowardWrapUp, States, Left
  <2> QED
    BY <1>3, <2>1, <2>2
<1> QED
  BY <1>2, <1>3, StageSteps

\* The walk of a pressed round ends where it winds down.
LEMMA WalkEndsNear ==
  ASSUME NEW r, Kept(r), NEW after \in Advanced(r), Pressed(after)
  PROVE  after.stage \in {"WRAP_UP", "EVALUATION"}
<1> DEFINE Near(x, n) == /\ x = [f \in Fields |-> x[f]] /\ x.stage \in States /\ Pressed(x)
                         /\ Left[x.stage] <= n
<1>1. {"briefs", "remaining"} \subseteq Fields \ {"stage", "reasoning"}
  BY DEF Fields
<1>2. Pressed(r)
  BY <1>1, AdvancedIsKept DEF Pressed
<1>3. \A stage \in States : Left[stage] \in 0..5 /\ (Left[stage] = 0 => stage \in {"WRAP_UP", "EVALUATION"})
  BY DEF Left, States
<1>4. CASE Due(r) = {}
  <2>1. after = r /\ TowardWrapUp[r.stage] = {}
    BY <1>2, <1>4, AdvancedInSteps, PressureDecides DEF Kept
  <2> QED
    BY <2>1 DEF TowardWrapUp, Kept, States
<1>5. CASE Due(r) # {}
  <2>1. ASSUME NEW rounds, NEW n \in Nat, \A x \in rounds : Near(x, n), NEW q \in StepStage(rounds)
        PROVE  Near(q, IF n = 0 THEN 0 ELSE n - 1)
    <3>1. PICK x \in rounds : q \in StepStage({x})
      BY <2>1, StepsAreOfEach
    <3>2. Near(x, n)
      BY <2>1
    <3>3. /\ q = [f \in Fields |-> q[f]] /\ q.stage \in States /\ Pressed(q)
          /\ Left[q.stage] = IF Left[x.stage] = 0 THEN 0 ELSE Left[x.stage] - 1
      BY <3>1, <3>2, StepIsNearer
    <3>4. Left[x.stage] \in Nat /\ Left[x.stage] <= n
      BY <1>3, <3>2
    <3> QED
      BY <3>3, <3>4
  <2>2. \A x \in {r} : Near(x, 5)
    BY <1>2, <1>3 DEF Kept
  <2> HIDE DEF Near
  <2>3. ASSUME NEW n \in Nat, NEW m \in Nat, m = n - 1 \/ (n = 0 /\ m = 0)
        PROVE  \A rounds : (\A x \in rounds : Near(x, n)) => \A q \in StepStage(rounds) : Near(q, m)
    <3>1. m = IF n = 0 THEN 0 ELSE n - 1
      BY <2>3
    <3> QED
      BY <2>1, <3>1
  <2>4. PICK s1 : s1 = StepStage({r})
    OBVIOUS
  <2>5. PICK s2 : s2 = StepStage(s1)
    OBVIOUS
  <2>6. PICK s3 : s3 = StepStage(s2)
    OBVIOUS
  <2>7. PICK s4 : s4 = StepStage(s3)
    OBVIOUS
  <2>8. PICK s5 : s5 = StepStage(s4)
    OBVIOUS
  <2>9. PICK s8 : s8 = StepStage(StepStage(StepStage(s5)))
    OBVIOUS
  <2>10. \A q \in s1 : Near(q, 4)
    BY <2>2, <2>4, <2>3, 4 = 5 - 1
  <2>11. \A q \in s2 : Near(q, 3)
    BY <2>10, <2>5, <2>3, 3 = 4 - 1
  <2>12. \A q \in s3 : Near(q, 2)
    BY <2>11, <2>6, <2>3, 2 = 3 - 1
  <2>13. \A q \in s4 : Near(q, 1)
    BY <2>12, <2>7, <2>3, 1 = 2 - 1
  <2>14. \A q \in s5 : Near(q, 0)
    BY <2>13, <2>8, <2>3, 0 = 1 - 1
  <2>15. \A rounds : (\A x \in rounds : Near(x, 0)) => \A q \in StepStage(rounds) : Near(q, 0)
    BY <2>3
  <2>16. \A q \in s8 : Near(q, 0)
    BY <2>9, <2>14, <2>15
  <2>17. after \in s8
    BY <1>5, <2>4, <2>5, <2>6, <2>7, <2>8, <2>9, AdvancedInSteps
  <2>18. Left[after.stage] <= 0 /\ after.stage \in States
    BY <2>16, <2>17 DEF Near
  <2> QED
    BY <1>3, <2>18
<1> QED
  BY <1>4, <1>5

(* From whichever stage, and whatever the candidate had done, the first     *)
(* event handled under time pressure leaves the round winding down: no      *)
(* stage is further from it than STAGE_ADVANCE_LIMIT steps, and no rule     *)
(* that looks at progress is asked before the pressure.                     *)
THEOREM PressureWindsDown == Spec => WindsDownUnderPressure
<1> DEFINE Inv == Kept(round)
<1>1. Init => Inv
  BY InitIsKept
<1>2. Inv /\ [Next]_vars => Inv'
  BY StepIsKept
<1>3. Inv /\ [Next]_vars =>
        [ Handle /\ round'.briefs > 0 /\ round'.remaining <= WrapUpSeconds
            => round'.stage \in {"WRAP_UP", "EVALUATION"} ]_vars
  <2> SUFFICES ASSUME Inv, Handle, round'.briefs > 0, round'.remaining <= WrapUpSeconds
               PROVE  round'.stage \in {"WRAP_UP", "EVALUATION"}
    OBVIOUS
  <2>1. PICK r : Kept(r) /\ \E after \in Advanced(r) : EndsAs(round', after)
    BY HandledAtTheEnd
  <2>2. PICK after \in Advanced(r) : EndsAs(round', after)
    BY <2>1
  <2>3. Pressed(after)
    BY <2>2 DEF EndsAs, Pressed
  <2>4. after.stage \in {"WRAP_UP", "EVALUATION"}
    BY <2>1, <2>3, WalkEndsNear
  <2> QED
    BY <2>2, <2>4 DEF EndsAs
<1> QED
  BY <1>1, <1>2, <1>3, PTL DEF Spec, WindsDownUnderPressure

=============================================================================
