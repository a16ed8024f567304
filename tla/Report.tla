------------------------------- MODULE Report -------------------------------
(***************************************************************************)
(* The report's deterministic part: what it takes from the session's log   *)
(* (report/evidence.ts) and the scores, findings and drills it makes of it *)
(* (report/evaluator.ts, rubric.ts).  Pure functions of a log, with scores *)
(* and weights in hundredths; wording and timestamps are left out.         *)
(***************************************************************************)
EXTENDS Observer

CONSTANT Remarks  \* the interviewer's acts a report counts: type and id

OfTypes(log, types) == SelectSeq(log, LAMBDA e : e.type \in types)
Count(log, type) == Len(OfTypes(log, {type}))

\* extractFacts: firstPass is a position, 0 for none.
FirstPass(log) ==
  SelectInSeq(log, LAMBDA e : IsRun(e) /\ Passed(e.run))

Facts(log) ==
  [clarifications |-> Count(log, "CLARIFICATION_ANSWERED"),
   probes     |-> {log[i].id : i \in {j \in DOMAIN log : log[j].type = "PROBE_ASKED"}},
   hints      |-> Count(log, "HINT_GIVEN"),
   followUps  |-> Count(log, "FOLLOW_UP_PRESENTED"),
   runs       |-> OfTypes(log, {"RUN_COMPLETED"}),
   firstPass  |-> FirstPass(log),
   milestones |-> {log[i].kind : i \in {j \in DOMAIN log : log[j].type = "MILESTONE"}},
   said       |-> Len(SelectSeq(log, LAMBDA e : e.type = "SPEECH_FINAL" /\ ~e.brief))]

-----------------------------------------------------------------------------
(* judge, one dimension at a time.                                         *)

Clamp(n) == IF n < 100 THEN 100 ELSE IF n > 400 THEN 400 ELSE n

\* Defect: only the observer's milestone counts as a pass.
SolvedByMilestone(f) == "BASE_TESTS_PASS" \in f.milestones

Solved(f) == "BASE_TESTS_PASS" \in f.milestones \/ f.firstPass # 0

Failing(f) == Len(SelectSeq(f.runs, LAMBDA e : ~Passed(e.run)))
By(count, none, some, many) ==
  IF count = 0 THEN none ELSE IF count >= 3 THEN many ELSE some

Scores(f) ==
  [problemUnderstanding |-> By(f.clarifications, 150, 250, 350),
   approach     |-> IF Solved(f) THEN Clamp(350 - 40 * f.hints) ELSE 200,
   correctness  |-> IF f.runs = <<>> THEN 100
                    ELSE IF Solved(f) THEN Clamp(400 - 30 * Failing(f)) ELSE 150,
   complexityReasoning |-> IF "complexity_claim" \in f.probes THEN 200 ELSE 250,
   testing      |-> By(Len(f.runs), 100, 250, 350),
   communication |-> IF f.said = 0 THEN 200 ELSE 250,
   adaptability |-> IF f.followUps = 0 THEN 200 ELSE 300]

Weights == [problemUnderstanding |-> 15, approach |-> 25, correctness |-> 25,
            complexityReasoning |-> 10, testing |-> 10, communication |-> 10,
            adaptability |-> 5]

\* weightedOverall.
Overall(f) ==
  FoldFunction(+, 0, [d \in DOMAIN Weights |-> Weights[d] * Clamp(Scores(f)[d])]) \div 100

MissedOpportunities(f) ==
  {m \in {"no questions", "never ran", "no passing run", "repeated failure", "many hints"} :
     CASE m = "no questions"     -> f.clarifications = 0
       [] m = "never ran"        -> f.runs = <<>>
       [] m = "no passing run"   -> f.runs # <<>> /\ f.firstPass = 0
       [] m = "repeated failure" -> "REPEATED_SAME_FAILURE" \in f.milestones
       [] OTHER                  -> f.hints >= 2}

Drills(f) ==
  [communication |-> IF f.clarifications = 0 THEN "assumptions" ELSE "narrate",
   algorithmic   |-> IF f.firstPass = 0 THEN "solve again" ELSE "extend",
   testing       |-> IF Len(f.runs) < 2 THEN "edge cases" ELSE "failing case first"]

-----------------------------------------------------------------------------
(* The session whose log it is.                                            *)

\* The interviewer's recorded acts (realize); they wait for no observer.
Remark ==
  /\ Taken < Inputs
  /\ \E r \in Remarks : evidence' = Append(evidence, [type |-> r.type, key |-> Key, id |-> r.id])
  /\ UNCHANGED <<inbox, alive, mem, waiting, dirty, pass, disturbed>>

\* A passing run counts as one although its observation was lost, late or
\* never recorded, and no report calls the work solved and unsolved at once
\* (extractFacts, judge, missedOpportunities, drills).
ScoresFollow ==
  LET f == Facts(evidence)
      solved == \E i \in DOMAIN evidence : IsRun(evidence[i]) /\ Passed(evidence[i].run)
  IN  /\ solved <=> f.runs # <<>> /\ "no passing run" \notin MissedOpportunities(f)
      /\ solved <=> Drills(f).algorithmic = "extend"
      /\ solved => Scores(f).correctness = Clamp(400 - 30 * Failing(f))
      /\ ~solved => Scores(f).correctness <= 150
      /\ Overall(f) \in 100..400
=============================================================================
