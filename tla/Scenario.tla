------------------------------ MODULE Scenario ------------------------------
(***************************************************************************)
(* What a pinned scenario lets the interviewer say, and when               *)
(* (apps/api/src/modules/scenario): the trigger expressions its author     *)
(* wrote (triggers.ts), the probes and follow-ups they admit (probes.ts)   *)
(* and the facts that may be disclosed (clarification.ts).                 *)
(*                                                                         *)
(* A trigger is a set of terms, all of which must hold.  A term is         *)
(* [op, left, right, negated]; a word compared with is a field of the      *)
(* candidate's state or stands for itself.                                 *)
(*                                                                         *)
(* A context s holds what the triggers read: stage, remaining (seconds),   *)
(* milestones, claimedTime, detectedFamily, currentApproach, understood    *)
(* (constraints), uses (how often each probe was asked) and followUps (the *)
(* ids presented, in order).                                               *)
(***************************************************************************)
EXTENDS Integers, FiniteSets, SequencesExt

CONSTANTS Families,   \* id |-> [time, optimal]
          Probes,     \* the authored probes, in the file's order
          FollowUps,  \* the authored follow-ups, in the file's order
          Facts       \* key |-> when it may be disclosed

\* No two probes have one id (assertInternallyConsistent).
ASSUME ScenarioAssumption ==
  /\ \A i \in DOMAIN Probes : Probes[i].maxUses \in Nat \ {0}
  /\ \A i, j \in DOMAIN Probes : Probes[i].id = Probes[j].id => i = j
  /\ DOMAIN FollowUps = 1..Len(FollowUps) /\ Len(FollowUps) \in Nat

Missing == "none"

Term(op, left, right)  == [op |-> op, left |-> left, right |-> right, negated |-> FALSE]
Unless(op, left, right) == [Term(op, left, right) EXCEPT !.negated = TRUE]

ProbeIds == {Probes[i].id : i \in DOMAIN Probes}
AskedIds(s) == {p \in DOMAIN s.uses : s.uses[p] > 0}

\* The family the observer recognizes, if the scenario names it: another is
\* the code's null.
FamilyTime(s) ==
  IF s.detectedFamily \in DOMAIN Families THEN Families[s.detectedFamily].time ELSE Missing

\* resolve(): a field of the candidate's state, or the word itself.
Resolved(word, s) ==
  CASE word = "state"                         -> s.stage
    [] word = "claimedTime"                   -> s.claimedTime
    [] word = "detectedFamily"                -> s.detectedFamily
    [] word = "detectedFamily.timeComplexity" -> FamilyTime(s)
    [] OTHER                                  -> word

\* A claim nobody made, or a family nobody recognized, differs from nothing.
Differs(a, b) == a # Missing /\ b # Missing /\ a # b

\* evaluateTerm
Holds(t, s) ==
  CASE t.op = "milestone"       -> t.left \in s.milestones
    [] t.op = "usedFollowUp"    -> t.left \in ToSet(s.followUps)
    [] t.op = "usedProbe"       -> t.left \in AskedIds(s)
    [] t.op = "understood"      -> t.left \in s.understood
    [] t.op = "present"         -> s[t.left] # Missing
    [] t.op = "solvedOptimally" ->
         /\ "BASE_TESTS_PASS" \in s.milestones
         /\ s.detectedFamily \in DOMAIN Families
         /\ Families[s.detectedFamily].optimal
    [] t.op = "minutesLeft"     -> s.remaining \div 60 >= t.left
    [] t.op = "=="              -> Resolved(t.left, s) = Resolved(t.right, s)
    [] t.op = "!="              -> Differs(Resolved(t.left, s), Resolved(t.right, s))

\* evaluateTrigger: a trigger with no term never fires.
Fires(trigger, s) == trigger # {} /\ \A t \in trigger : Holds(t, s) # t.negated

-----------------------------------------------------------------------------
(* Probes.                                                                 *)

\* Defect: the last use allowed is counted as still to come.
EligibleOnceMore(p, s) == s.uses[p.id] <= p.maxUses /\ Fires(p.trigger, s)

Eligible(p, s) == s.uses[p.id] < p.maxUses /\ Fires(p.trigger, s)

Mentions(p, words) == \E t \in p.trigger : {t.left, t.right} \cap words # {}

FamilyWords == {"detectedFamily", "detectedFamily.timeComplexity"}

\* Milestones a probe may be about only while the code is known to be fresh.
CodeMilestones ==
  {"FIRST_COMPILES", "BASE_TESTS_PASS", "REPEATED_SAME_FAILURE", "LARGE_REWRITE",
   "COMPLEXITY_CLAIM_MISMATCH"}

NeedsCode(p) == Mentions(p, FamilyWords \cup {"claimedTime"} \cup CodeMilestones)

Worth(points, condition) == IF condition THEN points ELSE 0

\* probeRelevance: the author's priority and the strength of the evidence,
\* less what was already discussed.
Relevance(p, s) ==
    10 * p.priority
  + Worth(50, Mentions(p, {"COMPLEXITY_CLAIM_MISMATCH"}))
  + Worth(45, /\ Mentions(p, {"claimedTime"})
              /\ s.claimedTime # Missing /\ s.detectedFamily # Missing)
  + Worth(40, Mentions(p, {"REPEATED_SAME_FAILURE"}))
  + Worth(30, Mentions(p, FamilyWords) /\ s.detectedFamily # Missing)
  + Worth(25, Mentions(p, {"BASE_TESTS_PASS"}))
  + Worth(20, Mentions(p, {"currentApproach"}) /\ s.currentApproach # Missing)
  + Worth(15, Term("==", "state", s.stage) \in p.trigger)
  - 20 * s.uses[p.id]

\* selectRelevantProbe: at most one; equals are taken in the file's order,
\* the higher priority first.
SelectedProbe(s) ==
  LET eligible == {i \in DOMAIN Probes : Eligible(Probes[i], s)}
      ahead(i, j) ==
        \/ Relevance(Probes[i], s) > Relevance(Probes[j], s)
        \/ /\ Relevance(Probes[i], s) = Relevance(Probes[j], s)
           /\ \/ Probes[i].priority > Probes[j].priority
              \/ Probes[i].priority = Probes[j].priority /\ i <= j
  IN  {Probes[i] : i \in {k \in eligible : \A j \in eligible : ahead(k, j)}}

-----------------------------------------------------------------------------
(* Follow-ups and facts.                                                   *)

EligibleFollowUps(s) ==
  {i \in DOMAIN FollowUps : /\ FollowUps[i].id \notin ToSet(s.followUps)
                            /\ Fires(FollowUps[i].trigger, s)}

\* selectFollowUp: the one whose challenge is nearest to how strong the round
\* has been; equals in the file's order.
SelectedFollowUp(s, strength) ==
  LET far(i) == IF FollowUps[i].weight > strength THEN FollowUps[i].weight - strength
                                                  ELSE strength - FollowUps[i].weight
  IN  {FollowUps[i].id : i \in
         {k \in EligibleFollowUps(s) : \A j \in EligibleFollowUps(s) :
            far(k) < far(j) \/ (far(k) = far(j) /\ k <= j)}}

\* getClarificationFact: some facts are held back until a probe was asked,
\* whichever it was.
Disclosable(key, s) ==
  /\ key \in DOMAIN Facts
  /\ Facts[key] = "AFTER_PROBE" => AskedIds(s) # {}

=============================================================================
