------------------------------- MODULE Intent -------------------------------
(***************************************************************************)
(* What a turn's words are taken for: the rules (orchestrator/             *)
(* classifier.ts) and the model's reply as it is validated and curbed      *)
(* (gemini-classifier.ts).  A reading is [intent, end]: what the candidate *)
(* wants and, in percent, how sure it is that they are through.            *)
(*                                                                         *)
(* A text is what the patterns tell apart:                                *)
(*   said      anything is left after trimming                             *)
(*   brief     isBriefRequest                                              *)
(*   cues      the intents whose pattern matches                           *)
(*   mark      "?", "." (or "!") or "" at the end                          *)
(*   opens     an interrogative opener; about: the clarification vocabulary *)
(*   trails    the last word means the speaker is still going              *)
(* The transport finalizes every turn it delivers.                         *)
(***************************************************************************)
EXTENDS Sequences, TurnCompletion

CONSTANT Replies  \* the model's: [intent, end], validated or not

TurnIntents ==
  {"THINK_ALOUD", "EXPLICIT_QUESTION", "CLARIFICATION_REQUEST", "HINT_REQUEST",
   "COMPLEXITY_CLAIM", "APPROACH_COMMITMENT", "TEST_PLAN", "CONFUSION",
   "DONE_SIGNAL", "SOCIAL_SMALL_TALK"}

FloorYieldedIntents == {"EXPLICIT_QUESTION", "CLARIFICATION_REQUEST", "HINT_REQUEST"}

\* INTENT_RULES: the first that matches wins.
IntentRules ==
  <<"HINT_REQUEST", "COMPLEXITY_CLAIM", "DONE_SIGNAL", "TEST_PLAN", "CONFUSION",
    "SOCIAL_SMALL_TALK", "APPROACH_COMMITMENT">>

Matching(text) == SelectSeq(IntentRules, LAMBDA intent : intent \in text.cues)

LooksLikeQuestion(text) == text.mark = "?" \/ text.opens

IntentOf(text) ==
  CASE ~text.said -> "THINK_ALOUD"
    [] text.said /\ text.brief -> "EXPLICIT_QUESTION"
    [] text.said /\ ~text.brief /\ Matching(text) # <<>> -> Head(Matching(text))
    [] OTHER -> IF ~LooksLikeQuestion(text) THEN "THINK_ALOUD"
                ELSE IF text.about THEN "CLARIFICATION_REQUEST"
                ELSE "EXPLICIT_QUESTION"

\* endProbability: what is unpunctuated stays below every mode's threshold.
RulesEnd(text) ==
  IF ~text.said THEN 0
  ELSE IF text.trails THEN MidThoughtCeiling
  ELSE IF text.brief \/ text.mark = "?" THEN 95
  ELSE IF text.mark = "." THEN 85
  ELSE 55

ByRules(text) == [intent |-> IntentOf(text), end |-> RulesEnd(text)]

\* normalize: a reply that is not an intent and a probability is refused, and
\* no reply makes an end of words that trail off.
Valid(reply) == reply.intent \in TurnIntents /\ reply.end \in 0..100

Normalize(reply, text) ==
  IF text.trails THEN [reply EXCEPT !.end = AtMost(@, MidThoughtCeiling)] ELSE reply

\* classify: the brief is asked for in words the rules know; everything else
\* may be read by the model, remembered from an earlier reading by it, or
\* left to the rules when it cannot be reached, is kept away from by its
\* breaker, or answers nonsense.
Readings(text) ==
  {ByRules(text)} \cup
    IF ~text.said \/ text.brief THEN {}
    ELSE {Normalize(reply, text) : reply \in {r \in Replies : Valid(r)}}

\* The turn that estimateTurnCompletion weighs.
Turn(text, reading) ==
  [text |-> reading.end, trails |-> text.trails,
   asks |-> reading.intent \in FloorYieldedIntents]

Turns(text) == {Turn(text, reading) : reading \in Readings(text)}
=============================================================================
