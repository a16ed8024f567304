------------------------------ MODULE MCRound ------------------------------
(***************************************************************************)
(* Instances of InterviewRound for TLC, under the default (MOCK) policy.   *)
(* The scenario is cut from content/scenarios/conveyor-rescan/v1.yaml:     *)
(* three of its probes, its two follow-ups, two of its solution families   *)
(* and one fact of each kind that may be asked about.                      *)
(***************************************************************************)
EXTENDS InterviewRound

SomeFamilies ==
  [set  |-> [time |-> "O(n)", optimal |-> TRUE],
   sort |-> [time |-> "O(n log n)", optimal |-> FALSE]]

SomeProbes ==
  <<[id |-> "complexity_claim", maxUses |-> 2, priority |-> 100,
     trigger |-> {Term("present", "claimedTime", Missing),
                  Term("!=", "claimedTime", "detectedFamily.timeComplexity")}],
    [id |-> "why_this_structure", maxUses |-> 1, priority |-> 60,
     trigger |-> {Term("present", "currentApproach", Missing),
                  Term("==", "state", "APPROACH_EXPLORATION")}],
    [id |-> "edge_empty", maxUses |-> 1, priority |-> 70,
     trigger |-> {Term("milestone", "BASE_TESTS_PASS", Missing),
                  Unless("understood", "empty_input", Missing)}]>>

SomeFollowUps ==
  <<[id |-> "fu-streaming-window", weight |-> 2,
     trigger |-> {Term("solvedOptimally", Missing, Missing),
                  Term("minutesLeft", 8, Missing)}],
    [id |-> "fu-first-unique", weight |-> 1,
     trigger |-> {Term("solvedOptimally", Missing, Missing),
                  Term("minutesLeft", 5, Missing),
                  Unless("usedFollowUp", "fu-streaming-window", Missing)}]>>

SomeFacts == [empty_input |-> "IF_ASKED", sorting_loses_order |-> "AFTER_PROBE"]

Said(intent) ==
  [present |-> TRUE, finalized |-> TRUE, ended |-> TRUE, repeat |-> FALSE,
   intent |-> intent, asks |-> Missing, mentions |-> {}, claims |-> Missing, names |-> FALSE]

Asked(key) == [Said("CLARIFICATION_REQUEST") EXCEPT !.asks = key, !.mentions = {key}]

\* Free; the interviewer speaking, alone or talked over; the candidate speaking.
FloorFlags ==
  {[speaking |-> s, speechStarted |-> v, speakingNow |-> v] : s \in BOOLEAN, v \in BOOLEAN}

Free == [speaking |-> FALSE, speechStarted |-> FALSE, speakingNow |-> FALSE]

Still == [behind |-> FALSE, coded |-> TRUE, aged |-> FALSE, moving |-> FALSE, quiet |-> TRUE]

\* Fresh and still, moving ahead of the observer, observed long ago.
CodeViews ==
  {Still,
   [Still EXCEPT !.behind = TRUE, !.moving = TRUE, !.quiet = FALSE],
   [Still EXCEPT !.aged = TRUE]}

\* What opens a round and what ends it: openings lost and heard, every floor,
\* time running out in every stage.
Edges ==
  [shapes |-> {Said("EXPLICIT_QUESTION"), Said("HINT_REQUEST"), Said("THINK_ALOUD"),
               Said("APPROACH_COMMITMENT"),
               [Said("CLARIFICATION_REQUEST") EXCEPT !.repeat = TRUE],
               [Said("THINK_ALOUD") EXCEPT !.ended = FALSE]},
   floors |-> FloorFlags, codes |-> {Still},
   paces |-> {[paced |-> TRUE, stuck |-> s] : s \in BOOLEAN},
   outcomes |-> BOOLEAN, families |-> {"set"}, strengths |-> {2}, clock |-> <<360, 120, 119>>]

\* What the scenario's author wrote: claims, approaches, questions and tests in
\* any order, the code moving and still, eight minutes and two left.
Authored ==
  [shapes |-> {Asked("empty_input"), Asked("sorting_loses_order"), Said("HINT_REQUEST"),
               [Said("COMPLEXITY_CLAIM") EXCEPT !.claims = "O(n)"],
               [Said("APPROACH_COMMITMENT") EXCEPT !.names = TRUE]},
   floors |-> {Free}, codes |-> CodeViews,
   paces |-> {[paced |-> p, stuck |-> ~p] : p \in BOOLEAN},
   outcomes |-> {TRUE}, families |-> {"set", "sort"}, strengths |-> {1, 4},
   clock |-> <<480, 120>>]

Rounds == {Edges, Authored}

=============================================================================
