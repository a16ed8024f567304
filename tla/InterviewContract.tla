------------------------- MODULE InterviewContract -------------------------
(***************************************************************************)
(* The interview state machine shared by every part of the system          *)
(* (packages/contracts/src/interview-state.ts): the stages of a round, the *)
(* things the interviewer may do, and the two tables that bound both.      *)
(***************************************************************************)

States ==
  {"ORAL_PROBLEM_DELIVERY", "CLARIFICATION", "APPROACH_EXPLORATION",
   "IMPLEMENTATION", "TEST_AND_DEBUG", "FOLLOW_UP", "WRAP_UP", "EVALUATION"}

Actions ==
  {"STAY_SILENT", "DELIVER_BRIEF", "ACKNOWLEDGE_BRIEFLY",
   "ANSWER_CLARIFICATION", "ASK_PROBE", "GIVE_HINT_L1", "GIVE_HINT_L2",
   "TRANSITION_STAGE", "PRESENT_FOLLOW_UP", "END_INTERVIEW"}

AllowedActions ==
  [ORAL_PROBLEM_DELIVERY |-> {"STAY_SILENT", "DELIVER_BRIEF", "TRANSITION_STAGE"},
   CLARIFICATION         |-> {"STAY_SILENT", "ACKNOWLEDGE_BRIEFLY",
                              "ANSWER_CLARIFICATION", "DELIVER_BRIEF",
                              "TRANSITION_STAGE"},
   APPROACH_EXPLORATION  |-> {"STAY_SILENT", "DELIVER_BRIEF",
                              "ACKNOWLEDGE_BRIEFLY", "ANSWER_CLARIFICATION",
                              "ASK_PROBE", "GIVE_HINT_L1", "TRANSITION_STAGE"},
   IMPLEMENTATION        |-> {"STAY_SILENT", "DELIVER_BRIEF",
                              "ANSWER_CLARIFICATION", "ASK_PROBE",
                              "GIVE_HINT_L1", "TRANSITION_STAGE"},
   TEST_AND_DEBUG        |-> {"STAY_SILENT", "DELIVER_BRIEF",
                              "ACKNOWLEDGE_BRIEFLY", "ANSWER_CLARIFICATION",
                              "ASK_PROBE", "GIVE_HINT_L1", "GIVE_HINT_L2",
                              "TRANSITION_STAGE"},
   FOLLOW_UP             |-> {"STAY_SILENT", "ACKNOWLEDGE_BRIEFLY",
                              "ANSWER_CLARIFICATION", "ASK_PROBE",
                              "PRESENT_FOLLOW_UP", "TRANSITION_STAGE"},
   WRAP_UP               |-> {"STAY_SILENT", "ACKNOWLEDGE_BRIEFLY",
                              "END_INTERVIEW"},
   EVALUATION            |-> {}]

AllowedTransitions ==
  [ORAL_PROBLEM_DELIVERY |-> {"CLARIFICATION"},
   CLARIFICATION         |-> {"APPROACH_EXPLORATION"},
   APPROACH_EXPLORATION  |-> {"IMPLEMENTATION"},
   IMPLEMENTATION        |-> {"TEST_AND_DEBUG"},
   TEST_AND_DEBUG        |-> {"FOLLOW_UP", "WRAP_UP"},
   FOLLOW_UP             |-> {"WRAP_UP"},
   WRAP_UP               |-> {"EVALUATION"},
   EVALUATION            |-> {}]

IsActionAllowed(state, action) == action \in AllowedActions[state]

IsTransitionAllowed(from, to) == to \in AllowedTransitions[from]

=============================================================================
