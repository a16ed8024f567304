----------------------------- MODULE ModelJudge -----------------------------
(***************************************************************************)
(* What a request to the text model can come to (lib/gemini.ts) and what    *)
(* the code runner makes of it (runner/model-judge.ts).                     *)
(*                                                                         *)
(* The runner executes nothing: a model predicts the program's output, and *)
(* a run's result is that prediction or a refusal.  A reply is abstracted   *)
(* to what the parser tells apart: how the JSON object is wrapped, whether *)
(* its fields have the right types, the status it names and the confidence  *)
(* it reports (in hundredths; None when it is no number).                   *)
(***************************************************************************)
EXTENDS Integers

None == -1

\* GeminiError's kinds, of generateJson's throw statements in their order.
ErrorKinds == {"NO_KEY", "TIMEOUT", "HTTP", "RATE_LIMITED", "MALFORMED"}

Statuses == {"PASSED", "FAILED", "RUNTIME_ERROR", "COMPILE_ERROR", "TIMEOUT",
             "MEMORY_EXCEEDED", "INTERNAL_ERROR"}

\* An HTTP answer (status 0: none came): its status, whether the envelope was
\* JSON, whether the prompt was blocked, whether its text is a JSON object.
Answers == [status : {0, 200, 429, 500}, enveloped : BOOLEAN,
            blocked : BOOLEAN, object : BOOLEAN]

\* The errors generateJson may throw on it.
Failures(http) ==
  CASE http.status = 0 -> {"TIMEOUT", "HTTP"}
    [] http.status = 429 -> {"RATE_LIMITED"}
    [] http.status = 500 -> {"HTTP"}
    [] OTHER -> IF http.enveloped /\ ~http.blocked /\ http.object THEN {} ELSE {"MALFORMED"}

Replies == [braces : BOOLEAN, object : BOOLEAN, typed : BOOLEAN,
            status : {"PASSED", "invented"}, confidence : {None, 20, 50, 130}]

\* parseJudgeVerdict: the outermost braces of the reply, as one well-typed
\* object with a known status and a confidence within 0..1, or nothing.
Verdict(reply) ==
  IF /\ reply.braces /\ reply.object /\ reply.typed
     /\ reply.status \in Statuses
     /\ reply.confidence \in 0..100
  THEN {reply} ELSE {}

MinConfidence == 50

\* execute, once a reply is there: a guess is refused, never reported.
Result(reply) ==
  IF Verdict(reply) = {} \/ reply.confidence < MinConfidence
  THEN "INTERNAL_ERROR" ELSE reply.status

JudgeNotice == "[ai-judged]"

\* result: the lines of its stderr, which always begin with the notice.
Judged(status, error) ==
  [status |-> status,
   stderr |-> IF status = "PASSED" THEN <<JudgeNotice>> ELSE <<JudgeNotice, error>>]

=============================================================================
