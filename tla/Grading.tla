------------------------------ MODULE Grading ------------------------------
(***************************************************************************)
(* What a page that is opened again is given (session/resume.ts), the      *)
(* candidate's screen rebuilt from the whole log; and the two graders of a *)
(* finished interview (report/independent-evaluator.ts).  One grader is    *)
(* given the code and the runs, the other what the candidate said; each    *)
(* must cite what it was given, and a reply that does not is refused.  The *)
(* model's reply is any reply; its wording, and the bounds put on its      *)
(* length, are left out.                                                   *)
(***************************************************************************)
EXTENDS Report

CONSTANT GradeReplies(_)  \* what the model may reply about a log of that length

-----------------------------------------------------------------------------
(* The screen.  Notes, the stage and the numbering of inputs are left out. *)

Blank == [rev |-> 0, code |-> NoCode, runs |-> 0, milestones |-> {}]

\* applyEvent: an older revision that comes later changes nothing.
Shown(screen, e) ==
  CASE e.type = "CODE_DELTA" ->
         IF e.rev >= screen.rev
         THEN [screen EXCEPT !.code = e.code, !.rev = e.rev] ELSE screen
    [] e.type = "RUN_COMPLETED" -> [screen EXCEPT !.runs = @ + 1]
    [] e.type = "MILESTONE"     -> [screen EXCEPT !.milestones = @ \cup {e.kind}]
    [] OTHER -> screen

\* reconstruct
Screen(log) == FoldLeft(Shown, Blank, log)

-----------------------------------------------------------------------------
(* The grades.                                                             *)

Sides == {"solution", "transcript"}
MaxCitations == 8

Positions(log, type) == {i \in DOMAIN log : log[i].type = type}

\* The solution grader's code is the last one in the log.
FinalCode(log) == SelectLastInSeq(log, LAMBDA e : e.type = "CODE_DELTA")

\* What a grader is given; nothing when there is no code, or no turn.
Sources(side, log) ==
  IF side = "transcript" THEN Positions(log, "SPEECH_FINAL")
  ELSE IF FinalCode(log) = 0 \/ log[FinalCode(log)].code = NoCode THEN {}
  ELSE {FinalCode(log)} \cup Positions(log, "RUN_COMPLETED")

\* normalize.  Citations beyond the eighth are dropped unseen.
Cited(reply) == SubSeq(reply.cites, 1, Min({MaxCitations, Len(reply.cites)}))

Verbatim(log, cite) == cite.quote = log[cite.seq].claim

GoodCitation(given, side, log, cite) ==
  /\ cite.seq \in given
  /\ side = "transcript" => Verbatim(log, cite)

\* leaks: the solution grader's reply repeats the private reference.  whole:
\* every dimension is there, with a number and a text.
Accepted(given, side, log, reply) ==
  /\ side = "solution" => ~reply.leaks
  /\ reply.whole /\ reply.cites # <<>>
  /\ \A i \in DOMAIN Cited(reply) : GoodCitation(given, side, log, Cited(reply)[i])

Bounded(n) == IF n < 0 THEN 0 ELSE IF n > 100 THEN 100 ELSE n

Insufficient == [status |-> "INSUFFICIENT_EVIDENCE", score |-> -1, cites |-> <<>>]
Refused == [status |-> "REFUSED", score |-> -1, cites |-> <<>>]

\* gradeSolution, gradeTranscript: nothing is asked of the model when there
\* is nothing to grade, and a refused reply is no grade at all.
Grade(given, side, log, reply) ==
  IF given = {} THEN Insufficient
  ELSE IF ~Accepted(given, side, log, reply) THEN Refused
  ELSE [status |-> "SCORED", score |-> Bounded(reply.score), cites |-> Cited(reply)]

-----------------------------------------------------------------------------
(* Properties.                                                             *)

\* With every input taken in, the code on a page opened now is the code the
\* interviewer has before it, and it knows every milestone the page shows.
\* A recovery breaks both: the last checkpoint before the event that is
\* dispatched may have been written after an edit that it does not hold.
ScreenIsTheInterviewers ==
  ~disturbed /\ inbox = <<>> =>
    /\ Screen(evidence).code = mem.code
    /\ Screen(evidence).milestones \subseteq mem.reached

\* Whatever the model replies, a score stands on something the candidate
\* did on that side: a run, the code as it was last, or words of a turn.
Grounded(side, grade) ==
  IF grade.status # "SCORED" THEN grade.score = -1
  ELSE /\ grade.score \in 0..100 /\ grade.cites # <<>>
       /\ \A i \in DOMAIN grade.cites :
            LET cite == grade.cites[i]
                e    == evidence[cite.seq]
            IN  IF side = "transcript"
                THEN e.type = "SPEECH_FINAL" /\ cite.quote = e.claim
                ELSE \/ IsRun(e)
                     \/ /\ e.type = "CODE_DELTA"
                        /\ Positions(evidence, "CODE_DELTA") \subseteq 1..cite.seq

GradesAreGrounded ==
  \A side \in Sides :
    LET given == Sources(side, evidence) IN
    \A reply \in GradeReplies(Len(evidence)) :
      Grounded(side, Grade(given, side, evidence, reply))

\* The code that is graded is the code a page shows, unless pages numbered
\* their revisions against each other.
OneNumbering ==
  \A i, j \in Positions(evidence, "CODE_DELTA") :
    i < j => evidence[i].rev <= evidence[j].rev

ShownIsGraded ==
  FinalCode(evidence) # 0 /\ OneNumbering =>
    evidence[FinalCode(evidence)].code = Screen(evidence).code

\* Everything that reads the log afterwards finds the same interview in it:
\* the report's scores, however observations and crashes fell; the page that
\* is opened again and the memory of the interviewer; and, once nothing is in
\* flight, the two grades (evaluator.ts, independent-evaluator.ts, resume.ts).
ReadersAgree ==
  /\ ScoresFollow
  /\ ScreenIsTheInterviewers
  /\ inbox = <<>> /\ pass = Idle => GradesAreGrounded /\ ShownIsGraded
=============================================================================
