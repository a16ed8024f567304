------------------------------ MODULE Observer ------------------------------
(***************************************************************************)
(* What the interviewer knows of the candidate, and where it comes from:   *)
(* the observer's folds (observer/index.ts, milestones.ts, transcript.ts,  *)
(* semantic-snapshot.ts), the observation pass that runs them beside the   *)
(* conversation (orchestrator/runtime.ts), and what a process started in   *)
(* place of a dead one rebuilds from the session's log (restore).          *)
(*                                                                         *)
(* One step is what the code does between two awaits.  The log keeps its   *)
(* checkpoints, because recovery starts at the last of them; evidence[i]   *)
(* is the event with seq i.  Transactions commit in the order issued.      *)
(*                                                                         *)
(* Abstracted: a revision of the code is what its snapshot tells apart;    *)
(* an edit replaces the file or leaves it; a claim is a time bound; clocks *)
(* (activity level, the stuck score's inactivity term) are left out.       *)
(* Scores and fractions are in hundredths.                                 *)
(***************************************************************************)
EXTENDS ModelJudge, Sequences, FiniteSets, SequencesExt

CONSTANTS Codes,          \* what snapshots may show of the code
          Errors,         \* the error lines a program may end with
          Outcomes,       \* the statuses a run may end with
          Claims,         \* the time bounds a candidate may claim
          CostOf(_),      \* the scenario's time bound of a solution family
          Inputs,         \* bounds: events taken in, and how many may wait
          Backlog(_)      \* for dispatch once so many were taken in

VARIABLES evidence, \* the session's event log
          inbox,    \* its dispatch line: positions in evidence
          alive,    \* a runtime exists
          mem,      \* its checkpointed fields (RuntimeCheckpoint)
          waiting,  \* [runs, claims]: pendingRuns and pendingTranscripts
          dirty,    \* observationDirty
          pass,     \* the observation in flight
          disturbed \* a process died or a parse failed

observerVars == <<evidence, inbox, alive, mem, waiting, dirty, pass, disturbed>>

NoCode == [function |-> FALSE, depth |-> 0, loops |-> 0, hashes |-> FALSE, sorts |-> FALSE,
           lines |-> 0, returnsEarly |-> FALSE, valid |-> TRUE]
NoFailure == <<>>
NoneYet == "none"
Idle == [at |-> "idle"]
Nobody == [runs |-> <<>>, claims |-> <<>>]

Fresh == [rev |-> 0, code |-> NoCode, observed |-> NoCode, reached |-> {},
          streak |-> 0, last |-> NoFailure, family |-> NoneYet, progress |-> 0,
          stuck |-> 0, claimed |-> NoneYet, passes |-> 0, derived |-> 0]

OfType(type) == SelectSeq(evidence, LAMBDA e : e.type = type)
IsRun(e) == e.type = "RUN_COMPLETED"

\* append: an event whose idempotency key is taken is not written again.
Put(log, e) == IF \E i \in DOMAIN log : log[i].key = e.key THEN log ELSE Append(log, e)

-----------------------------------------------------------------------------
(* Runs.                                                                   *)

Passed(run) == run.status = "PASSED"

\* failureFingerprint: the exit code goes with the status.
FailureFingerprint(run) == <<run.status, Head(run.stderr)>>

-----------------------------------------------------------------------------
(* milestones.ts                                                           *)

RepeatedFailureThreshold == 3
LargeRewriteChurn == 50
LargeRewriteMinLines == 6

Reach(m, kinds) == [m EXCEPT !.reached = @ \union kinds]
NewKinds(m, kinds) == SetToSeq(kinds \ m.reached)

\* Defect: a success is counted, and the streak stays.
AfterSuccessStreakStays(m) == m

AfterSuccess(m) == [m EXCEPT !.streak = 0, !.last = NoFailure]

AfterFailure(m, run) ==
  [m EXCEPT !.streak = IF FailureFingerprint(run) = m.last THEN @ + 1 ELSE 1,
            !.last = FailureFingerprint(run)]

\* The third identical failure is told again with every further one.
ApplyRunResult(m, run) ==
  LET first == (IF run.status # "COMPILE_ERROR" THEN {"FIRST_COMPILES"} ELSE {})
               \union (IF Passed(run) THEN {"BASE_TESTS_PASS"} ELSE {})
      next  == IF Passed(run) THEN AfterSuccess(m) ELSE AfterFailure(m, run)
      stuck == ~Passed(run) /\ next.streak >= RepeatedFailureThreshold
      again == IF stuck THEN <<"REPEATED_SAME_FAILURE">> ELSE <<>>
  IN  [state |-> Reach(next, first \union ToSet(again)),
       emitted |-> NewKinds(m, first) \o again]

\* lineStats: the share of lines that changed, an edit being a rewrite.
Churn(old, new) == IF old = NoCode \/ old = new THEN 0 ELSE 100

ApplySnapshot(m, snapshot) ==
  IF /\ Churn(m.observed, snapshot) >= LargeRewriteChurn
     /\ snapshot.lines >= LargeRewriteMinLines
  THEN [state |-> Reach(m, {"LARGE_REWRITE"}), emitted |-> <<"LARGE_REWRITE">>]
  ELSE [state |-> m, emitted |-> <<>>]

\* applyComplexityMismatch and complexityMismatch; told once.
Mismatched(m) ==
  /\ m.family # NoneYet /\ m.claimed # NoneYet
  /\ m.claimed # CostOf(m.family)

ApplyComplexityMismatch(m) ==
  IF Mismatched(m) /\ "COMPLEXITY_CLAIM_MISMATCH" \notin m.reached
  THEN [state |-> Reach(m, {"COMPLEXITY_CLAIM_MISMATCH"}),
        emitted |-> <<"COMPLEXITY_CLAIM_MISMATCH">>]
  ELSE [state |-> m, emitted |-> <<>>]

-----------------------------------------------------------------------------
(* index.ts, semantic-snapshot.ts, transcript.ts                           *)

DetectSolutionFamily(s) ==
  CASE ~s.function             -> NoneYet
    [] s.function /\ s.depth >= 2 -> "sf-nested-loop"
    [] OTHER -> IF s.sorts THEN "sf-sort"
                ELSE IF s.hashes /\ s.loops = 1 THEN "sf-set-single-pass"
                ELSE IF s.hashes /\ s.loops >= 2 THEN "sf-count-then-scan"
                ELSE NoneYet

Worth(points, holds) == IF holds THEN points ELSE 0

EstimateProgress(s) ==
  IF ~s.function THEN 0
  ELSE 20 + Worth(20, s.lines >= 4) + Worth(20, s.loops > 0) + Worth(20, s.hashes)
       + Worth(10, s.returnsEarly) + Worth(10, s.valid)

\* stuckScore: repeats of one failure, forgiven once the tests have passed.
StuckScore(m) ==
  LET repeats == IF m.streak > 1 THEN (m.streak - 1) * 30 ELSE 0 IN
  IF "BASE_TESTS_PASS" \in m.reached THEN 0 ELSE IF repeats > 60 THEN 60 ELSE repeats

\* observe with a snapshot, and observe with a run; both score afterwards.
ObserveSnapshot(m, s) ==
  LET update == ApplySnapshot(m, s) IN
  [state |-> [update.state EXCEPT !.family = DetectSolutionFamily(s),
                                  !.progress = EstimateProgress(s)],
   emitted |-> update.emitted]

Then(folded, update) ==
  [state |-> update.state, emitted |-> folded.emitted \o update.emitted]

FoldRun(folded, run) == Then(folded, ApplyRunResult(folded.state, run))

ObserveTranscript(folded, claim) ==
  Then(folded, ApplyComplexityMismatch([folded.state EXCEPT !.claimed = claim]))

\* runObservations, from the parsed snapshot to the folded state.
Folded(m, job) ==
  LET seen == IF job.code = NoCode THEN [state |-> m, emitted |-> <<>>]
              ELSE LET f == ObserveSnapshot(m, job.code)
                   IN  [f EXCEPT !.state.observed = job.code, !.state.derived = job.rev]
      ran  == FoldLeft(FoldRun, seen, job.runs)
      scored == [ran EXCEPT !.state.stuck = StuckScore(ran.state)]
      heard == FoldLeft(ObserveTranscript, scored, job.claims)
      all  == Then(heard, ApplyComplexityMismatch(heard.state))
  IN  [all EXCEPT !.state.passes = @ + 1]

-----------------------------------------------------------------------------
(* The observation pass: scheduleObservation and runObservations.          *)

World == [mem |-> mem, waiting |-> waiting, dirty |-> dirty, pass |-> pass]

\* A pass takes all that waits and parses the newest code, or, while there
\* is none, folds at once.
BeginPass(w) ==
  LET job == [at |-> "parsing", rev |-> w.mem.rev, code |-> w.mem.code,
              runs |-> w.waiting.runs, claims |-> w.waiting.claims]
      f   == Folded(w.mem, job)
  IN  IF w.mem.code = NoCode
      THEN [mem |-> f.state, waiting |-> Nobody, dirty |-> FALSE,
            pass |-> [at |-> "recording", tell |-> f.emitted, told |-> 0]]
      ELSE [w EXCEPT !.waiting = Nobody, !.dirty = FALSE, !.pass = job]

Schedule(w) ==
  IF w.pass = Idle THEN BeginPass(w) ELSE [w EXCEPT !.dirty = TRUE]

\* The pass is over; what came in the meantime gets another.
Rested(w) == IF w.dirty THEN BeginPass([w EXCEPT !.pass = Idle])
             ELSE [w EXCEPT !.pass = Idle]

Become(w) == /\ mem' = w.mem /\ waiting' = w.waiting
             /\ dirty' = w.dirty /\ pass' = w.pass

Parsed ==
  /\ pass.at = "parsing"
  /\ LET f == Folded(mem, pass) IN
     Become([World EXCEPT !.mem = f.state,
               !.pass = [at |-> "recording", tell |-> f.emitted, told |-> 0]])
  /\ UNCHANGED <<evidence, inbox, alive, disturbed>>

\* buildSnapshot throws; what the pass had taken goes with it.
ParseFails ==
  /\ pass.at = "parsing"
  /\ ~disturbed /\ disturbed' = TRUE  \* one disturbance per behaviour
  /\ Become(Rested(World))
  /\ UNCHANGED <<evidence, inbox, alive>>

Checkpoint(key, m) == [type |-> "RUNTIME_CHECKPOINT", key |-> key, image |-> m]

\* The fields of the candidate's state that recovery reads back.
StateUpdate(m) ==
  [type |-> "CANDIDATE_STATE_UPDATED", key |-> <<"observation", m.passes>>,
   family |-> m.family, progress |-> m.progress, stuck |-> m.stuck,
   claimed |-> m.claimed, derived |-> m.derived]

\* The pass's appends, each awaited: its milestones, the state, a checkpoint.
RecordMilestone ==
  /\ pass.at = "recording" /\ pass.told < Len(pass.tell)
  /\ evidence' = Put(evidence, [type |-> "MILESTONE", kind |-> pass.tell[pass.told + 1],
                                key |-> <<"milestone", mem.passes, pass.told>>])
  /\ pass' = [pass EXCEPT !.told = @ + 1]
  /\ UNCHANGED <<inbox, alive, mem, waiting, dirty, disturbed>>

RecordState ==
  /\ pass.at = "recording" /\ pass.told = Len(pass.tell)
  /\ evidence' = Put(evidence, StateUpdate(mem))
  /\ pass' = [at |-> "saving"]
  /\ UNCHANGED <<inbox, alive, mem, waiting, dirty, disturbed>>

SaveObservation ==
  /\ pass.at = "saving"
  /\ evidence' = Put(evidence, Checkpoint(<<"after", mem.passes>>, mem))
  /\ Become(Rested(World))
  /\ UNCHANGED <<inbox, alive, disturbed>>

-----------------------------------------------------------------------------
(* Recovery: restore and restoreEvent.                                     *)

\* Defect: the events before the checkpoint are folded as well.
UnfoldedAll(log, last) == log

Unfolded(log, last) == SubSeq(log, last + 1, Len(log))

RestoreEvent(m, e) ==
  CASE e.type = "CODE_DELTA" ->
         IF e.rev >= m.rev THEN [m EXCEPT !.rev = e.rev, !.code = e.code] ELSE m
    [] e.type = "RUN_COMPLETED" -> ApplyRunResult(m, e.run).state
    [] e.type = "MILESTONE" -> Reach(m, {e.kind})
    [] e.type = "CANDIDATE_STATE_UPDATED" ->
         [m EXCEPT !.family = e.family, !.progress = e.progress, !.stuck = e.stuck,
                   !.claimed = e.claimed, !.derived = e.derived, !.passes = @ + 1,
                   !.observed = IF e.derived = m.rev THEN m.code ELSE @]
    [] OTHER -> m

Restore(log) ==
  LET last  == SelectLastInSeq(log, LAMBDA e : e.type = "RUNTIME_CHECKPOINT")
      image == IF last = 0 THEN Fresh ELSE log[last].image
  IN  FoldLeft(RestoreEvent, image, Unfolded(log, last))

-----------------------------------------------------------------------------
(* The events that come in, and ingest.                                    *)

Taken == Len(SelectSeq(evidence, LAMBDA e : e.key[1] = "input"))

\* A durable append, its event put in the session's dispatch line.
Commit(e) ==
  /\ Taken < Inputs /\ Len(inbox) < Backlog(Taken)
  /\ evidence' = Append(evidence, e) /\ inbox' = Append(inbox, Len(evidence) + 1)
  /\ UNCHANGED <<alive, mem, waiting, dirty, pass, disturbed>>

Key == <<"input", Len(evidence)>>

\* A page numbers its revisions from what /resume told it; one that was told
\* nothing starts again.
NewestRev(log) == Max({0} \cup {log[i].rev : i \in {j \in DOMAIN log : log[j].type = "CODE_DELTA"}})

Edit == \E c \in Codes, rev \in {1, NewestRev(evidence) + 1} :
  Commit([type |-> "CODE_DELTA", key |-> Key, rev |-> rev, code |-> c])

\* A turn that claims a bound, in more or fewer words than a report quotes.
Say == \E c \in Claims, brief \in BOOLEAN :
  Commit([type |-> "SPEECH_FINAL", key |-> Key, claim |-> c, brief |-> brief])

RunCompletes ==
  \E status \in Outcomes, error \in Errors :
    Commit([type |-> "RUN_COMPLETED", key |-> Key, run |-> Judged(status, error)])

\* applyCommitted, of the events the observer is given.
Applied(m, e) ==
  LET w == [World EXCEPT !.mem = m] IN
  CASE e.type = "CODE_DELTA" ->
         IF e.rev < m.rev THEN w
         ELSE Schedule([w EXCEPT !.mem.rev = e.rev, !.mem.code = e.code])
    [] e.type = "RUN_COMPLETED" -> Schedule([w EXCEPT !.waiting.runs = Append(@, e.run)])
    [] OTHER -> Schedule([w EXCEPT !.waiting.claims = Append(@, e.claim)])

\* dispatchOne: a runtime restored, where none lives, from the log before
\* the event; then ingest, with its checkpoint.
Ingest ==
  /\ inbox # <<>>
  /\ LET i == Head(inbox)
         m == IF alive THEN mem ELSE Restore(SubSeq(evidence, 1, i - 1))
         w == Applied(m, evidence[i])
     IN  /\ Become(w)
         /\ evidence' = Put(evidence, Checkpoint(<<"event", i>>, w.mem))
  /\ alive' = TRUE /\ inbox' = Tail(inbox)
  /\ UNCHANGED disturbed

\* The process dies.  Another takes up the inputs of the page that were not
\* completed (runtime_inputs); a run's result is none of them.
Crash ==
  /\ ~disturbed /\ disturbed' = TRUE
  /\ alive' = FALSE /\ mem' = Fresh /\ waiting' = Nobody
  /\ dirty' = FALSE /\ pass' = Idle
  /\ inbox' = SelectSeq(inbox, LAMBDA i : ~IsRun(evidence[i]))
  /\ UNCHANGED evidence

ObserverInit ==
  /\ evidence = <<>> /\ inbox = <<>> /\ alive = FALSE /\ mem = Fresh
  /\ waiting = Nobody /\ dirty = FALSE /\ pass = Idle /\ disturbed = FALSE

ObserverNext ==
  \/ Edit \/ Say \/ RunCompletes \/ Ingest \/ Crash
  \/ Parsed \/ ParseFails \/ RecordMilestone \/ RecordState \/ SaveObservation

-----------------------------------------------------------------------------
(* Properties.                                                             *)

Runs == OfType("RUN_COMPLETED")
RunsBefore(i) == SelectSeq(SubSeq(evidence, 1, i), IsRun)
Same(a, b) == FailureFingerprint(a.run) = FailureFingerprint(b.run)

Quiescent == alive /\ inbox = <<>> /\ pass = Idle

\* The runs at the end of the log that fail like the last of them.
Streak ==
  LET n == Len(Runs) IN
  IF n = 0 \/ Passed(Runs[n].run) THEN 0
  ELSE Cardinality({k \in 1..n : \A j \in k..n : Same(Runs[j], Runs[n])})

\* What the observer holds is what the log shows.
Agrees ==
  /\ mem.streak = Streak
  /\ "BASE_TESTS_PASS" \in mem.reached <=> \E i \in DOMAIN Runs : Passed(Runs[i].run)
  /\ Mismatched(mem) => "COMPLEXITY_CLAIM_MISMATCH" \in mem.reached
  /\ "BASE_TESTS_PASS" \in mem.reached => mem.stuck = 0

\* However edits, runs, claims and passes interleave, an observer with
\* nothing left to do holds what the log shows (scheduleObservation,
\* runObservations): no run lost or counted twice by the passes that share a
\* window, a solved problem never scored as stuck, and a false claim noticed
\* whichever of code and claim came first.  It is the case of no crash and
\* no failed parse.
ObserverAgrees == Quiescent /\ ~disturbed => Agrees

\* A milestone in the log is earned by what the log holds before it, also
\* when processes die and parses fail in between: recovery folds no run
\* twice (restore, applyRunResult, applySnapshot, applyComplexityMismatch).
Earned(kind, i) ==
  LET runs == RunsBefore(i) IN
  CASE kind = "FIRST_COMPILES" -> \E k \in DOMAIN runs : runs[k].run.status # "COMPILE_ERROR"
    [] kind = "BASE_TESTS_PASS" -> \E k \in DOMAIN runs : Passed(runs[k].run)
    [] kind = "REPEATED_SAME_FAILURE" ->
         \E k \in DOMAIN runs :
           Cardinality({j \in 1..k : Same(runs[j], runs[k])}) >= RepeatedFailureThreshold
    [] kind = "COMPLEXITY_CLAIM_MISMATCH" ->
         \E c, s \in 1..i : /\ evidence[c].type = "CODE_DELTA"
                            /\ evidence[s].type = "SPEECH_FINAL"
                            /\ CostOf(DetectSolutionFamily(evidence[c].code))
                                 # evidence[s].claim
    [] OTHER -> \E c, d \in 1..i : /\ evidence[c].type = "CODE_DELTA"
                                   /\ evidence[d].type = "CODE_DELTA"
                                   /\ evidence[c].code # evidence[d].code

MilestonesAreEarned ==
  \A i \in DOMAIN evidence :
    evidence[i].type = "MILESTONE" => Earned(evidence[i].kind, i)

\* Failures told to be the same have the same status and the same error:
\* "Status plus the first line of stderr plus the exit code is what a human
\* means by 'the same error again'" (milestones.ts:38-39).
RepeatsAreRepeats ==
  \A i \in DOMAIN evidence :
    (evidence[i].type = "MILESTONE" /\ evidence[i].kind = "REPEATED_SAME_FAILURE")
      => LET runs == RunsBefore(i) IN
         \E k \in DOMAIN runs :
           Cardinality({j \in 1..k : runs[j].run = runs[k].run}) >= RepeatedFailureThreshold
=============================================================================
