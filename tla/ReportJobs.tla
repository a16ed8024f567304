------------------------------ MODULE ReportJobs ------------------------------
(***************************************************************************)
(* The report of an ended interview: report/index.ts (EvaluationQueue),    *)
(* pg-report-store.ts, recovery-worker.ts and the graders that             *)
(* independent-evaluator.ts pays for.                                      *)
(*                                                                         *)
(* A row of session_reports is a job.  Whoever claims it holds it by token *)
(* until a lease runs out; each API process works on a session at most     *)
(* once at a time, and several processes may work on the same one.  Each   *)
(* action is one statement to the database or one call to the grader.      *)
(***************************************************************************)
EXTENDS Integers, Sequences, FiniteSets

CONSTANTS
  Sessions,     \* interviews
  Replicas,     \* API processes
  Graders,      \* the graders, in the order they are asked
  MaxAttempts,  \* MAX_REPORT_ATTEMPTS
  Budgets       \* what may go wrong, and how often (see Trouble)

None == "none"

NoReport == [attempt |-> 0]

\* The processes deployed; the deletions under way at once; provider or database failures; processes that die;
\* leases that run out under a worker that is alive; /end requests repeated;
\* regenerations; requests to delete; support reports.
Trouble(deployed, deleting, faults, crashes, stalls, agains, regens, asks, files) ==
  [up |-> deployed, deleters |-> deleting, fault |-> faults, crash |-> crashes, stall |-> stalls,
   again |-> agains, regen |-> regens, ask |-> asks, file |-> files]

ASSUME ReportAssumption ==
  /\ MaxAttempts \in Nat \ {0} /\ IsFiniteSet(Replicas \X Sessions)
  /\ Graders \in Seq(STRING)

VARIABLES
  sessions,  \* "absent", "active", "ended" or "deleted" (tombstoned)
  content,   \* the events' payloads: "full" or "redacted"
  rows,      \* session_reports
  tasks,     \* EvaluationQueue.active of each process, and how far it is
  passes,    \* what the recovery pass of a process still waits for
  pending,   \* queue.enqueue calls under way, which nobody awaits
  left       \* what is left of the budget

reportVars == <<sessions, content, rows, tasks, passes, pending, left>>

-----------------------------------------------------------------------------
(* Jobs.                                                                   *)

GraderSet == {Graders[i] : i \in DOMAIN Graders}
Ungraded  == [g \in GraderSet |-> None]
NoRow     == [status |-> None]
Resting   == [at |-> "idle"]

\* A grade, and a report, remembers the payloads it was computed from.
Queued ==
  [status |-> "QUEUED", token |-> 0, lapsed |-> FALSE, cooled |-> FALSE,
   attempts |-> 0, progress |-> Ungraded, body |-> NoReport]

\* enqueue: a failed job is queued again with its attempts and its progress.
Enqueued(r) ==
  CASE r = NoRow -> Queued
    [] r.status = "FAILED" -> [r EXCEPT !.status = "QUEUED", !.body = NoReport, !.token = 0]
    [] OTHER -> r

\* Defect: a running job is left to its worker.
ClaimableUnlessRunning(r) ==
  \/ r.status = "QUEUED"
  \/ r.status = "FAILED" /\ r.attempts < MaxAttempts /\ r.cooled

\* The condition of claim and of recoverable.  The bound on attempts is only
\* asked of jobs that have failed.
Claimable(r) ==
  \/ r.status = "QUEUED"
  \/ r.status = "RUNNING" /\ r.lapsed
  \/ r.status = "FAILED" /\ r.attempts < MaxAttempts /\ r.cooled

\* What EvaluationQueue.get starts work on.
Wanting(r) == r.status = "RUNNING" \/ Claimable(r)

HeldBy(r, token) == r.status = "RUNNING" /\ r.token = token

Working(p, s) == tasks[p][s].at \notin {"idle", "claim"}
Workers == {x \in Replicas \X Sessions : Working(x[1], x[2])}
Tokens == {tasks[x[1]][x[2]].token : x \in Workers}
          \cup {rows[s].token : s \in {t \in Sessions : rows[t] # NoRow}}

\* randomUUID: a token nobody holds and no row carries.
Fresh == CHOOSE n \in 1..(Cardinality(Tokens) + 1) : n \notin Tokens

Spend(kind) == left[kind] > 0 /\ left' = [left EXCEPT ![kind] = @ - 1]

\* A database operation or provider call comes back, or it fails.
Works == left' = left
Breaks == Spend("fault")

ReportInit ==
  /\ sessions = [s \in Sessions |-> "absent"]
  /\ content = [s \in Sessions |-> "full"]
  /\ rows = [s \in Sessions |-> NoRow]
  /\ tasks = [p \in Replicas |-> [s \in Sessions |-> Resting]]
  /\ passes = [p \in Replicas |-> {}]
  /\ pending = [p \in Replicas |-> {}]
  /\ left \in Budgets

-----------------------------------------------------------------------------
(* What puts a session to work.                                            *)

Begun(p, ids) ==
  [tasks EXCEPT ![p] = [s \in Sessions |->
     IF s \in ids /\ @[s].at = "idle" THEN [at |-> "claim"] ELSE @[s]]]

\* createStarted, as far as it matters here: one interview at a time.
Create(s) ==
  /\ sessions[s] = "absent"
  /\ \A t \in Sessions : sessions[t] # "active"
  /\ sessions' = [sessions EXCEPT ![s] = "active"]
  /\ UNCHANGED <<content, rows, tasks, passes, pending, left>>

\* endWithReport ends the row and queues the report in one transaction; the
\* process then queues it once more without waiting.
End(p, s) ==
  /\ p \in left.up
  /\ \/ sessions[s] = "active" /\ Works
     \/ sessions[s] = "ended" /\ Spend("again")
  /\ sessions' = [sessions EXCEPT ![s] = "ended"]
  /\ rows' = [rows EXCEPT ![s] = Enqueued(@)]
  /\ pending' = [pending EXCEPT ![p] = @ \cup {s}]
  /\ UNCHANGED <<content, tasks, passes>>

\* enqueue asks nothing about the session.
EnqueueLater(p, s) ==
  /\ s \in pending[p]
  /\ pending' = [pending EXCEPT ![p] = @ \ {s}]
  /\ \/ /\ rows' = [rows EXCEPT ![s] = Enqueued(@)]
        /\ tasks' = IF rows'[s].status \in {"QUEUED", "RUNNING"}
                    THEN Begun(p, {s}) ELSE tasks
        /\ Works
     \/ UNCHANGED <<rows, tasks>> /\ Breaks
  /\ UNCHANGED <<sessions, content, passes>>

\* GET /report, whose access check may be older than a deletion.
Poll(p, s) ==
  /\ p \in left.up /\ Wanting(rows[s]) /\ tasks[p][s].at = "idle"
  /\ tasks' = Begun(p, {s})
  /\ UNCHANGED <<sessions, content, rows, passes, pending, left>>

\* A pass takes every job it may claim and ends when all of them have.
Recover(p) ==
  LET due == {s \in Sessions : sessions[s] = "ended" /\ Claimable(rows[s])}
  IN  /\ p \in left.up /\ passes[p] = {} /\ due # {}
      /\ passes' = [passes EXCEPT ![p] = due]
      /\ tasks' = Begun(p, due)
      /\ UNCHANGED <<sessions, content, rows, pending, left>>

\* Without an authenticator, anybody may have a report made anew.
Regenerate(p, s) ==
  /\ p \in left.up /\ rows[s] # NoRow /\ Spend("regen")
  /\ rows' = [rows EXCEPT ![s] = NoRow]
  /\ pending' = [pending EXCEPT ![p] = @ \cup {s}]
  /\ UNCHANGED <<sessions, content, tasks, passes>>

-----------------------------------------------------------------------------
(* EvaluationQueue.process                                                 *)

Turn(p, s, task) ==
  /\ tasks' = [tasks EXCEPT ![p][s] = task]
  /\ passes' = IF task = Resting THEN [passes EXCEPT ![p] = @ \ {s}] ELSE passes

On(p, s, at) == tasks[p][s].at = at
Going(p, s, at) == Turn(p, s, [tasks[p][s] EXCEPT !.at = at])

Claim(p, s) ==
  /\ On(p, s, "claim")
  /\ \/ /\ Claimable(rows[s]) /\ Works
        /\ rows' = [rows EXCEPT ![s].status = "RUNNING", ![s].attempts = @ + 1,
                                ![s].token = Fresh, ![s].lapsed = FALSE]
        /\ Turn(p, s, [at |-> "read", token |-> Fresh, seen |-> None,
                       pinned |-> FALSE, grades |-> rows[s].progress,
                       attempt |-> rows'[s].attempts])
     \/ ~Claimable(rows[s]) /\ Works /\ Turn(p, s, Resting) /\ UNCHANGED rows
     \/ Breaks /\ Turn(p, s, Resting) /\ UNCHANGED rows
  /\ UNCHANGED <<sessions, content, pending>>

Read(p, s) ==
  /\ On(p, s, "read")
  /\ \/ Works /\ Turn(p, s, [tasks[p][s] EXCEPT !.at = "pin", !.seen = content[s]])
     \/ Breaks /\ Going(p, s, "fail")
  /\ UNCHANGED <<sessions, content, rows, pending>>

\* The grader to ask next: a grade in hand is not paid for again.
Missing(grades) == {i \in DOMAIN Graders : grades[Graders[i]] = None}
NextGrader(grades) == Graders[CHOOSE i \in Missing(grades) : \A j \in Missing(grades) : i <= j]
Onward(grades) == IF Missing(grades) = {} THEN "complete" ELSE "grade"

\* pinnedScenario finds nothing once the session is deleted.
Pin(p, s) ==
  /\ On(p, s, "pin")
  /\ \/ Works /\ Turn(p, s, [tasks[p][s] EXCEPT !.pinned = sessions[s] # "deleted",
                                                !.at = Onward(tasks[p][s].grades)])
     \/ Breaks /\ Going(p, s, "fail")
  /\ UNCHANGED <<sessions, content, rows, pending>>

\* Redacted events hold no code and no speech: the grade is "insufficient
\* evidence" and nobody is asked.  Otherwise the scenario is needed.
Grade(p, s) ==
  LET t == tasks[p][s]
      needsPin == t.seen = "full" /\ ~t.pinned
  IN  /\ On(p, s, "grade")
      /\ \/ ~needsPin /\ Works
            /\ Turn(p, s, [t EXCEPT !.grades[NextGrader(t.grades)] = t.seen, !.at = "save"])
         \/ needsPin /\ Works /\ Going(p, s, "fail")
         \/ ~needsPin /\ t.seen = "full" /\ Breaks /\ Going(p, s, "fail")
      /\ UNCHANGED <<sessions, content, rows, pending>>

\* saveProgress: losing the lease is an error like any other.
Save(p, s) ==
  LET t == tasks[p][s]
      held == HeldBy(rows[s], t.token)
  IN  /\ On(p, s, "save")
      /\ \/ /\ held /\ Works
            /\ rows' = [rows EXCEPT ![s].progress = t.grades]
            /\ Going(p, s, Onward(t.grades))
         \/ ~held /\ Works /\ Going(p, s, "fail") /\ UNCHANGED rows
         \/ Breaks /\ Going(p, s, "fail") /\ UNCHANGED rows
      /\ UNCHANGED <<sessions, content, pending>>

\* Defect: the outcome is written without asking who holds the job.
FinishAnyway(s, token, status, body) ==
  rows' = IF rows[s] # NoRow
          THEN [rows EXCEPT ![s].status = status, ![s].body = body, ![s].token = 0,
                            ![s].cooled = FALSE]
          ELSE rows

\* finish: the outcome counts only for the one who holds the job.
Finish(s, token, status, body) ==
  rows' = IF HeldBy(rows[s], token)
          THEN [rows EXCEPT ![s].status = status, ![s].body = body, ![s].token = 0,
                            ![s].cooled = FALSE]
          ELSE rows

Report(t) == [attempt |-> t.attempt, facts |-> t.seen, grades |-> t.grades]

\* A completion that fails, before or after it took effect, is followed by a
\* failure that asks for the same token.
Complete(p, s) ==
  LET t == tasks[p][s]
      finish == Finish(s, t.token, "READY", Report(t))
  IN  /\ On(p, s, "complete")
      /\ \/ finish /\ Works /\ Turn(p, s, Resting)
         \/ (finish \/ UNCHANGED rows) /\ Breaks /\ Going(p, s, "fail")
      /\ UNCHANGED <<sessions, content, pending>>

Fail(p, s) ==
  /\ On(p, s, "fail")
  /\ \/ Finish(s, tasks[p][s].token, "FAILED", NoReport) /\ Works
     \/ UNCHANGED rows /\ Breaks
  /\ Turn(p, s, Resting)
  /\ UNCHANGED <<sessions, content, pending>>

-----------------------------------------------------------------------------
(* Time and processes.                                                     *)

\* The lease outlasts the calls a healthy worker makes, unless it stalls.
Lapse(s) ==
  /\ rows[s].status = "RUNNING" /\ ~rows[s].lapsed
  /\ IF \E p \in Replicas : Working(p, s) /\ tasks[p][s].token = rows[s].token
     THEN Spend("stall") ELSE UNCHANGED left
  /\ rows' = [rows EXCEPT ![s].lapsed = TRUE]
  /\ UNCHANGED <<sessions, content, tasks, passes, pending>>

\* reportRetryAt
Cool(s) ==
  /\ rows[s].status = "FAILED" /\ ~rows[s].cooled
  /\ rows' = [rows EXCEPT ![s].cooled = TRUE]
  /\ UNCHANGED <<sessions, content, tasks, passes, pending, left>>

\* A process dies and another takes its place.
Forgets(p) ==
  /\ tasks' = [tasks EXCEPT ![p] = [s \in Sessions |-> Resting]]
  /\ passes' = [passes EXCEPT ![p] = {}]
  /\ pending' = [pending EXCEPT ![p] = {}]

Crash(p) ==
  /\ Spend("crash") /\ Forgets(p)
  /\ UNCHANGED <<sessions, content, rows>>

Step(p, s) ==
  \/ EnqueueLater(p, s) \/ Claim(p, s) \/ Read(p, s) \/ Pin(p, s)
  \/ Grade(p, s) \/ Save(p, s) \/ Complete(p, s) \/ Fail(p, s)

\* Everything but the death of a process, which other parts of it share.
ReportNext ==
  \/ \E p \in Replicas, s \in Sessions :
       Step(p, s) \/ End(p, s) \/ Poll(p, s) \/ Regenerate(p, s)
  \/ \E p \in Replicas : Recover(p)
  \/ \E s \in Sessions : Create(s) \/ Lapse(s) \/ Cool(s)

\* A call comes back; recovery runs every five seconds; time passes.
ReportFairness ==
  /\ \A p \in Replicas, s \in Sessions : WF_reportVars(Step(p, s))
  /\ \A p \in Replicas : WF_reportVars(Recover(p))
  /\ \A s \in Sessions : WF_reportVars(Lapse(s)) /\ WF_reportVars(Cool(s))

=============================================================================
