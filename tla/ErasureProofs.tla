---------------------------- MODULE ErasureProofs ----------------------------
(***************************************************************************)
(* Proofs about Erasure, for every number of sessions, processes, graders, *)
(* deletions and faults: a report that is ready stays as it is, and what a *)
(* completed deletion covers stays erased.                                 *)
(*                                                                         *)
(* The second is about the workers a deletion races with.  What holds it   *)
(* up is Clean: once a session's events are redacted and its report row is *)
(* removed, nothing readable is in the row, and nothing readable is in the *)
(* hands of a worker whose token the row carries.  A worker from before    *)
(* may hold readable grades for ever, but its token left the row with the  *)
(* row, and a token in anybody's hands is not given out again              *)
(* (FreshIsFree).  DeletersInv says how far each deletion is.              *)
(***************************************************************************)
EXTENDS Erasure, FiniteSetTheorems, FunctionTheorems, TLAPS

-----------------------------------------------------------------------------
(* The invariant.                                                          *)

Payload == {None, "full", "redacted"}
Grading == [GraderSet -> Payload]

Bodies == {NoReport} \cup [attempt : Nat, facts : Payload, grades : Grading]

Jobs ==
  [status : {"QUEUED", "RUNNING", "READY", "FAILED"}, token : Nat, lapsed : BOOLEAN,
   cooled : BOOLEAN, attempts : Nat, progress : Grading, body : Bodies]

Busy ==
  [at : {"read", "pin", "grade", "save", "complete", "fail"}, token : Nat,
   seen : Payload, pinned : BOOLEAN, grades : Grading, attempt : Nat]

Stages == {"hide", "erase", "reports", "support", "resume", "account", "complete", "release"}

Work ==
  [at : Stages, request : Requests, rest : SUBSET Requests, todo : SUBSET Sessions,
   found : SUBSET Sessions, now : Sessions \cup {None}, failed : BOOLEAN]

Doings == {Free} \cup [at : {"claim"}, request : Requests] \cup Work

Claims == [at : {"pending", "done"}, ids : SUBSET Sessions, held : Deleters \cup {None},
           lapsed : BOOLEAN]

ReportTypeOK ==
  /\ sessions \in [Sessions -> {"absent", "active", "ended", "deleted"}]
  /\ content \in [Sessions -> {"full", "redacted"}]
  /\ rows \in [Sessions -> {NoRow} \cup Jobs]
  /\ tasks \in [Replicas -> [Sessions -> {Resting, [at |-> "claim"]} \cup Busy]]

ErasureTypeOK ==
  /\ requests \in [Requests -> {Unasked} \cup Claims]
  /\ deleters \in [Deleters -> Doings]
  /\ incidents \in [Sessions -> {"none", "filed", "late"}]
  /\ resumes \subseteq Sessions

\* A worker whose token the row carries.
Holder(p, s) == Working(p, s) /\ HeldBy(rows[s], tasks[p][s].token)

\* Nothing readable is in the report row, nor will be.
Clean(s) ==
  /\ content[s] = "redacted" /\ Untold(rows[s])
  /\ \A p \in Replicas : Holder(p, s) =>
       /\ tasks[p][s].seen # "full"
       /\ \A g \in GraderSet : tasks[p][s].grades[g] # "full"

Vanished(s) == sessions[s] = "deleted" /\ Clean(s) /\ incidents[s] # "filed" /\ s \notin resumes

Known(r) == requests[r].at # "none"

\* What a deletion w that reached every store so far has behind it.
Reached(w) ==
  LET ids  == requests[w.request].ids
      past == ids \ w.todo
  IN  /\ w.at = "hide" =>
           ids = w.todo \cup w.found /\ \A s \in w.found : sessions[s] = "deleted"
      /\ w.at \in {"erase", "reports", "support", "resume", "account", "complete"} =>
           w.todo \subseteq ids /\ \A s \in ids : sessions[s] = "deleted"
      /\ w.at = "erase" => w.failed \/ \A s \in past : Vanished(s)
      /\ w.at \in {"reports", "support", "resume"} =>
           /\ w.now \in ids /\ content[w.now] = "redacted"
           /\ w.failed \/ \A s \in past \ {w.now} : Vanished(s)
      /\ w.at \in {"support", "resume"} => w.failed \/ Clean(w.now)
      /\ w.at = "resume" => w.failed \/ incidents[w.now] # "filed"
      /\ w.at \in {"account", "complete"} => w.failed \/ \A s \in ids : Vanished(s)

\* Its request is on record, and so are those it holds besides.
OnRecord(w) ==
  /\ w.at # "idle" => Known(w.request)
  /\ w.at \in Stages => (\A r \in w.rest : Known(r)) /\ Reached(w)

DeletersInv == \A d \in Deleters : OnRecord(deleters[d])

RequestsInv ==
  \A r \in Requests : requests[r].at = "done" => \A s \in requests[r].ids : Vanished(s)

ErasureInv == ReportTypeOK /\ ErasureTypeOK /\ DeletersInv /\ RequestsInv

-----------------------------------------------------------------------------
(* Tokens.                                                                 *)

\* What a function takes a finite set to is finite.
LEMMA ImageIsFinite ==
  ASSUME NEW S, IsFiniteSet(S), NEW f, NEW T,
         \A y \in T : \E x \in S : y = f[x]
  PROVE  IsFiniteSet(T)
<1> DEFINE D == {x \in S : f[x] \in T}
           g == [x \in D |-> f[x]]
<1>1. IsFiniteSet(D)
  BY FS_Subset
<1>2. g \in Surjection(D, T)
  <2>1. g \in [D -> T]
    OBVIOUS
  <2>2. \A y \in T : \E x \in D : g[x] = y
    OBVIOUS
  <2> QED
    BY <2>1, <2>2, Fun_IsSurj
<1> QED
  BY <1>1, <1>2, FS_Surjection

\* A token in anybody's hands, or on a row, is not given out again.
LEMMA FreshIsFree ==
  ReportTypeOK => Fresh \in Nat /\ Fresh \notin Tokens
<1> SUFFICES ASSUME ReportTypeOK PROVE Fresh \in Nat /\ Fresh \notin Tokens
  OBVIOUS
<1> DEFINE Rowed == {t \in Sessions : rows[t] # NoRow}
           Held == {tasks[x[1]][x[2]].token : x \in Workers}
           OnRow == {rows[s].token : s \in Rowed}
           f == [x \in Workers |-> tasks[x[1]][x[2]].token]
           h == [s \in Rowed |-> rows[s].token]
           n == Cardinality(Tokens)
<1>1. IsFiniteSet(Workers)
  BY ReportAssumption, FS_Subset DEF Workers
<1>2. IsFiniteSet(Held)
  <2>1. \A y \in Held : \E x \in Workers : y = f[x]
    OBVIOUS
  <2> HIDE DEF Held, f
  <2> QED
    BY <1>1, <2>1, ImageIsFinite
<1>3. IsFiniteSet(Rowed)
  BY ErasureAssumption, FS_Subset DEF Requests
<1>4. IsFiniteSet(OnRow)
  <2>1. \A y \in OnRow : \E x \in Rowed : y = h[x]
    OBVIOUS
  <2> HIDE DEF OnRow, h, Rowed
  <2> QED
    BY <1>3, <2>1, ImageIsFinite
<1>5. Tokens = Held \cup OnRow
  BY DEF Tokens
<1>6. IsFiniteSet(Tokens)
  <2> HIDE DEF Held, OnRow
  <2> QED
    BY <1>2, <1>4, <1>5, FS_Union
<1>7. n \in Nat
  BY <1>6, FS_CardinalityType
<1>8. \E m \in 1..(n + 1) : m \notin Tokens
  <2> SUFFICES ASSUME 1..(n + 1) \subseteq Tokens PROVE FALSE
    OBVIOUS
  <2> HIDE DEF n
  <2>1. Cardinality(1..(n + 1)) = n + 1
    BY <1>7, FS_Interval
  <2>2. Cardinality(1..(n + 1)) <= Cardinality(Tokens)
    BY <1>6, FS_Subset
  <2> QED
    BY <1>7, <2>1, <2>2 DEF n
<1> HIDE DEF n
<1>9. Fresh \in 1..(n + 1) /\ Fresh \notin Tokens
  BY <1>8 DEF Fresh, n
<1> QED
  BY <1>7, <1>9

-----------------------------------------------------------------------------
(* The report's workers.                                                   *)

Row  == {NoRow} \cup Jobs
Task == {Resting, [at |-> "claim"]} \cup Busy

\* Nothing readable in a worker's hands.
Blank(task) == task.seen # "full" /\ \A g \in GraderSet : task.grades[g] # "full"

\* What no step takes back: a tombstone, a redaction, an empty report row, a
\* report that is ready.
ReportKeeps(s) ==
  /\ sessions[s] = "deleted" => sessions'[s] = "deleted"
  /\ content[s] = "redacted" => content'[s] = "redacted"
  /\ Clean(s) => Clean(s)'
  /\ rows[s].status = "READY" => rows'[s] \in {rows[s], NoRow}

ReportStep == ReportTypeOK' /\ \A s \in Sessions : ReportKeeps(s)

\* A job that is queued once more keeps what it was, and is in no worker's
\* hands unless it was before.
LEMMA EnqueuedKeeps ==
  ASSUME NEW r \in Row
  PROVE  /\ Enqueued(r) \in Jobs
         /\ Untold(r) => Untold(Enqueued(r))
         /\ Enqueued(r) = r \/ Enqueued(r).status = "QUEUED"
         /\ r.status = "READY" => Enqueued(r) = r
<1>1. CASE r = NoRow
  <2>1. Enqueued(r) = Queued
    BY <1>1 DEF Enqueued, NoRow, None
  <2>2. Queued \in Jobs /\ Queued.status = "QUEUED" /\ Untold(Queued)
    <3>1. Ungraded \in Grading /\ \A g \in GraderSet : Ungraded[g] = None
      BY DEF Ungraded, Grading, Payload
    <3>2. Queued \in Jobs
      BY <3>1 DEF Queued, Jobs, Bodies
    <3>3. Queued.status = "QUEUED" /\ Queued.body = NoReport /\ Queued.progress = Ungraded
      BY DEF Queued
    <3> QED
      BY <3>1, <3>2, <3>3 DEF Untold, None
  <2> QED
    BY <1>1, <2>1, <2>2 DEF NoRow, None
<1>2. CASE r # NoRow /\ r.status = "FAILED"
  <2>1. Enqueued(r) = [r EXCEPT !.status = "QUEUED", !.body = NoReport, !.token = 0]
    BY <1>2 DEF Enqueued
  <2>2. r \in Jobs
    BY <1>2 DEF Row
  <2>3. /\ Enqueued(r) \in Jobs /\ Enqueued(r).status = "QUEUED"
        /\ Enqueued(r).body = NoReport /\ Enqueued(r).progress = r.progress
    <3>1. NoReport \in Bodies
      BY DEF Bodies
    <3>2. "QUEUED" \in {"QUEUED", "RUNNING", "READY", "FAILED"} /\ 0 \in Nat
      OBVIOUS
    <3>3. [r EXCEPT !.status = "QUEUED", !.body = NoReport, !.token = 0] \in Jobs
      BY <2>2, <3>1, <3>2 DEF Jobs
    <3>4. /\ Enqueued(r).status = "QUEUED" /\ Enqueued(r).body = NoReport
          /\ Enqueued(r).progress = r.progress
      BY <2>1, <2>2 DEF Jobs
    <3> QED
      BY <2>1, <3>3, <3>4
  <2> QED
    BY <1>2, <2>3 DEF Untold
<1>3. CASE r # NoRow /\ r.status # "FAILED"
  BY <1>3 DEF Enqueued, Row
<1> QED
  BY <1>1, <1>2, <1>3

\* A session whose row and payloads a step leaves alone, and whose tasks it
\* leaves alone or puts at or before their claim, stays as clean as it was.
LEMMA CleanFrame ==
  ASSUME NEW s \in Sessions,
         rows'[s] = rows[s], content'[s] = content[s],
         \A p \in Replicas : tasks'[p][s] = tasks[p][s] \/ ~Working(p, s)'
  PROVE  Clean(s) => Clean(s)'
BY DEF Clean, Holder, HeldBy, Working

\* So does one whose job no worker holds.
LEMMA CleanRow ==
  ASSUME NEW s \in Sessions,
         rows'[s].status # "RUNNING", Untold(rows[s]) => Untold(rows[s])',
         content'[s] = content[s]
  PROVE  Clean(s) => Clean(s)'
BY DEF Clean, Holder, HeldBy

\* A step of the worker of p on s: what it has to show of the row and the task
\* it leaves behind.
LEMMA WorkStep ==
  ASSUME ReportTypeOK, NEW p \in Replicas, NEW s \in Sessions,
         NEW task \in Task, NEW row \in Row,
         tasks' = [tasks EXCEPT ![p][s] = task], rows' = [rows EXCEPT ![s] = row],
         UNCHANGED <<sessions, content>>,
         rows[s].status = "READY" => row \in {rows[s], NoRow},
         Clean(s) =>
           /\ Untold(row)
           /\ task.at \notin {"idle", "claim"} /\ HeldBy(row, task.token) => Blank(task)
           /\ \A q \in Replicas \ {p} :
                Working(q, s) /\ HeldBy(row, tasks[q][s].token) =>
                  HeldBy(rows[s], tasks[q][s].token)
  PROVE  ReportStep
<1>1. /\ tasks'[p][s] = task
      /\ \A q \in Replicas, t \in Sessions :
           q # p \/ t # s => tasks'[q][t] = tasks[q][t]
      /\ tasks' \in [Replicas -> [Sessions -> Task]]
  BY DEF ReportTypeOK, Task
<1>2. /\ rows'[s] = row
      /\ \A t \in Sessions : t # s => rows'[t] = rows[t]
      /\ rows' \in [Sessions -> Row]
  BY DEF ReportTypeOK, Row
<1>3. ReportTypeOK'
  BY <1>1, <1>2 DEF ReportTypeOK, Task, Row
<1>4. ASSUME NEW t \in Sessions, t # s PROVE ReportKeeps(t)
  <2>1. Clean(t) => Clean(t)'
    BY <1>1, <1>2, <1>4, CleanFrame
  <2> QED
    BY <1>2, <1>4, <2>1 DEF ReportKeeps
<1>5. ReportKeeps(s)
  <2>1. ASSUME Clean(s) PROVE Clean(s)'
    <3>1. content'[s] = "redacted" /\ Untold(rows[s])'
      BY <1>2, <2>1 DEF Clean
    <3>2. ASSUME NEW q \in Replicas, Holder(q, s)' PROVE Blank(tasks[q][s])'
      <4>1. CASE q = p
        BY <1>1, <1>2, <2>1, <3>2, <4>1 DEF Holder, Working, Blank, HeldBy
      <4>2. CASE q # p
        <5>1. Holder(q, s)
          BY <1>1, <1>2, <2>1, <3>2, <4>2 DEF Holder, Working, HeldBy
        <5>2. Blank(tasks[q][s])
          BY <2>1, <5>1 DEF Clean, Blank
        <5> QED
          BY <1>1, <4>2, <5>2 DEF Blank
      <4> QED
        BY <4>1, <4>2
    <3> QED
      BY <3>1, <3>2 DEF Clean, Blank
  <2> QED
    BY <1>2, <2>1 DEF ReportKeeps
<1> QED
  BY <1>3, <1>4, <1>5 DEF ReportStep

\* What puts a session to work touches no worker that is under way.
LEMMA BegunTouchesNobody ==
  ASSUME ReportTypeOK, NEW p \in Replicas, NEW ids, tasks' = Begun(p, ids)
  PROVE  /\ tasks' \in [Replicas -> [Sessions -> Task]]
         /\ \A q \in Replicas, t \in Sessions :
              tasks'[q][t] = tasks[q][t] \/ ~Working(q, t)'
<1> DEFINE new == [t \in Sessions |-> IF t \in ids /\ tasks[p][t].at = "idle"
                                      THEN [at |-> "claim"] ELSE tasks[p][t]]
<1>1. tasks \in [Replicas -> [Sessions -> Task]]
  BY DEF ReportTypeOK, Task
<1>2. tasks' = [tasks EXCEPT ![p] = new]
  BY DEF Begun
<1>3. new \in [Sessions -> Task]
  BY <1>1 DEF Task
<1>4. \A t \in Sessions : new[t] = tasks[p][t] \/ new[t] = [at |-> "claim"]
  OBVIOUS
<1>5. tasks'[p] = new /\ \A q \in Replicas : q # p => tasks'[q] = tasks[q]
  BY <1>1, <1>2
<1> HIDE DEF new
<1> QED
  BY <1>1, <1>2, <1>3, <1>4, <1>5 DEF Working

\* A step that leaves every worker under way alone, and gives s a row that
\* nobody holds, or the one it had.
LEMMA RowStep ==
  ASSUME ReportTypeOK, NEW s \in Sessions, NEW row \in Row,
         rows' = [rows EXCEPT ![s] = row], UNCHANGED content,
         sessions' \in [Sessions -> {"absent", "active", "ended", "deleted"}],
         \A t \in Sessions : sessions[t] = "deleted" => sessions'[t] = "deleted",
         tasks' \in [Replicas -> [Sessions -> Task]],
         \A q \in Replicas, t \in Sessions :
           tasks'[q][t] = tasks[q][t] \/ ~Working(q, t)',
         row # rows[s] => row.status # "RUNNING",
         Untold(rows[s]) => Untold(row),
         rows[s].status = "READY" => row \in {rows[s], NoRow}
  PROVE  ReportStep
<1>1. /\ rows'[s] = row
      /\ \A t \in Sessions : t # s => rows'[t] = rows[t]
      /\ rows' \in [Sessions -> Row]
  BY DEF ReportTypeOK, Row
<1>2. ReportTypeOK'
  BY <1>1 DEF ReportTypeOK, Task, Row
<1>3. ASSUME NEW t \in Sessions PROVE ReportKeeps(t)
  <2>1. Clean(t) => Clean(t)'
    <3>1. CASE rows'[t] = rows[t]
      BY <3>1, CleanFrame
    <3>2. CASE rows'[t] # rows[t]
      <4>1. t = s /\ rows'[t].status # "RUNNING" /\ (Untold(rows[t]) => Untold(rows[t])')
        BY <1>1, <3>2
      <4> QED
        BY <4>1, CleanRow
    <3> QED
      BY <3>1, <3>2
  <2> QED
    BY <1>1, <2>1 DEF ReportKeeps
<1> QED
  BY <1>2, <1>3 DEF ReportStep

\* End and EnqueueLater queue the report.
LEMMA EndKeeps ==
  ASSUME ReportTypeOK, NEW p \in Replicas, NEW s \in Sessions, End(p, s)
  PROVE  ReportStep
<1>1. rows[s] \in Row
  BY DEF ReportTypeOK, Row
<1>2. rows' = [rows EXCEPT ![s] = Enqueued(rows[s])] /\ UNCHANGED <<content, tasks>>
  BY DEF End
<1>3. /\ sessions' \in [Sessions -> {"absent", "active", "ended", "deleted"}]
      /\ \A t \in Sessions : sessions[t] = "deleted" => sessions'[t] = "deleted"
  BY DEF End, ReportTypeOK
<1>4. tasks' \in [Replicas -> [Sessions -> Task]]
  BY <1>2 DEF ReportTypeOK, Task
<1>5. PICK row \in Jobs : row = Enqueued(rows[s])
  BY <1>1, EnqueuedKeeps
<1>6. /\ row \in Row /\ row # rows[s] => row.status # "RUNNING"
      /\ Untold(rows[s]) => Untold(row)
      /\ rows[s].status = "READY" => row \in {rows[s], NoRow}
  BY <1>1, <1>5, EnqueuedKeeps DEF Row
<1> QED
  BY <1>2, <1>3, <1>4, <1>5, <1>6, RowStep DEF Row

\* The same when the process does it later, and takes up the work.
LEMMA EnqueueLaterKeeps ==
  ASSUME ReportTypeOK, NEW p \in Replicas, NEW s \in Sessions, EnqueueLater(p, s)
  PROVE  ReportStep
<1>1. rows[s] \in Row
  BY DEF ReportTypeOK, Row
<1>2. /\ sessions' \in [Sessions -> {"absent", "active", "ended", "deleted"}]
      /\ \A t \in Sessions : sessions[t] = "deleted" => sessions'[t] = "deleted"
      /\ UNCHANGED content
  BY DEF EnqueueLater, ReportTypeOK
<1>3. /\ tasks' \in [Replicas -> [Sessions -> Task]]
      /\ \A q \in Replicas, t \in Sessions :
           tasks'[q][t] = tasks[q][t] \/ ~Working(q, t)'
  <2>1. tasks' = Begun(p, {s}) \/ tasks' = tasks
    BY DEF EnqueueLater
  <2>2. CASE tasks' = Begun(p, {s})
    BY <2>2, BegunTouchesNobody
  <2>3. CASE tasks' = tasks
    BY <2>3 DEF ReportTypeOK, Task
  <2> QED
    BY <2>1, <2>2, <2>3
<1>4. PICK row \in Row :
        /\ rows' = [rows EXCEPT ![s] = row]
        /\ row # rows[s] => row.status # "RUNNING"
        /\ Untold(rows[s]) => Untold(row)
        /\ rows[s].status = "READY" => row \in {rows[s], NoRow}
  <2>1. CASE rows' = [rows EXCEPT ![s] = Enqueued(rows[s])]
    <3>1. PICK row \in Jobs : row = Enqueued(rows[s])
      BY <1>1, EnqueuedKeeps
    <3>2. /\ row # rows[s] => row.status # "RUNNING"
          /\ Untold(rows[s]) => Untold(row)
          /\ rows[s].status = "READY" => row \in {rows[s], NoRow}
      BY <1>1, <3>1, EnqueuedKeeps
    <3> QED
      BY <2>1, <3>1, <3>2 DEF Row
  <2>2. CASE rows' = rows
    <3>1. rows' = [rows EXCEPT ![s] = rows[s]]
      BY <2>2 DEF ReportTypeOK
    <3> QED
      BY <1>1, <3>1
  <2> QED
    BY <2>1, <2>2 DEF EnqueueLater
<1> QED
  BY <1>2, <1>3, <1>4, RowStep

\* A report made anew leaves no row behind.
LEMMA RegenerateKeeps ==
  ASSUME ReportTypeOK, NEW p \in Replicas, NEW s \in Sessions, Regenerate(p, s)
  PROVE  ReportStep
<1>1. NoRow \in Row /\ NoRow.status # "RUNNING" /\ Untold(NoRow)
  BY DEF Row, NoRow, None, Untold
<1>2. /\ rows' = [rows EXCEPT ![s] = NoRow]
      /\ UNCHANGED <<sessions, content, tasks>>
  BY DEF Regenerate
<1>3. /\ sessions' \in [Sessions -> {"absent", "active", "ended", "deleted"}]
      /\ \A t \in Sessions : sessions[t] = "deleted" => sessions'[t] = "deleted"
      /\ tasks' \in [Replicas -> [Sessions -> Task]]
      /\ \A q \in Replicas, t \in Sessions :
           tasks'[q][t] = tasks[q][t] \/ ~Working(q, t)'
  BY <1>2 DEF ReportTypeOK, Task
<1> QED
  BY <1>1, <1>2, <1>3, RowStep

\* What touches neither a row nor a worker under way: a session begins, a
\* poll or a recovery pass finds work, a process dies.
LEMMA QuietStep ==
  ASSUME ReportTypeOK, UNCHANGED <<rows, content>>,
         sessions' \in [Sessions -> {"absent", "active", "ended", "deleted"}],
         \A t \in Sessions : sessions[t] = "deleted" => sessions'[t] = "deleted",
         tasks' \in [Replicas -> [Sessions -> Task]],
         \A q \in Replicas, t \in Sessions :
           tasks'[q][t] = tasks[q][t] \/ ~Working(q, t)'
  PROVE  ReportStep
<1>1. ReportTypeOK'
  BY DEF ReportTypeOK, Task
<1>2. ASSUME NEW t \in Sessions PROVE ReportKeeps(t)
  BY CleanFrame DEF ReportKeeps
<1> QED
  BY <1>1, <1>2 DEF ReportStep

\* Each of them.
LEMMA QuietOnes ==
  ASSUME ReportTypeOK,
         \/ \E s \in Sessions : Create(s)
         \/ \E p \in Replicas : Recover(p) \/ Crash(p)
         \/ \E p \in Replicas, s \in Sessions : Poll(p, s)
  PROVE  ReportStep
<1>1. UNCHANGED <<rows, content>>
  BY DEF Create, Recover, Crash, Poll
<1>2. /\ sessions' \in [Sessions -> {"absent", "active", "ended", "deleted"}]
      /\ \A t \in Sessions : sessions[t] = "deleted" => sessions'[t] = "deleted"
  BY DEF Create, Recover, Crash, Poll, ReportTypeOK
<1>3. /\ tasks' \in [Replicas -> [Sessions -> Task]]
      /\ \A q \in Replicas, t \in Sessions :
           tasks'[q][t] = tasks[q][t] \/ ~Working(q, t)'
  <2>1. CASE tasks' = tasks
    BY <2>1 DEF ReportTypeOK, Task
  <2>2. CASE \E p \in Replicas : \E ids \in SUBSET Sessions : tasks' = Begun(p, ids)
    BY <2>2, BegunTouchesNobody
  <2>3. CASE \E p \in Replicas : Forgets(p)
    BY <2>3 DEF Forgets, ReportTypeOK, Task, Working, Resting
  <2>4. ASSUME NEW p \in Replicas, Recover(p)
        PROVE  \E ids \in SUBSET Sessions : tasks' = Begun(p, ids)
    BY <2>4 DEF Recover
  <2>5. ASSUME NEW p \in Replicas, NEW s \in Sessions, Poll(p, s)
        PROVE  \E ids \in SUBSET Sessions : tasks' = Begun(p, ids)
    BY <2>5 DEF Poll
  <2> QED
    BY <2>1, <2>2, <2>3, <2>4, <2>5 DEF Create, Crash
<1> QED
  BY <1>1, <1>2, <1>3, QuietStep

\* A lease runs out: whoever held the job still does.
LEMMA LapseKeeps ==
  ASSUME ReportTypeOK, NEW s \in Sessions, Lapse(s)
  PROVE  ReportStep
<1>1. rows[s] \in Jobs /\ rows[s].status = "RUNNING"
  BY DEF Lapse, ReportTypeOK, NoRow, None
<1>2. PICK row \in Jobs : row = [rows[s] EXCEPT !.lapsed = TRUE]
  BY <1>1 DEF Jobs
<1>3. /\ row.status = rows[s].status /\ row.token = rows[s].token
      /\ row.progress = rows[s].progress /\ row.body = rows[s].body
  BY <1>1, <1>2 DEF Jobs
<1>4. /\ rows'[s] = row /\ \A t \in Sessions : t # s => rows'[t] = rows[t]
      /\ rows' \in [Sessions -> Row]
      /\ UNCHANGED <<sessions, content, tasks>>
  BY <1>2 DEF Lapse, ReportTypeOK, Row
<1>5. ReportTypeOK'
  BY <1>4 DEF ReportTypeOK, Row
<1>6. ASSUME NEW t \in Sessions PROVE ReportKeeps(t)
  <2>1. CASE t = s
    <3>1. row # NoRow
      BY <1>1, <1>3 DEF NoRow, None
    <3>2. Untold(rows[s]) => Untold(row)
      BY <1>1, <1>3, <3>1 DEF Untold, NoRow, None
    <3>3. Clean(s) => Clean(s)'
      BY <1>3, <1>4, <3>2 DEF Clean, Holder, HeldBy, Working
    <3> QED
      BY <1>1, <1>4, <2>1, <3>3 DEF ReportKeeps
  <2>2. CASE t # s
    BY <1>4, <2>2, CleanFrame DEF ReportKeeps
  <2> QED
    BY <2>1, <2>2
<1> QED
  BY <1>5, <1>6 DEF ReportStep

\* A failed job may be tried again: nobody holds it.
LEMMA CoolKeeps ==
  ASSUME ReportTypeOK, NEW s \in Sessions, Cool(s)
  PROVE  ReportStep
<1>1. rows[s] \in Jobs /\ rows[s].status = "FAILED"
  BY DEF Cool, ReportTypeOK, NoRow, None
<1>2. PICK row \in Jobs : row = [rows[s] EXCEPT !.cooled = TRUE]
  BY <1>1 DEF Jobs
<1>3. /\ row.status = "FAILED" /\ row.progress = rows[s].progress /\ row.body = rows[s].body
  BY <1>1, <1>2 DEF Jobs
<1>4. Untold(rows[s]) => Untold(row)
  BY <1>1, <1>3 DEF Untold, NoRow, None
<1>5. /\ rows' = [rows EXCEPT ![s] = row]
      /\ UNCHANGED <<sessions, content, tasks>>
  BY <1>2 DEF Cool, ReportTypeOK
<1>6. /\ sessions' \in [Sessions -> {"absent", "active", "ended", "deleted"}]
      /\ \A t \in Sessions : sessions[t] = "deleted" => sessions'[t] = "deleted"
      /\ tasks' \in [Replicas -> [Sessions -> Task]]
      /\ \A q \in Replicas, t \in Sessions :
           tasks'[q][t] = tasks[q][t] \/ ~Working(q, t)'
  BY <1>5 DEF ReportTypeOK, Task
<1> QED
  BY <1>1, <1>2, <1>3, <1>4, <1>5, <1>6, RowStep DEF Row

\* The rows a worker does not touch, as WorkStep wants them.
LEMMA RowsAsTheyWere ==
  ASSUME ReportTypeOK, NEW s \in Sessions, UNCHANGED rows
  PROVE  rows[s] \in Row /\ rows' = [rows EXCEPT ![s] = rows[s]]
BY DEF ReportTypeOK, Row

\* A step of a worker that leaves the row alone: readable things come into its
\* hands only from readable events.
LEMMA HandsStep ==
  ASSUME ReportTypeOK, NEW p \in Replicas, NEW s \in Sessions, NEW task \in Task,
         tasks' = [tasks EXCEPT ![p][s] = task],
         UNCHANGED <<sessions, content, rows>>,
         \/ task = Resting
         \/ /\ Working(p, s) /\ task.token = tasks[p][s].token
            /\ content[s] = "redacted" /\ Blank(tasks[p][s]) => Blank(task)
  PROVE  ReportStep
<1>1. rows[s] \in Row /\ rows' = [rows EXCEPT ![s] = rows[s]]
  BY RowsAsTheyWere
<1>2. ASSUME Clean(s), task.at \notin {"idle", "claim"}, HeldBy(rows[s], task.token)
      PROVE  Blank(task)
  <2>1. task # Resting
    BY <1>2 DEF Resting
  <2>2. Holder(p, s) /\ content[s] = "redacted"
    BY <1>2, <2>1 DEF Holder, Clean
  <2> QED
    BY <1>2, <2>1, <2>2 DEF Clean, Blank
<1>3. Clean(s) =>
        /\ Untold(rows[s])
        /\ task.at \notin {"idle", "claim"} /\ HeldBy(rows[s], task.token) => Blank(task)
        /\ \A q \in Replicas \ {p} :
             Working(q, s) /\ HeldBy(rows[s], tasks[q][s].token) =>
               HeldBy(rows[s], tasks[q][s].token)
  BY <1>2 DEF Clean
<1> QED
  BY <1>1, <1>3, WorkStep

\* A task that goes on to its next stage, nothing else about it changed.
LEMMA GoingOn ==
  ASSUME NEW t \in Busy, NEW at \in {"read", "pin", "grade", "save", "complete", "fail"}
  PROVE  /\ [t EXCEPT !.at = at] \in Task
         /\ [t EXCEPT !.at = at].token = t.token
         /\ Blank(t) => Blank([t EXCEPT !.at = at])
<1>1. [t EXCEPT !.at = at] \in Busy
  BY DEF Busy
<1>2. /\ [t EXCEPT !.at = at].token = t.token /\ [t EXCEPT !.at = at].seen = t.seen
      /\ [t EXCEPT !.at = at].grades = t.grades
  BY DEF Busy
<1> QED
  BY <1>1, <1>2 DEF Task, Blank

\* Whoever is past its claim is busy.
LEMMA PastClaim ==
  ASSUME ReportTypeOK, NEW p \in Replicas, NEW s \in Sessions,
         tasks[p][s].at \notin {"idle", "claim"}
  PROVE  tasks[p][s] \in Busy /\ Working(p, s)
BY DEF ReportTypeOK, Working, Resting

\* The worker gives up with an error.
LEMMA FailingKeeps ==
  ASSUME ReportTypeOK, NEW p \in Replicas, NEW s \in Sessions,
         tasks[p][s].at \notin {"idle", "claim"}, Going(p, s, "fail"),
         UNCHANGED <<sessions, content, rows>>
  PROVE  ReportStep
<1>1. tasks[p][s] \in Busy /\ Working(p, s)
  BY PastClaim
<1>2. PICK task \in Task : task = [tasks[p][s] EXCEPT !.at = "fail"]
  BY <1>1, GoingOn
<1>3. task.token = tasks[p][s].token /\ (Blank(tasks[p][s]) => Blank(task))
  BY <1>1, <1>2, GoingOn
<1>4. tasks' = [tasks EXCEPT ![p][s] = task]
  BY <1>2 DEF Going, Turn
<1> QED
  BY <1>1, <1>3, <1>4, HandsStep

\* The worker takes the job, under a token nobody has; or it does not get it.
LEMMA ClaimKeeps ==
  ASSUME ReportTypeOK, NEW p \in Replicas, NEW s \in Sessions, Claim(p, s)
  PROVE  ReportStep
<1>1. CASE rows' = rows /\ Turn(p, s, Resting)
  <2>1. tasks' = [tasks EXCEPT ![p][s] = Resting] /\ Resting \in Task
    BY <1>1 DEF Turn, Task
  <2> QED
    BY <1>1, <2>1, HandsStep DEF Claim
<1>2. CASE /\ Claimable(rows[s])
           /\ rows' = [rows EXCEPT ![s].status = "RUNNING", ![s].attempts = @ + 1,
                                   ![s].token = Fresh, ![s].lapsed = FALSE]
           /\ Turn(p, s, [at |-> "read", token |-> Fresh, seen |-> None,
                          pinned |-> FALSE, grades |-> rows[s].progress,
                          attempt |-> rows'[s].attempts])
  <2>1. PICK n \in Nat : n = Fresh /\ n \notin Tokens
    BY FreshIsFree
  <2>2. rows[s] \in Jobs /\ rows[s].status # "READY"
    BY <1>2 DEF Claimable, ReportTypeOK, NoRow, None
  <2>3. PICK row : row = [rows[s] EXCEPT !.status = "RUNNING", !.attempts = @ + 1,
                                         !.token = n, !.lapsed = FALSE]
    OBVIOUS
  <2>4. row \in Jobs
    <3>1. "RUNNING" \in {"QUEUED", "RUNNING", "READY", "FAILED"} /\ FALSE \in BOOLEAN
      OBVIOUS
    <3>2. rows[s].attempts \in Nat
      BY <2>2 DEF Jobs
    <3>3. PICK m \in Nat : m = rows[s].attempts + 1
      BY <3>2
    <3>4. row = [rows[s] EXCEPT !.status = "RUNNING", !.attempts = m,
                                !.token = n, !.lapsed = FALSE]
      BY <2>3, <3>3
    <3> QED
      BY <2>1, <2>2, <3>1, <3>3, <3>4 DEF Jobs
  <2>5. /\ row.token = n /\ row.progress = rows[s].progress /\ row.body = rows[s].body
        /\ row.attempts \in Nat
    BY <2>2, <2>3, <2>4 DEF Jobs
  <2>6. rows' = [rows EXCEPT ![s] = row] /\ rows'[s] = row
    BY <1>2, <2>1, <2>3 DEF ReportTypeOK
  <2>7. PICK task : task = [at |-> "read", token |-> n, seen |-> None, pinned |-> FALSE,
                            grades |-> rows[s].progress, attempt |-> row.attempts]
    OBVIOUS
  <2>8. task \in Task
    BY <2>1, <2>2, <2>5, <2>7 DEF Task, Busy, Payload, Jobs
  <2>9. tasks' = [tasks EXCEPT ![p][s] = task] /\ UNCHANGED <<sessions, content>>
    BY <1>2, <2>1, <2>6, <2>7 DEF Turn, Claim
  <2>10. ASSUME Clean(s)
         PROVE  /\ Untold(row) /\ Blank(task)
                /\ \A q \in Replicas \ {p} :
                     Working(q, s) => ~HeldBy(row, tasks[q][s].token)
    <3>1. row # NoRow /\ rows[s] # NoRow
      BY <2>2, <2>4 DEF Jobs, NoRow, None
    <3>2. Untold(row)
      BY <2>5, <2>10, <3>1 DEF Clean, Untold
    <3>3. Blank(task)
      BY <2>7, <2>10, <3>1 DEF Clean, Untold, Blank, None
    <3>4. ASSUME NEW q \in Replicas, Working(q, s) PROVE tasks[q][s].token # n
      <4>1. PICK x : x = <<q, s>>
        OBVIOUS
      <4>2. x \in Workers /\ tasks[x[1]][x[2]].token = tasks[q][s].token
        BY <3>4, <4>1 DEF Workers
      <4> HIDE DEF Workers
      <4> QED
        BY <2>1, <4>2 DEF Tokens
    <3> QED
      BY <2>5, <3>2, <3>3, <3>4 DEF HeldBy
  <2>11. row \in Row
    BY <2>4 DEF Row
  <2>12. Clean(s) =>
           /\ Untold(row)
           /\ task.at \notin {"idle", "claim"} /\ HeldBy(row, task.token) => Blank(task)
           /\ \A q \in Replicas \ {p} :
                Working(q, s) /\ HeldBy(row, tasks[q][s].token) =>
                  HeldBy(rows[s], tasks[q][s].token)
    BY <2>10
  <2> QED
    BY <2>2, <2>6, <2>8, <2>9, <2>11, <2>12, WorkStep
<1> QED
  BY <1>1, <1>2 DEF Claim

\* The worker reads the events as they are now.
LEMMA ReadKeeps ==
  ASSUME ReportTypeOK, NEW p \in Replicas, NEW s \in Sessions, Read(p, s)
  PROVE  ReportStep
<1>1. UNCHANGED <<sessions, content, rows>> /\ tasks[p][s].at = "read"
  BY DEF Read, On
<1>2. tasks[p][s] \in Busy /\ Working(p, s)
  BY <1>1, PastClaim
<1>3. CASE Turn(p, s, [tasks[p][s] EXCEPT !.at = "pin", !.seen = content[s]])
  <2>1. PICK task : task = [tasks[p][s] EXCEPT !.at = "pin", !.seen = content[s]]
    OBVIOUS
  <2>2. content[s] \in Payload /\ "pin" \in {"read", "pin", "grade", "save", "complete", "fail"}
    BY DEF ReportTypeOK, Payload
  <2>3. task \in Task
    BY <1>2, <2>1, <2>2 DEF Task, Busy
  <2>4. /\ task.token = tasks[p][s].token
        /\ content[s] = "redacted" /\ Blank(tasks[p][s]) => Blank(task)
    BY <1>2, <2>1 DEF Busy, Blank
  <2>5. tasks' = [tasks EXCEPT ![p][s] = task]
    BY <1>3, <2>1 DEF Turn
  <2> QED
    BY <1>1, <1>2, <2>3, <2>4, <2>5, HandsStep
<1>4. CASE Going(p, s, "fail")
  BY <1>1, <1>4, FailingKeeps
<1> QED
  BY <1>3, <1>4 DEF Read

\* The scenario is found or not.
LEMMA PinKeeps ==
  ASSUME ReportTypeOK, NEW p \in Replicas, NEW s \in Sessions, Pin(p, s)
  PROVE  ReportStep
<1>1. UNCHANGED <<sessions, content, rows>> /\ tasks[p][s].at = "pin"
  BY DEF Pin, On
<1>2. tasks[p][s] \in Busy /\ Working(p, s)
  BY <1>1, PastClaim
<1>3. CASE Turn(p, s, [tasks[p][s] EXCEPT !.pinned = sessions[s] # "deleted",
                                          !.at = Onward(tasks[p][s].grades)])
  <2>1. PICK at \in {"read", "pin", "grade", "save", "complete", "fail"} :
          at = Onward(tasks[p][s].grades)
    BY DEF Onward
  <2>2. PICK task : task = [tasks[p][s] EXCEPT !.pinned = sessions[s] # "deleted", !.at = at]
    OBVIOUS
  <2>3. (sessions[s] # "deleted") \in BOOLEAN
    OBVIOUS
  <2>4. task \in Task
    BY <1>2, <2>1, <2>2, <2>3 DEF Task, Busy
  <2>5. /\ task.token = tasks[p][s].token
        /\ Blank(tasks[p][s]) => Blank(task)
    BY <1>2, <2>2 DEF Busy, Blank
  <2>6. tasks' = [tasks EXCEPT ![p][s] = task]
    BY <1>3, <2>1, <2>2 DEF Turn
  <2> QED
    BY <1>1, <1>2, <2>4, <2>5, <2>6, HandsStep
<1>4. CASE Going(p, s, "fail")
  BY <1>1, <1>4, FailingKeeps
<1> QED
  BY <1>3, <1>4 DEF Pin

\* A grade is as readable as the events it was made of.
LEMMA GradeKeeps ==
  ASSUME ReportTypeOK, NEW p \in Replicas, NEW s \in Sessions, Grade(p, s)
  PROVE  ReportStep
<1>1. UNCHANGED <<sessions, content, rows>> /\ tasks[p][s].at = "grade"
  BY DEF Grade, On
<1>2. tasks[p][s] \in Busy /\ Working(p, s)
  BY <1>1, PastClaim
<1>3. CASE Turn(p, s, [tasks[p][s] EXCEPT !.grades[NextGrader(tasks[p][s].grades)]
                         = tasks[p][s].seen, !.at = "save"])
  <2>1. PICK g : g = NextGrader(tasks[p][s].grades)
    OBVIOUS
  <2>2. PICK grades : grades = [tasks[p][s].grades EXCEPT ![g] = tasks[p][s].seen]
    OBVIOUS
  <2>3. tasks[p][s].grades \in Grading /\ tasks[p][s].seen \in Payload
    BY <1>2 DEF Busy
  <2>4. /\ grades \in Grading
        /\ \A h \in GraderSet : grades[h] \in {tasks[p][s].grades[h], tasks[p][s].seen}
    BY <2>2, <2>3 DEF Grading
  <2>5. PICK task : task = [tasks[p][s] EXCEPT !.grades = grades, !.at = "save"]
    OBVIOUS
  <2>6. task \in Task
    BY <1>2, <2>4, <2>5 DEF Task, Busy
  <2>7. /\ task.token = tasks[p][s].token /\ task.seen = tasks[p][s].seen
        /\ task.grades = grades
    BY <1>2, <2>5 DEF Busy
  <2>8. Blank(tasks[p][s]) => Blank(task)
    BY <2>4, <2>7 DEF Blank
  <2>9. tasks' = [tasks EXCEPT ![p][s] = task]
    BY <1>2, <1>3, <2>1, <2>2, <2>5 DEF Turn, Busy
  <2> QED
    BY <1>1, <1>2, <2>6, <2>7, <2>8, <2>9, HandsStep
<1>4. CASE Going(p, s, "fail")
  BY <1>1, <1>4, FailingKeeps
<1> QED
  BY <1>3, <1>4 DEF Grade

\* The grades are saved by the one who holds the job.
LEMMA SaveKeeps ==
  ASSUME ReportTypeOK, NEW p \in Replicas, NEW s \in Sessions, Save(p, s)
  PROVE  ReportStep
<1>1. UNCHANGED <<sessions, content>> /\ tasks[p][s].at = "save"
  BY DEF Save, On
<1>2. tasks[p][s] \in Busy /\ Working(p, s)
  BY <1>1, PastClaim
<1>3. CASE /\ HeldBy(rows[s], tasks[p][s].token)
           /\ rows' = [rows EXCEPT ![s].progress = tasks[p][s].grades]
           /\ Going(p, s, Onward(tasks[p][s].grades))
  <2>1. rows[s] \in Jobs
    BY <1>3 DEF HeldBy, ReportTypeOK, NoRow, None
  <2>2. tasks[p][s].grades \in Grading
    BY <1>2 DEF Busy
  <2>3. PICK row : row = [rows[s] EXCEPT !.progress = tasks[p][s].grades]
    OBVIOUS
  <2>4. row \in Jobs
    BY <2>1, <2>2, <2>3 DEF Jobs
  <2>5. /\ row.token = rows[s].token /\ row.status = rows[s].status /\ row.body = rows[s].body
        /\ row.progress = tasks[p][s].grades
    BY <2>1, <2>3 DEF Jobs
  <2>6. rows' = [rows EXCEPT ![s] = row]
    BY <1>3, <2>3 DEF ReportTypeOK
  <2>7. PICK at \in {"read", "pin", "grade", "save", "complete", "fail"} :
          at = Onward(tasks[p][s].grades)
    BY DEF Onward
  <2>8. PICK task \in Task : task = [tasks[p][s] EXCEPT !.at = at]
    BY <1>2, GoingOn
  <2>9. task.token = tasks[p][s].token /\ (Blank(tasks[p][s]) => Blank(task))
    BY <1>2, <2>8, GoingOn
  <2>10. tasks' = [tasks EXCEPT ![p][s] = task]
    BY <1>3, <2>7, <2>8 DEF Going, Turn
  <2>11. ASSUME Clean(s) PROVE Untold(row) /\ Blank(task)
    <3>1. Blank(tasks[p][s])
      BY <1>2, <1>3, <2>11 DEF Clean, Holder, Blank
    <3>2. row # NoRow /\ rows[s] # NoRow
      BY <2>1, <2>4 DEF Jobs, NoRow, None
    <3>3. Untold(row)
      BY <2>5, <2>11, <3>1, <3>2 DEF Clean, Untold, Blank
    <3> QED
      BY <2>9, <3>1, <3>3
  <2>12. Clean(s) =>
           /\ Untold(row)
           /\ task.at \notin {"idle", "claim"} /\ HeldBy(row, task.token) => Blank(task)
           /\ \A q \in Replicas \ {p} :
                Working(q, s) /\ HeldBy(row, tasks[q][s].token) =>
                  HeldBy(rows[s], tasks[q][s].token)
    BY <2>5, <2>11 DEF HeldBy
  <2>13. row \in Row /\ rows[s].status # "READY"
    BY <1>3, <2>4 DEF Row, HeldBy
  <2> QED
    BY <1>1, <2>6, <2>8, <2>10, <2>12, <2>13, WorkStep
<1>4. CASE UNCHANGED rows /\ Going(p, s, "fail")
  BY <1>1, <1>4, FailingKeeps
<1> QED
  BY <1>3, <1>4 DEF Save

\* Whoever holds the job writes its outcome, a ready report or a failure; for
\* anybody else nothing happens.  The worker goes on, or is done.
LEMMA FinishKeeps ==
  ASSUME ReportTypeOK, NEW p \in Replicas, NEW s \in Sessions,
         Working(p, s), tasks[p][s] \in Busy, UNCHANGED <<sessions, content>>,
         NEW status \in {"READY", "FAILED"}, NEW body \in {NoReport, Report(tasks[p][s])},
         Finish(s, tasks[p][s].token, status, body) \/ UNCHANGED rows,
         NEW task \in Task, tasks' = [tasks EXCEPT ![p][s] = task],
         \/ task = Resting
         \/ /\ task.token = tasks[p][s].token
            /\ Blank(tasks[p][s]) => Blank(task)
  PROVE  ReportStep
<1>1. CASE UNCHANGED rows
  BY <1>1, HandsStep
<1>2. CASE ~HeldBy(rows[s], tasks[p][s].token) /\ Finish(s, tasks[p][s].token, status, body)
  BY <1>2, HandsStep DEF Finish
<1>3. CASE HeldBy(rows[s], tasks[p][s].token) /\ Finish(s, tasks[p][s].token, status, body)
  <2>1. rows[s] \in Jobs
    BY <1>3 DEF HeldBy, ReportTypeOK, NoRow, None
  <2>2. body \in Bodies
    <3>1. Report(tasks[p][s]) \in [attempt : Nat, facts : Payload, grades : Grading]
      BY DEF Report, Busy
    <3> QED
      BY <3>1 DEF Bodies
  <2>3. PICK row : row = [rows[s] EXCEPT !.status = status, !.body = body, !.token = 0,
                                         !.cooled = FALSE]
    OBVIOUS
  <2>4. row \in Jobs
    <3>1. status \in {"QUEUED", "RUNNING", "READY", "FAILED"} /\ 0 \in Nat /\ FALSE \in BOOLEAN
      OBVIOUS
    <3> QED
      BY <2>1, <2>2, <2>3, <3>1 DEF Jobs
  <2>5. row.status = status /\ row.body = body /\ row.progress = rows[s].progress
    BY <2>1, <2>3 DEF Jobs
  <2>6. rows' = [rows EXCEPT ![s] = row]
    BY <1>3, <2>3 DEF Finish, ReportTypeOK
  <2>7. ASSUME Clean(s) PROVE Untold(row)
    <3>1. Blank(tasks[p][s])
      BY <1>3, <2>7 DEF Clean, Holder, Blank
    <3>2. row # NoRow /\ rows[s] # NoRow
      BY <2>1, <2>4 DEF Jobs, NoRow, None
    <3>3. body # NoReport => body.facts # "full" /\ \A g \in GraderSet : body.grades[g] # "full"
      BY <3>1 DEF Report, Blank
    <3> QED
      BY <2>5, <2>7, <3>2, <3>3 DEF Clean, Untold
  <2>8. Clean(s) =>
          /\ Untold(row)
          /\ task.at \notin {"idle", "claim"} /\ HeldBy(row, task.token) => Blank(task)
          /\ \A q \in Replicas \ {p} :
               Working(q, s) /\ HeldBy(row, tasks[q][s].token) =>
                 HeldBy(rows[s], tasks[q][s].token)
    BY <2>5, <2>7 DEF HeldBy
  <2>9. row \in Row /\ rows[s].status # "READY"
    BY <1>3, <2>4 DEF Row, HeldBy
  <2> QED
    BY <2>6, <2>8, <2>9, WorkStep
<1> QED
  BY <1>1, <1>2, <1>3

\* A worker completes the report, or tries to.
LEMMA CompleteKeeps ==
  ASSUME ReportTypeOK, NEW p \in Replicas, NEW s \in Sessions, Complete(p, s)
  PROVE  ReportStep
<1>1. UNCHANGED <<sessions, content>> /\ tasks[p][s].at = "complete"
  BY DEF Complete, On
<1>2. tasks[p][s] \in Busy /\ Working(p, s)
  BY <1>1, PastClaim
<1>3. Finish(s, tasks[p][s].token, "READY", Report(tasks[p][s])) \/ UNCHANGED rows
  BY DEF Complete
<1>4. CASE Turn(p, s, Resting)
  <2>1. tasks' = [tasks EXCEPT ![p][s] = Resting] /\ Resting \in Task
    BY <1>4 DEF Turn, Task
  <2> QED
    BY <1>1, <1>2, <1>3, <2>1, FinishKeeps
<1>5. CASE Going(p, s, "fail")
  <2>1. PICK task \in Task : task = [tasks[p][s] EXCEPT !.at = "fail"]
    BY <1>2, GoingOn
  <2>2. task.token = tasks[p][s].token /\ (Blank(tasks[p][s]) => Blank(task))
    BY <1>2, <2>1, GoingOn
  <2>3. tasks' = [tasks EXCEPT ![p][s] = task]
    BY <1>5, <2>1 DEF Going, Turn
  <2> QED
    BY <1>1, <1>2, <1>3, <2>2, <2>3, FinishKeeps
<1> QED
  BY <1>4, <1>5 DEF Complete

\* A worker reports its failure, or tries to.
LEMMA FailKeeps ==
  ASSUME ReportTypeOK, NEW p \in Replicas, NEW s \in Sessions, Fail(p, s)
  PROVE  ReportStep
<1>1. UNCHANGED <<sessions, content>> /\ tasks[p][s].at = "fail"
  BY DEF Fail, On
<1>2. tasks[p][s] \in Busy /\ Working(p, s)
  BY <1>1, PastClaim
<1>3. Finish(s, tasks[p][s].token, "FAILED", NoReport) \/ UNCHANGED rows
  BY DEF Fail
<1>4. tasks' = [tasks EXCEPT ![p][s] = Resting] /\ Resting \in Task
  BY DEF Fail, Turn, Task
<1> QED
  BY <1>1, <1>2, <1>3, <1>4, FinishKeeps

\* The report's workers make nothing readable of what is clean, and leave a
\* report that is ready as it is or remove it.
LEMMA WorkersKeep ==
  ASSUME ReportTypeOK, ReportNext \/ \E p \in Replicas : Crash(p)
  PROVE  ReportStep
<1>1. ASSUME NEW p \in Replicas, NEW s \in Sessions, Step(p, s) PROVE ReportStep
  BY <1>1, EnqueueLaterKeeps, ClaimKeeps, ReadKeeps, PinKeeps, GradeKeeps, SaveKeeps,
     CompleteKeeps, FailKeeps DEF Step
<1>2. ASSUME NEW p \in Replicas, NEW s \in Sessions, End(p, s) \/ Regenerate(p, s)
      PROVE  ReportStep
  BY <1>2, EndKeeps, RegenerateKeeps
<1>3. ASSUME NEW s \in Sessions, Lapse(s) \/ Cool(s) PROVE ReportStep
  BY <1>3, LapseKeeps, CoolKeeps
<1> QED
  BY <1>1, <1>2, <1>3, QuietOnes DEF ReportNext

-----------------------------------------------------------------------------
(* The deletions.                                                          *)

\* A request on record stays so, about the sessions it is about.
RequestsKept ==
  \A r \in Requests : Known(r) => Known(r)' /\ requests'[r].ids = requests[r].ids

\* What no step takes back: besides what the workers keep, that a hidden
\* session has no report filed from before, and that facts of a resume are gone.
Stable ==
  /\ \A s \in Sessions :
       /\ ReportKeeps(s)
       /\ sessions[s] = "deleted" /\ incidents[s] # "filed" => incidents'[s] # "filed"
  /\ resumes' \subseteq resumes
  /\ RequestsKept

\* What is on record has its sessions.
LEMMA KnownIsClaim ==
  ASSUME ErasureTypeOK, NEW r \in Requests, Known(r)
  PROVE  requests[r] \in Claims /\ requests[r].ids \subseteq Sessions
BY DEF ErasureTypeOK, Known, Unasked, Claims

\* What has vanished stays so.
LEMMA VanishedStays ==
  ASSUME Stable, NEW s \in Sessions, Vanished(s)
  PROVE  Vanished(s)'
<1>1. Clean(s)'
  BY DEF Stable, RequestsKept, ReportKeeps, Vanished
<1> QED
  BY <1>1 DEF Stable, RequestsKept, ReportKeeps, Vanished

\* A deletion is no less far when somebody else takes a step.
LEMMA OthersReach ==
  ASSUME ErasureTypeOK, Stable, NEW w \in Doings, OnRecord(w)
  PROVE  OnRecord(w)'
<1>1. w.at # "idle" => Known(w.request)'
  <2>1. w.at # "idle" => w.request \in Requests
    BY DEF Doings, Free, Work
  <2> QED
    BY <2>1 DEF OnRecord, Stable, RequestsKept
<1>2. ASSUME w.at \in Stages PROVE (\A r \in w.rest : Known(r)') /\ Reached(w)'
  <2>1. w \in Work
    BY <1>2 DEF Doings, Free, Stages
  <2>2. w.request \in Requests /\ w.rest \subseteq Requests /\ Known(w.request)
    BY <1>2, <2>1 DEF Work, OnRecord, Stages
  <2>3. \A r \in w.rest : Known(r)'
    BY <1>2, <2>2 DEF OnRecord, Stable, RequestsKept
  <2>4. PICK ids \in SUBSET Sessions :
          ids = requests[w.request].ids /\ ids = requests'[w.request].ids
    BY <2>2, KnownIsClaim DEF Stable, RequestsKept
  <2>5. \A s \in Sessions : Vanished(s) => Vanished(s)'
    BY VanishedStays
  <2>6. \A s \in Sessions :
          /\ sessions[s] = "deleted" => sessions'[s] = "deleted"
          /\ content[s] = "redacted" => content'[s] = "redacted"
          /\ Clean(s) => Clean(s)'
          /\ sessions[s] = "deleted" /\ incidents[s] # "filed" => incidents'[s] # "filed"
    BY DEF Stable, RequestsKept, ReportKeeps
  <2>7. Reached(w)
    BY <1>2 DEF OnRecord
  <2>8. w.found \subseteq Sessions
    BY <2>1 DEF Work
  <2> QED
    BY <2>3, <2>4, <2>5, <2>6, <2>7, <2>8 DEF Reached
<1> QED
  BY <1>1, <1>2 DEF OnRecord

\* The report side and the stores of a step, typed as the invariant has them.
StoresTyped ==
  /\ ReportTypeOK
  /\ requests \in [Requests -> {Unasked} \cup Claims]
  /\ incidents \in [Sessions -> {"none", "filed", "late"}]

\* A request is completed only over sessions that have vanished.
DoneFairly ==
  \A r \in Requests : requests'[r].at = "done" =>
    requests[r].at = "done" \/ (Known(r) /\ \A s \in requests[r].ids : Vanished(s))

\* What a completed request covers stays vanished.
LEMMA RequestsStay ==
  ASSUME ErasureInv, Stable, DoneFairly
  PROVE  RequestsInv'
<1>1. ASSUME NEW r \in Requests, requests'[r].at = "done", NEW s \in requests'[r].ids
      PROVE  Vanished(s)'
  <2>1. Known(r)
    BY <1>1 DEF DoneFairly, Known
  <2>2. requests'[r].ids = requests[r].ids /\ s \in Sessions
    BY <1>1, <2>1, KnownIsClaim DEF Stable, RequestsKept, ErasureInv
  <2>3. Vanished(s)
    BY <1>1, <2>2 DEF DoneFairly, ErasureInv, RequestsInv
  <2> QED
    BY <2>2, <2>3, VanishedStays
<1> QED
  BY <1>1 DEF RequestsInv

\* A step of a deletion: what it has to show.
LEMMA DeleterStep ==
  ASSUME ErasureInv, NEW d \in Deleters, NEW w \in Doings,
         deleters' = [deleters EXCEPT ![d] = w], StoresTyped', Stable, DoneFairly,
         OnRecord(w)'
  PROVE  ErasureInv'
<1>1. /\ deleters'[d] = w /\ \A e \in Deleters : e # d => deleters'[e] = deleters[e]
      /\ deleters' \in [Deleters -> Doings]
  BY DEF ErasureInv, ErasureTypeOK
<1>2. ErasureTypeOK' /\ ReportTypeOK'
  BY <1>1 DEF ErasureInv, ErasureTypeOK, StoresTyped, Stable, RequestsKept
<1>3. DeletersInv'
  <2>1. ASSUME NEW e \in Deleters PROVE OnRecord(deleters[e])'
    <3>1. CASE e = d
      BY <1>1, <3>1 DEF OnRecord, Reached
    <3>2. CASE e # d
      <4>1. PICK v \in Doings : v = deleters[e] /\ v = deleters'[e]
        BY <1>1, <3>2 DEF ErasureInv, ErasureTypeOK
      <4>2. OnRecord(v)
        BY <4>1 DEF ErasureInv, DeletersInv
      <4>3. OnRecord(v)'
        BY <4>2, OthersReach DEF ErasureInv
      <4> QED
        BY <4>1, <4>3 DEF OnRecord, Reached
    <3> QED
      BY <3>1, <3>2
  <2> QED
    BY <2>1 DEF DeletersInv
<1>4. RequestsInv'
  BY RequestsStay
<1> QED
  BY <1>2, <1>3, <1>4 DEF ErasureInv

\* A step of anybody else.
LEMMA OtherStep ==
  ASSUME ErasureInv, UNCHANGED deleters, StoresTyped', Stable, DoneFairly
  PROVE  ErasureInv'
<1>1. ErasureTypeOK' /\ ReportTypeOK'
  BY DEF ErasureInv, ErasureTypeOK, StoresTyped, Stable, RequestsKept
<1>2. DeletersInv'
  <2>1. ASSUME NEW e \in Deleters PROVE OnRecord(deleters[e])'
    <3>1. PICK v \in Doings : v = deleters[e] /\ v = deleters'[e]
      BY DEF ErasureInv, ErasureTypeOK
    <3>2. OnRecord(v)
      BY <3>1 DEF ErasureInv, DeletersInv
    <3>3. OnRecord(v)'
      BY <3>2, OthersReach DEF ErasureInv
    <3> QED
      BY <3>1, <3>3 DEF OnRecord, Reached
  <2> QED
    BY <2>1 DEF DeletersInv
<1>3. RequestsInv'
  BY RequestsStay
<1> QED
  BY <1>1, <1>2, <1>3 DEF ErasureInv

\* What a step leaves alone of the report side is as it was.
LEMMA ReportAside ==
  ASSUME ReportTypeOK, UNCHANGED <<sessions, content, rows, tasks>>
  PROVE  ReportStep
BY QuietStep DEF ReportTypeOK, Task

\* A step that leaves the stores alone, or empties them.
LEMMA StoresStep ==
  ASSUME ErasureInv, ReportStep, RequestsKept, resumes' \subseteq resumes,
         requests' \in [Requests -> {Unasked} \cup Claims],
         incidents' \in [Sessions -> {"none", "filed", "late"}],
         \A s \in Sessions :
           sessions[s] = "deleted" /\ incidents[s] # "filed" => incidents'[s] # "filed"
  PROVE  StoresTyped' /\ Stable
BY DEF StoresTyped, Stable, ReportStep, ErasureInv

\* A step that leaves the requests alone, but for a lease.
LEMMA RequestsAside ==
  ASSUME ErasureInv, UNCHANGED requests
  PROVE  /\ requests' \in [Requests -> {Unasked} \cup Claims]
         /\ RequestsKept /\ DoneFairly
BY DEF RequestsKept, DoneFairly, ErasureInv, ErasureTypeOK, Known

\* A request that changes otherwise than by being completed.
LEMMA RequestChanges ==
  ASSUME ErasureInv, NEW claimed \in SUBSET Requests,
         \A r \in claimed : requests[r].at = "pending",
         NEW f \in [claimed -> Claims],
         \A r \in claimed : f[r].at = "pending" /\ f[r].ids = requests[r].ids,
         requests' = [r \in Requests |-> IF r \in claimed THEN f[r] ELSE requests[r]]
  PROVE  /\ requests' \in [Requests -> {Unasked} \cup Claims]
         /\ RequestsKept /\ DoneFairly
<1>1. requests' \in [Requests -> {Unasked} \cup Claims]
  BY DEF ErasureInv, ErasureTypeOK
<1> QED
  BY <1>1 DEF RequestsKept, DoneFairly, Known

\* Claimed, requests are about what they were about.
LEMMA TakenKeeps ==
  ASSUME ErasureInv, NEW d \in Deleters, NEW claimed \in SUBSET Requests,
         \A r \in claimed : requests[r].at = "pending", requests' = Taken(d, claimed)
  PROVE  /\ requests' \in [Requests -> {Unasked} \cup Claims]
         /\ RequestsKept /\ DoneFairly
<1> DEFINE f == [r \in claimed |-> [requests[r] EXCEPT !.held = d, !.lapsed = FALSE]]
<1>1. ASSUME NEW r \in claimed
      PROVE  f[r] \in Claims /\ f[r].at = "pending" /\ f[r].ids = requests[r].ids
  <2>1. requests[r] \in Claims
    BY <1>1, KnownIsClaim DEF ErasureInv, Known
  <2>2. d \in Deleters \cup {None} /\ FALSE \in BOOLEAN
    OBVIOUS
  <2> QED
    BY <1>1, <2>1, <2>2 DEF Claims
<1>2. requests' = [r \in Requests |-> IF r \in claimed THEN f[r] ELSE requests[r]]
  BY DEF Taken
<1>3. f \in [claimed -> Claims]
  BY <1>1
<1> HIDE DEF f
<1> QED
  BY <1>1, <1>2, <1>3, RequestChanges

\* A deletion that begins has its sessions before it.
LEMMA BeginsOnRecord ==
  ASSUME ErasureInv, NEW r \in Requests, NEW rest \in SUBSET Requests,
         Known(r), \A q \in rest : Known(q), RequestsKept
  PROVE  \E w \in Doings : w = Begin(r, rest) /\ OnRecord(w)'
<1>1. PICK w : w = Begin(r, rest)
  OBVIOUS
<1>2. requests[r].ids \subseteq Sessions
  BY KnownIsClaim DEF ErasureInv
<1>3. w \in Work
  BY <1>1, <1>2 DEF Work, Begin, Stages
<1>4. /\ w.at = "hide" /\ w.request = r /\ w.rest = rest /\ w.todo = requests[r].ids
      /\ w.found = {}
  BY <1>1 DEF Begin
<1>5. requests'[r].ids = requests[r].ids /\ Known(r)' /\ \A q \in rest : Known(q)'
  BY DEF RequestsKept
<1>6. OnRecord(w)'
  BY <1>4, <1>5 DEF OnRecord, Reached
<1> QED
  BY <1>1, <1>3, <1>6 DEF Doings

\* Nothing has to be shown of one that is over.
LEMMA FreeOnRecord ==
  Free \in Doings /\ OnRecord(Free)'
BY DEF Free, Doings, OnRecord, Stages

\* The stages are typed as the invariant has them.
LEMMA StageTyped ==
  ASSUME ErasureInv, NEW d \in Deleters, deleters[d].at \in Stages
  PROVE  /\ deleters[d] \in Work /\ OnRecord(deleters[d]) /\ Reached(deleters[d])
         /\ deleters[d].request \in Requests /\ Known(deleters[d].request)
         /\ deleters[d].rest \subseteq Requests /\ \A r \in deleters[d].rest : Known(r)
<1>1. deleters[d] \in Doings /\ OnRecord(deleters[d])
  BY DEF ErasureInv, ErasureTypeOK, DeletersInv
<1>2. deleters[d] \in Work
  BY <1>1 DEF Doings, Free, Stages
<1>3. deleters[d].at # "idle"
  BY DEF Stages
<1> QED
  BY <1>1, <1>2, <1>3 DEF Work, OnRecord

\* On to the next request of the pass, or done.
LEMMA LeaveOnRecord ==
  ASSUME ErasureInv, NEW d \in Deleters, deleters[d].at \in Stages, Leave(d), RequestsKept
  PROVE  \E w \in Doings : deleters' = [deleters EXCEPT ![d] = w] /\ OnRecord(w)'
<1>1. CASE Become(d, Free)
  BY <1>1, FreeOnRecord DEF Become
<1>2. CASE \E r \in deleters[d].rest : Become(d, Begin(r, deleters[d].rest \ {r}))
  <2>1. PICK r \in deleters[d].rest : Become(d, Begin(r, deleters[d].rest \ {r}))
    BY <1>2
  <2>2. PICK rest \in SUBSET Requests : rest = deleters[d].rest \ {r}
    BY StageTyped
  <2>3. r \in Requests /\ Known(r) /\ \A q \in rest : Known(q)
    BY <2>2, StageTyped
  <2>4. PICK w \in Doings : w = Begin(r, rest) /\ OnRecord(w)'
    BY <2>3, BeginsOnRecord
  <2> QED
    BY <2>1, <2>2, <2>4 DEF Become
<1> QED
  BY <1>1, <1>2 DEF Leave

\* The request is on record, or was.
LEMMA SubmitKeeps ==
  ASSUME ErasureInv, NEW d \in Deleters, NEW r \in Requests, NEW ids \in SUBSET Sessions,
         Submit(d, r, ids)
  PROVE  ErasureInv'
<1>1. ReportStep
  BY ReportAside DEF Submit, ErasureInv
<1>2. /\ requests' \in [Requests -> {Unasked} \cup Claims]
      /\ RequestsKept /\ DoneFairly /\ Known(r)'
  <2>1. requests \in [Requests -> {Unasked} \cup Claims]
    BY DEF ErasureInv, ErasureTypeOK
  <2>2. CASE requests[r] = Unasked
    <3>1. PICK c : c = Asked(ids)
      OBVIOUS
    <3>2. c \in Claims /\ c.at = "pending"
      BY <3>1 DEF Asked, Claims
    <3>3. requests' = [requests EXCEPT ![r] = c]
      BY <2>1, <2>2, <3>1 DEF Submit
    <3>4. requests[r].at = "none"
      BY <2>2 DEF Unasked
    <3> QED
      BY <2>1, <3>2, <3>3, <3>4 DEF RequestsKept, DoneFairly, Known
  <2>3. CASE requests[r] # Unasked
    <3>1. requests' = requests
      BY <2>1, <2>3 DEF Submit
    <3>2. Known(r)
      BY <2>1, <2>3 DEF Known, Claims
    <3> QED
      BY <2>1, <3>1, <3>2, RequestsAside DEF Known
  <2> QED
    BY <2>2, <2>3
<1>3. StoresTyped' /\ Stable
  <2>1. UNCHANGED <<incidents, resumes>>
    BY DEF Submit
  <2> QED
    BY <1>1, <1>2, <2>1, StoresStep DEF ErasureInv, ErasureTypeOK
<1>4. PICK w : w = [at |-> "claim", request |-> r]
  OBVIOUS
<1>5. w \in Doings /\ w.at = "claim" /\ w.request = r
  BY <1>4 DEF Doings
<1>6. OnRecord(w)'
  BY <1>2, <1>5 DEF OnRecord, Stages
<1>7. deleters' = [deleters EXCEPT ![d] = w]
  BY <1>4 DEF Submit, Become
<1> QED
  BY <1>2, <1>3, <1>5, <1>6, <1>7, DeleterStep

\* Somebody asks, for a session or for the account.
LEMMA AskKeeps ==
  ASSUME ErasureInv, NEW d \in Deleters,
         \/ \E s \in Sessions : AskSession(d, s)
         \/ \E r \in AccountRequests : AskAccount(d, r)
  PROVE  ErasureInv'
<1>1. ASSUME NEW s \in Sessions, AskSession(d, s) PROVE ErasureInv'
  <2>1. s \in Requests /\ {s} \in SUBSET Sessions /\ Submit(d, s, {s})
    BY <1>1 DEF AskSession, Requests
  <2> QED
    BY <2>1, SubmitKeeps
<1>2. ASSUME NEW r \in AccountRequests, AskAccount(d, r) PROVE ErasureInv'
  <2>1. PICK ids \in SUBSET Sessions : ids = Existing
    BY DEF Existing
  <2>2. r \in Requests /\ Submit(d, r, ids)
    BY <1>2, <2>1 DEF AskAccount, Requests
  <2> QED
    BY <2>2, SubmitKeeps
<1> QED
  BY <1>1, <1>2

\* The request is claimed, or it is not.
LEMMA Claim1Keeps ==
  ASSUME ErasureInv, NEW d \in Deleters, Claim1(d)
  PROVE  ErasureInv'
<1>1. ReportStep /\ UNCHANGED <<incidents, resumes>>
  BY ReportAside DEF Claim1, ErasureInv
<1>2. PICK r \in Requests : r = deleters[d].request
  <2>1. deleters[d] \in Doings /\ deleters[d].at = "claim"
    BY DEF Claim1, Doing, ErasureInv, ErasureTypeOK
  <2> QED
    BY <2>1 DEF Doings, Free, Work, Stages
<1>3. CASE MayClaim(r) /\ requests' = Taken(d, {r}) /\ Become(d, Begin(r, {}))
  <2>1. requests[r].at = "pending"
    BY <1>3 DEF MayClaim
  <2>2. /\ requests' \in [Requests -> {Unasked} \cup Claims]
        /\ RequestsKept /\ DoneFairly
    BY <1>3, <2>1, TakenKeeps
  <2>3. StoresTyped' /\ Stable
    BY <1>1, <2>2, StoresStep DEF ErasureInv, ErasureTypeOK
  <2>4. PICK w \in Doings : w = Begin(r, {}) /\ OnRecord(w)'
    BY <2>1, <2>2, BeginsOnRecord DEF Known
  <2> QED
    BY <1>3, <2>2, <2>3, <2>4, DeleterStep DEF Become
<1>4. CASE Become(d, Free) /\ UNCHANGED requests
  <2>1. StoresTyped' /\ Stable /\ DoneFairly
    BY <1>1, <1>4, RequestsAside, StoresStep DEF ErasureInv, ErasureTypeOK
  <2> QED
    BY <1>4, <2>1, FreeOnRecord, DeleterStep DEF Become
<1> QED
  BY <1>2, <1>3, <1>4 DEF Claim1

\* Maintenance claims everything that is free.
LEMMA MaintainKeeps ==
  ASSUME ErasureInv, NEW d \in Deleters, Maintain(d)
  PROVE  ErasureInv'
<1>1. ReportStep /\ UNCHANGED <<incidents, resumes>>
  BY ReportAside DEF Maintain, reportVars, ErasureInv
<1>2. PICK free \in SUBSET Requests : free = {r \in Requests : MayClaim(r)}
  OBVIOUS
<1>3. \A r \in free : requests[r].at = "pending"
  BY <1>2 DEF MayClaim
<1>4. /\ requests' \in [Requests -> {Unasked} \cup Claims]
      /\ RequestsKept /\ DoneFairly
  <2>1. requests' = Taken(d, free)
    BY <1>2 DEF Maintain
  <2> QED
    BY <1>3, <2>1, TakenKeeps
<1>5. StoresTyped' /\ Stable
  BY <1>1, <1>4, StoresStep DEF ErasureInv, ErasureTypeOK
<1>6. PICK r \in free : Become(d, Begin(r, free \ {r}))
  BY <1>2 DEF Maintain
<1>7. PICK rest \in SUBSET Requests : rest = free \ {r}
  OBVIOUS
<1>8. PICK w \in Doings : w = Begin(r, rest) /\ OnRecord(w)'
  <2>1. Known(r) /\ \A q \in rest : Known(q)
    BY <1>3, <1>7 DEF Known
  <2> QED
    BY <1>4, <2>1, BeginsOnRecord
<1> QED
  BY <1>4, <1>5, <1>6, <1>7, <1>8, DeleterStep DEF Become

\* The claim is given back.
LEMMA ReleaseKeeps ==
  ASSUME ErasureInv, NEW d \in Deleters, Release(d)
  PROVE  ErasureInv'
<1>1. ReportStep /\ UNCHANGED <<incidents, resumes>>
  BY ReportAside DEF Release, ErasureInv
<1>2. deleters[d].at \in Stages
  BY DEF Release, Doing, Stages
<1>3. PICK r \in Requests : r = deleters[d].request /\ Known(r)
  BY <1>2, StageTyped
<1>4. /\ requests' \in [Requests -> {Unasked} \cup Claims]
      /\ RequestsKept /\ DoneFairly
  <2>1. CASE Holds(d, r) /\ requests' = [requests EXCEPT ![r].held = None]
    <3>1. requests \in [Requests -> {Unasked} \cup Claims] /\ requests[r] \in Claims
      BY <1>3, KnownIsClaim DEF ErasureInv, ErasureTypeOK
    <3>2. PICK c : c = [requests[r] EXCEPT !.held = None]
      OBVIOUS
    <3>3. None \in Deleters \cup {None}
      OBVIOUS
    <3>4. c \in Claims /\ c.at = "pending" /\ c.ids = requests[r].ids
      BY <2>1, <3>1, <3>2, <3>3 DEF Claims, Holds
    <3>5. requests' = [requests EXCEPT ![r] = c]
      BY <2>1, <3>1, <3>2
    <3> QED
      BY <3>1, <3>4, <3>5 DEF RequestsKept, DoneFairly, Known
  <2>2. CASE UNCHANGED requests
    BY <2>2, RequestsAside
  <2> QED
    BY <1>3, <2>1, <2>2 DEF Release
<1>5. StoresTyped' /\ Stable
  BY <1>1, <1>4, StoresStep DEF ErasureInv, ErasureTypeOK
<1>6. PICK w \in Doings : deleters' = [deleters EXCEPT ![d] = w] /\ OnRecord(w)'
  <2>1. Leave(d) \/ Become(d, Free)
    BY DEF Release
  <2> QED
    BY <1>2, <1>4, <2>1, LeaveOnRecord, FreeOnRecord DEF Become
<1> QED
  BY <1>4, <1>5, <1>6, DeleterStep

\* A deletion that fails on the way gives its claim back next.
LEMMA ReleaseNext ==
  ASSUME ErasureInv, NEW d \in Deleters, deleters[d].at \in Stages,
         Become(d, Turned(d, "release")), StoresTyped', Stable, DoneFairly
  PROVE  ErasureInv'
<1>1. PICK v \in Work : v = deleters[d] /\ Known(v.request) /\ \A r \in v.rest : Known(r)
  BY StageTyped
<1>2. PICK w : w = [v EXCEPT !.at = "release"]
  OBVIOUS
<1>3. "release" \in Stages
  BY DEF Stages
<1>4. w \in Work /\ w.at = "release" /\ w.request = v.request /\ w.rest = v.rest
  BY <1>2, <1>3 DEF Work
<1>5. w.request \in Requests /\ w.rest \subseteq Requests
  BY <1>4 DEF Work
<1>6. OnRecord(w)'
  BY <1>1, <1>4, <1>5 DEF OnRecord, Reached, Stable, RequestsKept
<1>7. deleters' = [deleters EXCEPT ![d] = w]
  BY <1>1, <1>2 DEF Become, Turned
<1> QED
  BY <1>4, <1>6, <1>7, DeleterStep DEF Doings

\* The session of a request is hidden, or all of them are.
LEMMA HideKeeps ==
  ASSUME ErasureInv, NEW d \in Deleters, Hide(d)
  PROVE  ErasureInv'
<1>1. /\ UNCHANGED <<content, rows, tasks, requests, incidents, resumes>>
      /\ deleters[d].at = "hide" /\ deleters[d].at \in Stages
  BY DEF Hide, Doing, Stages
<1>2. PICK v \in Work : /\ v = deleters[d] /\ Known(v.request) /\ Reached(v)
                        /\ \A r \in v.rest : Known(r)
  BY <1>1, StageTyped
<1>3. /\ v.request \in Requests /\ v.rest \subseteq Requests /\ v.at = "hide"
      /\ v.todo \subseteq Sessions /\ v.found \subseteq Sessions
  BY <1>1, <1>2 DEF Work
<1>4. ASSUME sessions' \in [Sessions -> {"absent", "active", "ended", "deleted"}],
             \A t \in Sessions : sessions[t] = "deleted" => sessions'[t] = "deleted"
      PROVE  StoresTyped' /\ Stable /\ DoneFairly
  <2>1. ReportStep
    BY <1>1, <1>4, QuietStep DEF ErasureInv, ReportTypeOK, Task
  <2> QED
    BY <1>1, <2>1, RequestsAside, StoresStep DEF ErasureInv, ErasureTypeOK
<1>5. ASSUME NEW s \in v.todo, sessions' = [sessions EXCEPT ![s] = "deleted"],
             Become(d, [v EXCEPT !.todo = @ \ {s}, !.found = @ \cup {s}])
      PROVE  ErasureInv'
  <2>1. PICK w : w = [v EXCEPT !.todo = @ \ {s}, !.found = @ \cup {s}]
    OBVIOUS
  <2>2. v.todo \ {s} \in SUBSET Sessions /\ v.found \cup {s} \in SUBSET Sessions
    BY <1>3
  <2>3. /\ w \in Work /\ w.at = "hide" /\ w.request = v.request /\ w.rest = v.rest
        /\ w.todo = v.todo \ {s} /\ w.found = v.found \cup {s}
    BY <1>3, <2>1, <2>2 DEF Work
  <2>4. /\ sessions' \in [Sessions -> {"absent", "active", "ended", "deleted"}]
        /\ \A t \in Sessions : sessions[t] = "deleted" => sessions'[t] = "deleted"
        /\ sessions'[s] = "deleted"
    BY <1>3, <1>5 DEF ErasureInv, ReportTypeOK
  <2>5. Reached(w)'
    BY <1>1, <1>2, <1>3, <2>3, <2>4 DEF Reached
  <2>6. OnRecord(w)'
    BY <1>1, <1>2, <2>3, <2>5 DEF OnRecord, Known
  <2>7. deleters' = [deleters EXCEPT ![d] = w]
    BY <1>5, <2>1 DEF Become
  <2> QED
    BY <1>4, <2>3, <2>4, <2>6, <2>7, DeleterStep DEF Doings
<1>6. ASSUME v.todo = {}, UNCHANGED sessions,
             Become(d, [Turned(d, "erase") EXCEPT !.todo = v.found])
      PROVE  ErasureInv'
  <2>1. PICK w : w = [[v EXCEPT !.at = "erase"] EXCEPT !.todo = v.found]
    OBVIOUS
  <2>2. "erase" \in Stages
    BY DEF Stages
  <2>3. /\ w \in Work /\ w.at = "erase" /\ w.request = v.request /\ w.rest = v.rest
        /\ w.todo = v.found
    BY <1>3, <2>1, <2>2 DEF Work
  <2>4. Reached(w)'
    BY <1>1, <1>2, <1>3, <1>6, <2>3 DEF Reached
  <2>5. OnRecord(w)'
    BY <1>1, <1>2, <2>3, <2>4 DEF OnRecord, Known
  <2>6. deleters' = [deleters EXCEPT ![d] = w]
    BY <1>2, <1>6, <2>1 DEF Become, Turned
  <2>7. StoresTyped' /\ Stable /\ DoneFairly
    BY <1>4, <1>6 DEF ErasureInv, ReportTypeOK
  <2> QED
    BY <2>3, <2>5, <2>6, <2>7, DeleterStep DEF Doings
<1>7. ASSUME UNCHANGED sessions, Become(d, Turned(d, "release"))
      PROVE  ErasureInv'
  <2>1. StoresTyped' /\ Stable /\ DoneFairly
    BY <1>4, <1>7 DEF ErasureInv, ReportTypeOK
  <2> QED
    BY <1>1, <1>7, <2>1, ReleaseNext
<1> QED
  BY <1>2, <1>5, <1>6, <1>7 DEF Hide

\* The events of a session are redacted, or those of all of them have been.
LEMMA RedactKeeps ==
  ASSUME ErasureInv, NEW d \in Deleters, Redact(d)
  PROVE  ErasureInv'
<1>1. /\ UNCHANGED <<sessions, rows, tasks, requests, incidents, resumes>>
      /\ deleters[d].at = "erase" /\ deleters[d].at \in Stages
  BY DEF Redact, Doing, Stages
<1>2. PICK v \in Work : /\ v = deleters[d] /\ Known(v.request) /\ Reached(v)
                        /\ \A r \in v.rest : Known(r)
  BY <1>1, StageTyped
<1>3. PICK ids \in SUBSET Sessions :
        ids = requests[v.request].ids /\ ids = requests'[v.request].ids
  <2>1. v.request \in Requests
    BY DEF Work
  <2> QED
    BY <1>1, <1>2, <2>1, KnownIsClaim DEF ErasureInv
<1>4. /\ v.at = "erase" /\ v.todo \subseteq ids /\ \A s \in ids : sessions[s] = "deleted"
      /\ v.failed \/ \A s \in ids \ v.todo : Vanished(s)
  BY <1>1, <1>2, <1>3 DEF Reached
<1>5. ASSUME content' \in [Sessions -> {"full", "redacted"}],
             \A t \in Sessions : content'[t] \in {content[t], "redacted"}
      PROVE  StoresTyped' /\ Stable /\ DoneFairly
  <2>1. ReportTypeOK'
    BY <1>1, <1>5 DEF ErasureInv, ReportTypeOK
  <2>2. ASSUME NEW t \in Sessions PROVE ReportKeeps(t)
    <3>1. Clean(t) => Clean(t)'
      BY <1>1, <1>5 DEF Clean, Holder, HeldBy, Working
    <3> QED
      BY <1>1, <1>5, <3>1 DEF ReportKeeps
  <2>3. ReportStep
    BY <2>1, <2>2 DEF ReportStep
  <2> QED
    BY <1>1, <2>3, RequestsAside, StoresStep DEF ErasureInv, ErasureTypeOK
<1>6. ASSUME NEW s \in v.todo, content' = [content EXCEPT ![s] = "redacted"],
             Become(d, [Turned(d, "reports") EXCEPT !.now = s, !.todo = @ \ {s}])
      PROVE  ErasureInv'
  <2>1. PICK w : w = [[v EXCEPT !.at = "reports"] EXCEPT !.now = s, !.todo = @ \ {s}]
    OBVIOUS
  <2>2. "reports" \in Stages /\ s \in Sessions \cup {None} /\ v.todo \ {s} \in SUBSET Sessions
    BY <1>4 DEF Stages
  <2>3. /\ w \in Work /\ w.at = "reports" /\ w.request = v.request /\ w.rest = v.rest
        /\ w.todo = v.todo \ {s} /\ w.now = s /\ w.failed = v.failed
    BY <2>1, <2>2 DEF Work
  <2>4. /\ content' \in [Sessions -> {"full", "redacted"}] /\ content'[s] = "redacted"
        /\ \A t \in Sessions : content'[t] \in {content[t], "redacted"}
    BY <1>4, <1>6 DEF ErasureInv, ReportTypeOK
  <2>5. StoresTyped' /\ Stable /\ DoneFairly
    BY <1>5, <2>4
  <2>6. v.failed \/ \A t \in ids \ v.todo : Vanished(t)'
    BY <1>4, <2>5, VanishedStays
  <2>7. Reached(w)'
    BY <1>1, <1>3, <1>4, <2>3, <2>4, <2>6 DEF Reached
  <2>8. OnRecord(w)'
    BY <1>1, <1>2, <2>3, <2>7 DEF OnRecord, Known
  <2>9. deleters' = [deleters EXCEPT ![d] = w]
    BY <1>2, <1>6, <2>1 DEF Become, Turned
  <2> QED
    BY <2>3, <2>5, <2>8, <2>9, DeleterStep DEF Doings
<1>7. ASSUME UNCHANGED content, Become(d, Turned(d, "release"))
      PROVE  ErasureInv'
  <2>1. StoresTyped' /\ Stable /\ DoneFairly
    BY <1>5, <1>7 DEF ErasureInv, ReportTypeOK
  <2> QED
    BY <1>1, <1>7, <2>1, ReleaseNext
<1>8. ASSUME v.todo = {}, UNCHANGED content, NEW at \in {"account", "complete"},
             Become(d, Turned(d, at))
      PROVE  ErasureInv'
  <2>1. PICK w : w = [v EXCEPT !.at = at]
    OBVIOUS
  <2>2. at \in Stages
    BY DEF Stages
  <2>3. /\ w \in Work /\ w.at = at /\ w.request = v.request /\ w.rest = v.rest
        /\ w.todo = {} /\ w.failed = v.failed
    BY <1>8, <2>1, <2>2 DEF Work
  <2>4. StoresTyped' /\ Stable /\ DoneFairly
    BY <1>5, <1>8 DEF ErasureInv, ReportTypeOK
  <2>5. v.failed \/ \A t \in ids : Vanished(t)'
    BY <1>4, <1>8, <2>4, VanishedStays
  <2>6. Reached(w)'
    BY <1>1, <1>3, <1>4, <2>3, <2>5 DEF Reached
  <2>7. OnRecord(w)'
    BY <1>1, <1>2, <2>3, <2>6 DEF OnRecord, Known
  <2>8. deleters' = [deleters EXCEPT ![d] = w]
    BY <1>2, <1>8, <2>1 DEF Become, Turned
  <2> QED
    BY <2>3, <2>4, <2>7, <2>8, DeleterStep DEF Doings
<1> QED
  BY <1>2, <1>6, <1>7, <1>8 DEF Redact

\* A store is emptied, or the deletion remembers that it was unreachable.
LEMMA EmptiedGoesOn ==
  ASSUME NEW d \in Deleters, NEW v \in Work, v = deleters[d], NEW next \in Stages,
         Emptied(d, next)
  PROVE  \E w \in Work :
           /\ deleters' = [deleters EXCEPT ![d] = w]
           /\ w.at = next /\ w.request = v.request /\ w.rest = v.rest
           /\ w.todo = v.todo /\ w.now = v.now
           /\ w.failed \/ (left' = left /\ w.failed = v.failed)
<1>1. CASE Works /\ Become(d, Turned(d, next))
  <2>1. PICK w : w = [v EXCEPT !.at = next]
    OBVIOUS
  <2>2. /\ w \in Work
        /\ w.at = next /\ w.request = v.request /\ w.rest = v.rest
        /\ w.todo = v.todo /\ w.now = v.now /\ w.failed = v.failed
    BY <2>1 DEF Work
  <2>3. deleters' = [deleters EXCEPT ![d] = w] /\ left' = left
    BY <1>1, <2>1 DEF Become, Turned, Works
  <2> QED
    BY <2>2, <2>3
<1>2. CASE Become(d, [Turned(d, next) EXCEPT !.failed = TRUE])
  <2>1. PICK w : w = [[v EXCEPT !.at = next] EXCEPT !.failed = TRUE]
    OBVIOUS
  <2>2. TRUE \in BOOLEAN
    OBVIOUS
  <2>3. /\ w \in Work
        /\ w.at = next /\ w.request = v.request /\ w.rest = v.rest
        /\ w.todo = v.todo /\ w.now = v.now /\ w.failed
    BY <2>1, <2>2 DEF Work
  <2>4. deleters' = [deleters EXCEPT ![d] = w]
    BY <1>2, <2>1 DEF Become, Turned
  <2> QED
    BY <2>3, <2>4
<1> QED
  BY <1>1, <1>2 DEF Emptied

\* What a deletion at one of the stores has behind it.
LEMMA StoreReached ==
  ASSUME ErasureInv, NEW d \in Deleters, deleters[d].at \in {"reports", "support", "resume"}
  PROVE  \E v \in Work, ids \in SUBSET Sessions, now \in Sessions :
           /\ v = deleters[d] /\ Known(v.request) /\ \A r \in v.rest : Known(r)
           /\ v.request \in Requests /\ ids = requests[v.request].ids
           /\ v.todo \subseteq ids /\ now \in ids /\ v.now = now
           /\ content[now] = "redacted" /\ \A s \in ids : sessions[s] = "deleted"
           /\ v.failed \/ \A s \in (ids \ v.todo) \ {now} : Vanished(s)
           /\ v.at \in {"support", "resume"} => v.failed \/ Clean(now)
           /\ v.at = "resume" => v.failed \/ incidents[now] # "filed"
<1>1. deleters[d].at \in Stages
  BY DEF Stages
<1>2. PICK v \in Work : /\ v = deleters[d] /\ Known(v.request) /\ Reached(v)
                        /\ \A r \in v.rest : Known(r)
  BY <1>1, StageTyped
<1>3. PICK ids \in SUBSET Sessions : ids = requests[v.request].ids
  <2>1. v.request \in Requests
    BY DEF Work
  <2> QED
    BY <1>2, <2>1, KnownIsClaim DEF ErasureInv
<1>4. v.request \in Requests
  BY DEF Work
<1> QED
  BY <1>2, <1>3, <1>4 DEF Reached

\* The report row goes, whoever works on it.
LEMMA ForgetReportKeeps ==
  ASSUME ErasureInv, NEW d \in Deleters, ForgetReport(d)
  PROVE  ErasureInv'
<1>1. /\ UNCHANGED <<sessions, content, tasks, requests, incidents, resumes>>
      /\ deleters[d].at = "reports"
  BY DEF ForgetReport, Doing
<1>2. PICK v \in Work, ids \in SUBSET Sessions, now \in Sessions :
        /\ v = deleters[d] /\ Known(v.request) /\ \A r \in v.rest : Known(r)
        /\ v.request \in Requests /\ ids = requests[v.request].ids
        /\ v.todo \subseteq ids /\ now \in ids /\ v.now = now
        /\ content[now] = "redacted" /\ \A s \in ids : sessions[s] = "deleted"
        /\ v.failed \/ \A s \in (ids \ v.todo) \ {now} : Vanished(s)
  BY <1>1, StoreReached
<1>3. PICK w \in Work :
        /\ deleters' = [deleters EXCEPT ![d] = w]
        /\ w.at = "support" /\ w.request = v.request /\ w.rest = v.rest
        /\ w.todo = v.todo /\ w.now = v.now
        /\ w.failed \/ (left' = left /\ w.failed = v.failed)
  BY <1>2, EmptiedGoesOn DEF ForgetReport, Stages
<1>4. NoRow \in Row /\ NoRow.status # "RUNNING" /\ Untold(NoRow)
  BY DEF Row, NoRow, None, Untold
<1>5. ReportStep
  <2>1. CASE rows' = [rows EXCEPT ![now] = NoRow]
    BY <1>1, <1>4, <2>1, RowStep DEF ErasureInv, ReportTypeOK, Task
  <2>2. CASE rows' = rows
    BY <1>1, <2>2, ReportAside DEF ErasureInv
  <2> QED
    BY <1>2, <2>1, <2>2 DEF ForgetReport
<1>6. StoresTyped' /\ Stable /\ DoneFairly
  BY <1>1, <1>5, RequestsAside, StoresStep DEF ErasureInv, ErasureTypeOK
<1>7. w.failed \/ Clean(now)'
  <2>1. CASE left' = left
    <3>1. rows' = [rows EXCEPT ![now] = NoRow]
      BY <1>2, <2>1 DEF ForgetReport
    <3>2. rows'[now] = NoRow
      BY <3>1 DEF ErasureInv, ReportTypeOK
    <3> QED
      BY <1>1, <1>2, <1>4, <3>2 DEF Clean, Holder, HeldBy
  <2> QED
    BY <1>3, <2>1
<1>8. v.failed \/ \A s \in (ids \ v.todo) \ {now} : Vanished(s)'
  BY <1>2, <1>6, VanishedStays
<1>9. Reached(w)'
  BY <1>1, <1>2, <1>3, <1>7, <1>8 DEF Reached
<1>10. OnRecord(w)'
  BY <1>1, <1>2, <1>3, <1>9 DEF OnRecord, Known
<1> QED
  BY <1>3, <1>6, <1>10, DeleterStep DEF Doings

\* So do the support reports of the session.
LEMMA ForgetIncidentsKeeps ==
  ASSUME ErasureInv, NEW d \in Deleters, ForgetIncidents(d)
  PROVE  ErasureInv'
<1>1. /\ UNCHANGED <<sessions, content, rows, tasks, requests, resumes>>
      /\ deleters[d].at = "support"
  BY DEF ForgetIncidents, Doing
<1>2. PICK v \in Work, ids \in SUBSET Sessions, now \in Sessions :
        /\ v = deleters[d] /\ Known(v.request) /\ \A r \in v.rest : Known(r)
        /\ v.request \in Requests /\ ids = requests[v.request].ids
        /\ v.todo \subseteq ids /\ now \in ids /\ v.now = now
        /\ content[now] = "redacted" /\ \A s \in ids : sessions[s] = "deleted"
        /\ v.failed \/ \A s \in (ids \ v.todo) \ {now} : Vanished(s)
        /\ v.failed \/ Clean(now)
  BY <1>1, StoreReached
<1>3. PICK w \in Work :
        /\ deleters' = [deleters EXCEPT ![d] = w]
        /\ w.at = "resume" /\ w.request = v.request /\ w.rest = v.rest
        /\ w.todo = v.todo /\ w.now = v.now
        /\ w.failed \/ (left' = left /\ w.failed = v.failed)
  BY <1>2, EmptiedGoesOn DEF ForgetIncidents, Stages
<1>4. incidents' = [incidents EXCEPT ![now] = "none"] \/ (incidents' = incidents /\ left' # left)
  BY <1>2 DEF ForgetIncidents
<1>5. /\ incidents' \in [Sessions -> {"none", "filed", "late"}]
      /\ \A s \in Sessions : incidents'[s] \in {incidents[s], "none"}
      /\ left' = left => incidents'[now] = "none"
  BY <1>4 DEF ErasureInv, ErasureTypeOK
<1>6. StoresTyped' /\ Stable /\ DoneFairly
  <2>1. ReportStep
    BY <1>1, ReportAside DEF ErasureInv
  <2> QED
    BY <1>1, <1>5, <2>1, RequestsAside, StoresStep
<1>7. v.failed \/ (Clean(now)' /\ \A s \in (ids \ v.todo) \ {now} : Vanished(s)')
  BY <1>2, <1>6, VanishedStays DEF Stable, ReportKeeps
<1>8. Reached(w)'
  BY <1>1, <1>2, <1>3, <1>5, <1>7 DEF Reached
<1>9. OnRecord(w)'
  BY <1>1, <1>2, <1>3, <1>8 DEF OnRecord, Known
<1> QED
  BY <1>3, <1>6, <1>9, DeleterStep DEF Doings

\* And the facts of the resume.
LEMMA ForgetResumeKeeps ==
  ASSUME ErasureInv, NEW d \in Deleters, ForgetResume(d)
  PROVE  ErasureInv'
<1>1. /\ UNCHANGED <<sessions, content, rows, tasks, requests, incidents>>
      /\ deleters[d].at = "resume"
  BY DEF ForgetResume, Doing
<1>2. PICK v \in Work, ids \in SUBSET Sessions, now \in Sessions :
        /\ v = deleters[d] /\ Known(v.request) /\ \A r \in v.rest : Known(r)
        /\ v.request \in Requests /\ ids = requests[v.request].ids
        /\ v.todo \subseteq ids /\ now \in ids /\ v.now = now
        /\ content[now] = "redacted" /\ \A s \in ids : sessions[s] = "deleted"
        /\ v.failed \/ \A s \in (ids \ v.todo) \ {now} : Vanished(s)
        /\ v.failed \/ Clean(now)
        /\ v.failed \/ incidents[now] # "filed"
  BY <1>1, StoreReached
<1>3. PICK w \in Work :
        /\ deleters' = [deleters EXCEPT ![d] = w]
        /\ w.at = "erase" /\ w.request = v.request /\ w.rest = v.rest
        /\ w.todo = v.todo /\ w.now = v.now
        /\ w.failed \/ (left' = left /\ w.failed = v.failed)
  BY <1>2, EmptiedGoesOn DEF ForgetResume, Stages
<1>4. resumes' \subseteq resumes /\ (left' = left => now \notin resumes')
  BY <1>2 DEF ForgetResume
<1>5. StoresTyped' /\ Stable /\ DoneFairly
  <2>1. ReportStep
    BY <1>1, ReportAside DEF ErasureInv
  <2> QED
    BY <1>1, <1>4, <2>1, RequestsAside, StoresStep DEF ErasureInv, ErasureTypeOK
<1>6. v.failed \/ (Clean(now)' /\ \A s \in (ids \ v.todo) \ {now} : Vanished(s)')
  BY <1>2, <1>5, VanishedStays DEF Stable, ReportKeeps
<1>7. w.failed \/ Vanished(now)'
  BY <1>1, <1>2, <1>3, <1>4, <1>6 DEF Vanished
<1>8. w.failed \/ \A s \in ids \ w.todo : Vanished(s)'
  BY <1>3, <1>6, <1>7
<1>9. Reached(w)'
  BY <1>1, <1>2, <1>3, <1>8 DEF Reached
<1>10. OnRecord(w)'
  BY <1>1, <1>2, <1>3, <1>9 DEF OnRecord, Known
<1> QED
  BY <1>3, <1>5, <1>10, DeleterStep DEF Doings

\* An account's deletion empties them once more.
LEMMA ForgetUserKeeps ==
  ASSUME ErasureInv, NEW d \in Deleters, ForgetUser(d)
  PROVE  ErasureInv'
<1>1. /\ UNCHANGED <<sessions, content, rows, tasks, requests>>
      /\ deleters[d].at = "account" /\ deleters[d].at \in Stages
  BY DEF ForgetUser, Doing, Stages
<1>2. PICK v \in Work : /\ v = deleters[d] /\ Known(v.request) /\ Reached(v)
                        /\ \A r \in v.rest : Known(r)
  BY <1>1, StageTyped
<1>3. PICK ids \in SUBSET Sessions :
        ids = requests[v.request].ids /\ ids = requests'[v.request].ids
  <2>1. v.request \in Requests
    BY DEF Work
  <2> QED
    BY <1>1, <1>2, <2>1, KnownIsClaim DEF ErasureInv
<1>4. PICK w \in Work :
        /\ deleters' = [deleters EXCEPT ![d] = w]
        /\ w.at = "complete" /\ w.request = v.request /\ w.rest = v.rest
        /\ w.todo = v.todo /\ w.now = v.now
        /\ w.failed \/ (left' = left /\ w.failed = v.failed)
  BY <1>2, EmptiedGoesOn DEF ForgetUser, Stages
<1>5. /\ incidents' \in [Sessions -> {"none", "filed", "late"}]
      /\ \A s \in Sessions : incidents'[s] \in {incidents[s], "none"}
      /\ resumes' \subseteq resumes
  BY DEF ForgetUser, ErasureInv, ErasureTypeOK
<1>6. StoresTyped' /\ Stable /\ DoneFairly
  <2>1. ReportStep
    BY <1>1, ReportAside DEF ErasureInv
  <2> QED
    BY <1>1, <1>5, <2>1, RequestsAside, StoresStep
<1>7. /\ v.todo \subseteq ids /\ \A s \in ids : sessions[s] = "deleted"
      /\ v.failed \/ \A s \in ids : Vanished(s)
  BY <1>1, <1>2, <1>3 DEF Reached
<1>8. v.failed \/ \A s \in ids : Vanished(s)'
  BY <1>6, <1>7, VanishedStays
<1>9. Reached(w)'
  BY <1>1, <1>3, <1>4, <1>7, <1>8 DEF Reached
<1>10. OnRecord(w)'
  BY <1>1, <1>2, <1>4, <1>9 DEF OnRecord, Known
<1> QED
  BY <1>4, <1>6, <1>10, DeleterStep DEF Doings

\* The request is completed by who holds it and reached every store.
LEMMA FinishedKeeps ==
  ASSUME ErasureInv, NEW d \in Deleters, Finished(d)
  PROVE  ErasureInv'
<1>1. ReportStep /\ UNCHANGED <<incidents, resumes>>
  BY ReportAside DEF Finished, ErasureInv
<1>2. deleters[d].at = "complete" /\ deleters[d].at \in Stages
  BY DEF Finished, Doing, Stages
<1>3. PICK r \in Requests : r = deleters[d].request /\ Known(r)
  BY <1>2, StageTyped
<1>4. CASE UNCHANGED requests /\ Become(d, Turned(d, "release"))
  BY <1>1, <1>2, <1>4, RequestsAside, StoresStep, ReleaseNext DEF ErasureInv, ErasureTypeOK
<1>5. ASSUME Holds(d, r), ~deleters[d].failed, requests' = [requests EXCEPT ![r].at = "done"]
      PROVE  StoresTyped' /\ Stable /\ DoneFairly
  <2>1. requests \in [Requests -> {Unasked} \cup Claims] /\ requests[r] \in Claims
    BY <1>3, KnownIsClaim DEF ErasureInv, ErasureTypeOK
  <2>2. PICK c : c = [requests[r] EXCEPT !.at = "done"]
    OBVIOUS
  <2>3. "done" \in {"pending", "done"}
    OBVIOUS
  <2>4. c \in Claims /\ c.at = "done" /\ c.ids = requests[r].ids
    BY <2>1, <2>2, <2>3 DEF Claims
  <2>5. requests' = [requests EXCEPT ![r] = c]
    BY <1>5, <2>1, <2>2
  <2>6. \A s \in requests[r].ids : Vanished(s)
    BY <1>2, <1>3, <1>5, StageTyped DEF Reached
  <2>7. /\ requests' \in [Requests -> {Unasked} \cup Claims]
        /\ RequestsKept /\ DoneFairly
    BY <1>3, <2>1, <2>4, <2>5, <2>6 DEF RequestsKept, DoneFairly, Known
  <2> QED
    BY <1>1, <2>7, StoresStep DEF ErasureInv, ErasureTypeOK
<1>6. CASE /\ Holds(d, r) /\ ~deleters[d].failed
           /\ requests' = [requests EXCEPT ![r].at = "done"]
           /\ Become(d, Turned(d, "release"))
  BY <1>2, <1>5, <1>6, ReleaseNext
<1>7. CASE /\ Holds(d, r) /\ ~deleters[d].failed
           /\ requests' = [requests EXCEPT ![r].at = "done"] /\ Leave(d)
  <2>1. StoresTyped' /\ Stable /\ DoneFairly
    BY <1>5, <1>7
  <2>2. PICK w \in Doings : deleters' = [deleters EXCEPT ![d] = w] /\ OnRecord(w)'
    BY <1>2, <1>7, <2>1, LeaveOnRecord DEF Stable
  <2> QED
    BY <2>1, <2>2, DeleterStep
<1> QED
  BY <1>3, <1>4, <1>6, <1>7 DEF Finished

\* A lease on a request runs out.
LEMMA LapseClaimKeeps ==
  ASSUME ErasureInv, NEW r \in Requests, LapseClaim(r)
  PROVE  ErasureInv'
<1>1. ReportStep /\ UNCHANGED <<incidents, resumes, deleters>>
  BY ReportAside DEF LapseClaim, ErasureInv
<1>2. /\ requests' \in [Requests -> {Unasked} \cup Claims]
      /\ RequestsKept /\ DoneFairly
  <2>1. requests[r].at = "pending" /\ requests' = [requests EXCEPT ![r].lapsed = TRUE]
    BY DEF LapseClaim
  <2>2. requests \in [Requests -> {Unasked} \cup Claims] /\ requests[r] \in Claims
    BY <2>1, KnownIsClaim DEF ErasureInv, ErasureTypeOK, Known
  <2>3. PICK c : c = [requests[r] EXCEPT !.lapsed = TRUE]
    OBVIOUS
  <2>4. TRUE \in BOOLEAN
    OBVIOUS
  <2>5. c \in Claims /\ c.at = "pending" /\ c.ids = requests[r].ids
    BY <2>1, <2>2, <2>3, <2>4 DEF Claims
  <2>6. requests' = [requests EXCEPT ![r] = c]
    BY <2>1, <2>2, <2>3
  <2> QED
    BY <2>2, <2>5, <2>6 DEF RequestsKept, DoneFairly, Known
<1>3. StoresTyped' /\ Stable
  BY <1>1, <1>2, StoresStep DEF ErasureInv, ErasureTypeOK
<1> QED
  BY <1>1, <1>2, <1>3, OtherStep

\* A support report arrives: "late" once its session is hidden.
LEMMA FilingKeeps ==
  ASSUME ErasureInv, NEW s \in Sessions, CheckIncident(s) \/ FileIncident(s)
  PROVE  ErasureInv'
<1>1. ReportStep /\ UNCHANGED <<requests, resumes, deleters>>
  BY ReportAside DEF CheckIncident, FileIncident, reportVars, ErasureInv
<1>2. /\ incidents' \in [Sessions -> {"none", "filed", "late"}]
      /\ \A t \in Sessions :
           sessions[t] = "deleted" /\ incidents[t] # "filed" => incidents'[t] # "filed"
  BY DEF CheckIncident, FileIncident, Existing, ErasureInv, ErasureTypeOK
<1>3. StoresTyped' /\ Stable /\ DoneFairly
  BY <1>1, <1>2, RequestsAside, StoresStep
<1> QED
  BY <1>1, <1>3, OtherStep

\* The process of a deletion dies.
LEMMA DieKeeps ==
  ASSUME ErasureInv, NEW d \in Deleters, Die(d)
  PROVE  ErasureInv'
<1>1. ReportStep /\ UNCHANGED <<requests, incidents, resumes>>
  BY ReportAside DEF Die, ErasureInv
<1>2. StoresTyped' /\ Stable /\ DoneFairly
  BY <1>1, RequestsAside, StoresStep DEF ErasureInv, ErasureTypeOK
<1> QED
  BY <1>2, FreeOnRecord, DeleterStep DEF Die, Become

-----------------------------------------------------------------------------
(* The theorems.                                                           *)

\* Nothing has been asked for at first.
LEMMA InitErasure ==
  Init => ErasureInv
<1> SUFFICES ASSUME Init PROVE ErasureInv
  OBVIOUS
<1>1. ReportTypeOK
  BY DEF Init, ReportInit, ReportTypeOK
<1>2. ErasureTypeOK
  BY DEF Init, ErasureTypeOK, Doings
<1>3. DeletersInv
  BY DEF Init, DeletersInv, OnRecord, Free, Stages
<1>4. RequestsInv
  BY DEF Init, RequestsInv, Unasked
<1> QED
  BY <1>1, <1>2, <1>3, <1>4 DEF ErasureInv

\* Every step keeps the invariant.
LEMMA NextErasure ==
  ErasureInv /\ [Next]_vars => ErasureInv'
<1> SUFFICES ASSUME ErasureInv, [Next]_vars PROVE ErasureInv'
  OBVIOUS
<1>1. CASE (ReportNext \/ \E p \in Replicas : Crash(p)) /\ UNCHANGED erasureVars
  <2>1. ReportStep
    BY <1>1, WorkersKeep DEF ErasureInv
  <2>2. UNCHANGED <<requests, incidents, resumes, deleters>>
    BY <1>1 DEF erasureVars
  <2>3. StoresTyped' /\ Stable /\ DoneFairly
    BY <2>1, <2>2, RequestsAside, StoresStep DEF ErasureInv, ErasureTypeOK
  <2> QED
    BY <2>2, <2>3, OtherStep
<1>2. ASSUME NEW d \in Deleters, Delete(d) PROVE ErasureInv'
  BY <1>2, Claim1Keeps, HideKeeps, RedactKeeps, ForgetReportKeeps, ForgetIncidentsKeeps,
     ForgetResumeKeeps, ForgetUserKeeps, FinishedKeeps, ReleaseKeeps DEF Delete
<1>3. ASSUME NEW d \in Deleters,
             \/ Maintain(d) \/ Die(d)
             \/ \E s \in Sessions : AskSession(d, s)
             \/ \E r \in AccountRequests : AskAccount(d, r)
      PROVE  ErasureInv'
  BY <1>3, MaintainKeeps, DieKeeps, AskKeeps
<1>4. CASE UNCHANGED vars
  <2>1. UNCHANGED <<sessions, content, rows, tasks, requests, incidents, resumes, deleters>>
    BY <1>4 DEF vars, reportVars, erasureVars
  <2>2. StoresTyped' /\ Stable /\ DoneFairly
    BY <2>1, ReportAside, RequestsAside, StoresStep DEF ErasureInv, ErasureTypeOK
  <2> QED
    BY <2>1, <2>2, OtherStep
<1> QED
  BY <1>1, <1>2, <1>3, <1>4, FilingKeeps, LapseClaimKeeps DEF Next

\* Every reachable state is as the invariant says.
THEOREM ErasureHolds ==
  Spec => []ErasureInv
<1> QED
  BY InitErasure, NextErasure, PTL DEF Spec

\* A deletion on record as completed leaves nothing of its sessions readable,
\* whatever the workers, the other deletions, maintenance and the faults do.
THEOREM DeletionIsComplete ==
  Spec => []NothingOutlivesDeletion
<1>1. ErasureInv => NothingOutlivesDeletion
  BY DEF ErasureInv, RequestsInv, Vanished, Clean, NothingOutlivesDeletion, Erased
<1> QED
  BY <1>1, ErasureHolds, PTL

\* A step leaves a report that is ready as it is, or removes it.
LEMMA ReadyStep ==
  ASSUME ErasureInv, Next, NEW s \in Sessions, rows[s].status = "READY"
  PROVE  rows'[s] \in {rows[s], NoRow}
<1>1. CASE ReportNext \/ \E p \in Replicas : Crash(p)
  BY <1>1, WorkersKeep DEF ReportStep, ReportKeeps, ErasureInv
<1>2. ASSUME NEW d \in Deleters, ForgetReport(d) PROVE rows'[s] \in {rows[s], NoRow}
  <2>1. rows' = [rows EXCEPT ![deleters[d].now] = NoRow] \/ rows' = rows
    BY <1>2 DEF ForgetReport
  <2> QED
    BY <2>1 DEF ErasureInv, ReportTypeOK
<1>3. ASSUME NEW d \in Deleters, Delete(d), ~ForgetReport(d) PROVE rows' = rows
  BY <1>3 DEF Delete, Claim1, Hide, Redact, ForgetIncidents, ForgetResume, ForgetUser,
              Finished, Release
<1>4. ASSUME NEW d \in Deleters,
             \/ Maintain(d) \/ Die(d)
             \/ \E t \in Sessions : AskSession(d, t)
             \/ \E r \in AccountRequests : AskAccount(d, r)
      PROVE  rows' = rows
  BY <1>4 DEF Maintain, Die, AskSession, AskAccount, Submit, reportVars
<1>5. ASSUME NEW t \in Sessions, CheckIncident(t) \/ FileIncident(t) PROVE rows' = rows
  BY <1>5 DEF CheckIncident, FileIncident, reportVars
<1>6. ASSUME NEW r \in Requests, LapseClaim(r) PROVE rows' = rows
  BY <1>6 DEF LapseClaim
<1> QED
  BY <1>1, <1>2, <1>3, <1>4, <1>5, <1>6 DEF Next

\* A report that is ready stays as it is until it is removed altogether,
\* whatever a worker that lost the job still tries to write.
THEOREM ReadyStays ==
  Spec => ReadyReportStands
<1>1. ErasureInv /\ [Next]_vars =>
        [\A s \in Sessions :
           rows[s].status = "READY" => rows'[s] \in {rows[s], NoRow}]_vars
  BY ReadyStep
<1> QED
  BY <1>1, ErasureHolds, PTL DEF Spec, ReadyReportStands

=============================================================================
