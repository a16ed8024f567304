---------------------------- MODULE RuntimeProofs ----------------------------
(***************************************************************************)
(* Proofs about InterviewRuntime, for every set of chains and every        *)
(* setting: its type invariant, that the interviewer is not left marked as *)
(* speaking, that recovery is exact, and that a turn gets one reply.       *)
(*                                                                         *)
(* A chain's code is a function from a world (the fields a chain reads and *)
(* writes) to a world.  The lemmas on an operator say what shape of world  *)
(* it returns, what its chain awaits then, and what it does with the       *)
(* utterance the chain carries.  A step then is one of a few things done   *)
(* to the speaking window: it leaves it alone, opens it, hands the         *)
(* utterance over, closes it, or forgets the authorization (StepCases).    *)
(*                                                                         *)
(* For recovery, the chains in line for the database take the session row, *)
(* one after another, from the stage it is in to the stage of memory, and  *)
(* the last of them leaves the log at what memory is (Fits, Sync).         *)
(*                                                                         *)
(* For the replies, the key of a reply to come is owed in one place, by    *)
(* one chain or by one held turn, and nothing was appended under it        *)
(* (Whole); the turns yet to be ingested are numbered apart (Lines).       *)
(***************************************************************************)
EXTENDS InterviewRuntime, SequenceTheorems, TLAPS

-----------------------------------------------------------------------------
(* Worlds.                                                                 *)

MemFields ==
  {"stage", "briefs", "redeliver", "redeliveries", "reasoning", "approach",
   "rev", "seen", "runs", "passed", "followUps", "hints", "speechStarted",
   "stopped", "passes"}

LiveFields ==
  {"speaking", "speakingNow", "timed", "held", "speakingHeld", "handle",
   "leaked", "authorized", "dirty", "runs", "names"}

\* A world has its five components, and the first three have their fields.
Shaped(w) ==
  /\ w = [mem |-> w.mem, live |-> w.live, proc |-> w.proc, lane |-> w.lane,
          queue |-> w.queue]
  /\ w.mem  = [f \in MemFields |-> w.mem[f]]
  /\ w.live = [f \in LiveFields |-> w.live[f]]
  /\ w.proc = [q \in Chains |-> w.proc[q]]

Others(p) == Chains \ {p}

\* Memory, but for what an observation pass writes.
Told == MemFields \ {"seen", "passed", "approach", "passes"}
\* The other fields, but for what the observation loop keeps there.
Heard == LiveFields \ {"dirty", "runs", "names"}

\* v is w with chain p awaiting the database for job.
Awaits(w, v, p, job) ==
  /\ Shaped(v) /\ v.mem = w.mem /\ v.live = w.live /\ v.queue = w.queue
  /\ v.lane = Append(w.lane, p)
  /\ v.proc[p] = job
  /\ \A q \in Others(p) : v.proc[q] = w.proc[q]

\* Chains and memory only: what the observation loop makes of w.
Passed(w, v) ==
  /\ Shaped(v) /\ v.queue = w.queue
  /\ \A f \in Told : v.mem[f] = w.mem[f]
  /\ \A f \in Heard : v.live[f] = w.live[f]
  /\ \A q \in Others(Observer) : v.proc[q] = w.proc[q]
  /\ \/ v.proc[Observer] = Idle /\ v.lane = w.lane /\ v.mem = w.mem
     \/ /\ v.proc[Observer].at = "parsing"
        /\ v.lane = w.lane /\ v.mem = w.mem
     \/ /\ \E n : \E at \in {"milestone", "observed"} :
              v.proc[Observer] = [at |-> at, pass |-> n]
        /\ v.lane = Append(w.lane, Observer)

\* Nothing but the observation loop's own fields differ.
Marked(w, v) ==
  /\ Shaped(v) /\ v.queue = w.queue /\ v.mem = w.mem /\ v.proc = w.proc
  /\ v.lane = w.lane
  /\ \A f \in Heard : v.live[f] = w.live[f]

\* A world with its memory replaced.
LEMMA MemWorld ==
  ASSUME NEW w, Shaped(w), NEW m, m = [f \in MemFields |-> m[f]],
         NEW v, v = WithMem(w, m)
  PROVE  /\ Shaped(v) /\ v.mem = m /\ v.live = w.live /\ v.proc = w.proc
         /\ v.lane = w.lane /\ v.queue = w.queue
BY DEF Shaped, WithMem

\* A world with its other fields replaced.
LEMMA LiveWorld ==
  ASSUME NEW w, Shaped(w), NEW l, l = [f \in LiveFields |-> l[f]],
         NEW v, v = WithLive(w, l)
  PROVE  /\ Shaped(v) /\ v.live = l /\ v.mem = w.mem /\ v.proc = w.proc
         /\ v.lane = w.lane /\ v.queue = w.queue
BY DEF Shaped, WithLive

\* A world in which the last speech has been taken into account.
LEMMA HeardOutWorld ==
  ASSUME NEW w, Shaped(w), NEW v, v = HeardOut(w)
  PROVE  /\ Shaped(v) /\ v.live = w.live /\ v.proc = w.proc
         /\ v.lane = w.lane /\ v.queue = w.queue
         /\ \A f \in MemFields \ {"speechStarted"} : v.mem[f] = w.mem[f]
<1>1. PICK m : m = [w.mem EXCEPT !.speechStarted = FALSE]
  OBVIOUS
<1>2. /\ m = [f \in MemFields |-> m[f]]
      /\ \A f \in MemFields \ {"speechStarted"} : m[f] = w.mem[f]
  BY <1>1 DEF Shaped, MemFields
<1>3. v = WithMem(w, m)
  BY <1>1 DEF HeardOut
<1> QED
  BY <1>2, <1>3, MemWorld

\* Chain p of a world put to await the database.
LEMMA AwaitWorld ==
  ASSUME NEW w, Shaped(w), NEW p \in Chains, NEW job, NEW v, v = Await(w, p, job)
  PROVE  Awaits(w, v, p, job)
BY DEF Shaped, Await, Awaits, Others

\* Chain p of a world put to await something else.
LEMMA SuspendWorld ==
  ASSUME NEW w, Shaped(w), NEW p \in Chains, NEW job,
         NEW v, v = Suspend(w, p, job)
  PROVE  /\ Shaped(v) /\ v.mem = w.mem /\ v.live = w.live /\ v.queue = w.queue
         /\ v.lane = w.lane /\ v.proc[p] = job
         /\ \A q \in Others(p) : v.proc[q] = w.proc[q]
BY DEF Shaped, Suspend, Others

\* Chain p of a world done.
LEMMA FinishWorld ==
  ASSUME NEW w, Shaped(w), NEW p \in Chains, NEW v, v = Finish(w, p)
  PROVE  /\ Shaped(v) /\ v.mem = w.mem /\ v.live = w.live
         /\ v.queue = IF p = Dispatcher THEN Tail(w.queue) ELSE w.queue
         /\ v.lane = w.lane /\ v.proc[p] = Idle
         /\ \A q \in Others(p) : v.proc[q] = w.proc[q]
BY DEF Shaped, Finish, Others

\* An observation pass folds in what it took, and awaits its first append.
LEMMA FoldWorld ==
  ASSUME NEW w, Shaped(w), NEW job, NEW v, v = Fold(w, job)
  PROVE  Passed(w, v)
<1>0. PICK then : then = [at |-> IF job.runs /\ ~w.mem.passed THEN "milestone"
                                                            ELSE "observed",
                          pass |-> w.mem.passes]
  OBVIOUS
<1>1. PICK m : m = [w.mem EXCEPT !.seen     = IF job.rev > 0 THEN job.rev ELSE @,
                                 !.passed   = @ \/ job.runs,
                                 !.approach = @ \/ job.names,
                                 !.passes   = @ + 1]
  OBVIOUS
<1>2. m = [f \in MemFields |-> m[f]] /\ \A f \in Told : m[f] = w.mem[f]
  BY <1>1 DEF Shaped, Told, MemFields
<1>3. PICK u : u = WithMem(w, m)
  OBVIOUS
<1>4. /\ Shaped(u) /\ u.live = w.live /\ u.proc = w.proc /\ u.lane = w.lane
      /\ u.queue = w.queue /\ u.mem = m
  BY <1>2, <1>3, MemWorld
<1>5. v = Await(u, Observer, then)
  BY <1>0, <1>1, <1>3 DEF Fold
<1>6. Observer \in Chains
  BY DEF Chains
<1>7. Awaits(u, v, Observer, then)
  BY <1>4, <1>5, <1>6, AwaitWorld
<1>8. /\ Shaped(v) /\ v.queue = w.queue /\ v.lane = Append(w.lane, Observer)
      /\ v.mem = m /\ v.live = w.live /\ v.proc[Observer] = then
  BY <1>4, <1>7 DEF Awaits
<1>9. \A q \in Others(Observer) : v.proc[q] = w.proc[q]
  BY <1>4, <1>7 DEF Awaits
<1>10. \E at \in {"milestone", "observed"} : then = [at |-> at, pass |-> w.mem.passes]
  BY <1>0
<1>11. \E n : \E at \in {"milestone", "observed"} :
         v.proc[Observer] = [at |-> at, pass |-> n]
  BY <1>8, <1>10
<1> QED
  BY <1>2, <1>8, <1>9, <1>11 DEF Passed

\* The observation loop goes on with what is pending, or is done.
LEMMA NextPassWorld ==
  ASSUME NEW w, Shaped(w), NEW v, v = NextPass(w)
  PROVE  Passed(w, v)
<1>1. Observer \in Chains /\ Observer # Dispatcher
  BY DEF Chains, Observer, Dispatcher
<1>2. CASE ~w.live.dirty
  <2>1. v = Finish(w, Observer)
    BY <1>2 DEF NextPass
  <2> QED
    BY <2>1, <1>1, FinishWorld DEF Passed, Told, Heard
<1>3. CASE w.live.dirty
  <2>1. PICK l : l = [w.live EXCEPT !.dirty = FALSE, !.runs = FALSE, !.names = FALSE]
    OBVIOUS
  <2>2. l = [f \in LiveFields |-> l[f]] /\ \A f \in Heard : l[f] = w.live[f]
    BY <2>1 DEF Shaped, Heard, LiveFields
  <2>3. PICK taken : taken = WithLive(w, l)
    OBVIOUS
  <2>4. PICK job : job = [at |-> "parsing", rev |-> w.mem.rev,
                          runs |-> w.live.runs, names |-> w.live.names]
    OBVIOUS
  <2>5. /\ Shaped(taken) /\ taken.mem = w.mem /\ taken.proc = w.proc
        /\ taken.lane = w.lane /\ taken.queue = w.queue /\ taken.live = l
    BY <2>2, <2>3, LiveWorld
  <2>6. \/ v = Suspend(taken, Observer, job)
        \/ v = Fold(taken, job)
    BY <1>3, <2>1, <2>3, <2>4 DEF NextPass
  <2>7. CASE v = Suspend(taken, Observer, job)
    <3>1. /\ Shaped(v) /\ v.mem = taken.mem /\ v.live = taken.live
          /\ v.queue = taken.queue /\ v.lane = taken.lane /\ v.proc[Observer] = job
          /\ \A q \in Others(Observer) : v.proc[q] = taken.proc[q]
      BY <1>1, <2>5, <2>7, SuspendWorld
    <3> QED
      BY <3>1, <2>2, <2>4, <2>5 DEF Passed
  <2>8. CASE v = Fold(taken, job)
    <3>1. Passed(taken, v)
      BY <2>5, <2>8, FoldWorld
    <3> QED
      BY <3>1, <2>2, <2>5 DEF Passed
  <2> QED
    BY <2>6, <2>7, <2>8
<1> QED
  BY <1>2, <1>3

\* An observation is asked for: a pass starts, or the one in flight is told.
LEMMA ScheduledWorld ==
  ASSUME NEW w, Shaped(w), NEW v, v = ScheduleObservation(w)
  PROVE  \/ w.proc[Observer] = Idle /\ Passed(w, v)
         \/ w.proc[Observer] # Idle /\ Marked(w, v)
<1>1. PICK l : l = [w.live EXCEPT !.dirty = TRUE]
  OBVIOUS
<1>2. PICK marked : marked = WithLive(w, l)
  OBVIOUS
<1>3. l = [f \in LiveFields |-> l[f]] /\ \A f \in Heard : l[f] = w.live[f]
  BY <1>1 DEF Shaped, Heard, LiveFields
<1>4. Marked(w, marked)
  BY <1>2, <1>3, LiveWorld DEF Marked
<1>5. v = IF w.proc[Observer] = Idle THEN NextPass(marked) ELSE marked
  BY <1>1, <1>2 DEF ScheduleObservation
<1>6. ASSUME v = NextPass(marked) PROVE Passed(w, v)
  <2>1. Passed(marked, v)
    BY <1>4, <1>6, NextPassWorld DEF Marked
  <2> QED
    BY <1>4, <2>1 DEF Marked, Passed
<1> QED
  BY <1>4, <1>5, <1>6

\* A held turn given up: nothing else about the world changes.
LEMMA ClearedWorld ==
  ASSUME NEW w, Shaped(w), NEW v, v = ClearHeldTurn(w)
  PROVE  /\ Shaped(v) /\ v.mem = w.mem /\ v.proc = w.proc
         /\ v.lane = w.lane /\ v.queue = w.queue
         /\ v.live.held = {} /\ v.live.speakingHeld = {}
         /\ \A f \in LiveFields \ {"held", "speakingHeld", "handle"} :
              v.live[f] = w.live[f]
<1>1. PICK l : l = [w.live EXCEPT !.held = {}, !.speakingHeld = {}, !.handle = FALSE]
  OBVIOUS
<1>2. /\ l = [f \in LiveFields |-> l[f]] /\ l.held = {} /\ l.speakingHeld = {}
      /\ \A f \in LiveFields \ {"held", "speakingHeld", "handle"} : l[f] = w.live[f]
  BY <1>1 DEF Shaped, LiveFields
<1>3. v = WithLive(w, l)
  BY <1>1 DEF ClearHeldTurn
<1> QED
  BY <1>2, <1>3, LiveWorld

\* A turn put on hold: nothing but the timer's fields changes.
LEMMA HeldWorld ==
  ASSUME NEW w, Shaped(w), NEW held, NEW v, v = Hold(w, held)
  PROVE  /\ Shaped(v) /\ v.mem = w.mem /\ v.proc = w.proc
         /\ v.lane = w.lane /\ v.queue = w.queue /\ v.live.held = {held}
         /\ \A f \in LiveFields \ {"held", "leaked", "handle"} :
              v.live[f] = w.live[f]
<1>1. PICK l : l = [w.live EXCEPT !.held = {held}, !.handle = TRUE,
                                  !.leaked = @ + (IF w.live.handle THEN 1 ELSE 0)]
  OBVIOUS
<1>2. /\ l = [f \in LiveFields |-> l[f]] /\ l.held = {held}
      /\ \A f \in LiveFields \ {"held", "leaked", "handle"} : l[f] = w.live[f]
  BY <1>1 DEF Shaped, LiveFields
<1>3. v = WithLive(w, l)
  BY <1>1 DEF Hold
<1> QED
  BY SMTT(30), <1>2, <1>3, LiveWorld

\* The world an action leaves is the one it became.
LEMMA BecomeWorld ==
  ASSUME NEW v, Shaped(v), Become(v)
  PROVE  World' = v
BY DEF Shaped, Become, World

-----------------------------------------------------------------------------
(* What a chain may await.                                                 *)

\* What a chain may do once its checkpoint is durable, and the utterance it
\* then hands over.
Said(then) == IF then.do = "deliver" THEN then.say ELSE {}

Parting(then) ==
  \/ then \in {Done, Ready}
  \/ then.do = "deliver" /\ \E x : then.say \subseteq {x}

IsImage(m) == m = [f \in MemFields |-> m[f]]

ObserverJob(job) ==
  /\ job.at \in {"idle", "parsing", "milestone", "observed", "transition",
                 "checkpoint"}
  /\ job.at = "idle" => job = Idle
  /\ job.at = "milestone" => job = [at |-> "milestone", pass |-> job.pass]
  /\ job.at = "transition" => job.then.do = "pass"
  /\ job.at = "checkpoint" => job.then.do = "advance" /\ IsImage(job.image)

Continues(then) == \/ then.do = "judge"
                   \/ then.do = "save" /\ Parting(then.then)

ReplyJob(job) ==
  /\ job.at \in {"idle", "classify", "opening", "decided", "superseded",
                 "realized", "elapsed", "outcome", "transition", "checkpoint"}
  /\ job.at = "idle" => job = Idle
  /\ job.at = "decided" =>
       job = [at |-> "decided", opener |-> job.opener, turn |-> job.turn,
              attempt |-> job.attempt, decision |-> job.decision,
              cited |-> job.cited, short |-> job.short]
  /\ job.at = "realized" => job.event.type # "RUNTIME_CHECKPOINT"
  /\ job.at = "transition" => Continues(job.then)
  /\ job.at = "checkpoint" => Parting(job.then) /\ IsImage(job.image)
  /\ job.at = "outcome" => job.then \in {Done, Ready}

JobOK(p, job) == IF p = Observer THEN ObserverJob(job) ELSE ReplyJob(job)

Known(w) == Shaped(w) /\ \A q \in Chains : JobOK(q, w.proc[q])

\* The utterance that the chain awaiting `job` has under way: authorized by
\* it and not handed over yet.
Pending(then) == IF then.do = "save" THEN Said(then.then) ELSE {}

Carried(job) ==
  IF job.at = "checkpoint" THEN Said(job.then)
  ELSE IF job.at = "transition" THEN Pending(job.then)
  ELSE {}

\* The dispatch chain is done with the first event of its tail when it is
\* done, and no other chain touches it.
Dispatches(w, v, p) ==
  IF p = Dispatcher
  THEN v.queue = IF v.proc[p] = Idle THEN Tail(w.queue) ELSE w.queue
  ELSE v.queue = w.queue /\ v.proc[Dispatcher] = w.proc[Dispatcher]

\* v is w with chain p taken on, carrying `say`; the authorization is the
\* same, and nobody starts to speak.
Carrying(w, v, p, say) ==
  /\ Known(v)
  /\ v.live.speaking => w.live.speaking
  /\ v.live.authorized = w.live.authorized
  /\ Carried(v.proc[p]) = say
  /\ \A q \in Others(p) : Carried(v.proc[q]) = Carried(w.proc[q])
  /\ Dispatches(w, v, p)

\* Nothing about utterances differs.
Same(w, v) ==
  /\ Known(v) /\ v.queue = w.queue /\ v.proc[Dispatcher] = w.proc[Dispatcher]
  /\ v.live.speaking => w.live.speaking
  /\ v.live.authorized = w.live.authorized
  /\ \A q \in Chains : Carried(v.proc[q]) = Carried(w.proc[q])

\* The observation loop never has an utterance under way.
LEMMA ObserverCarriesNothing ==
  ASSUME NEW job, ObserverJob(job)
  PROVE  Carried(job) = {}
BY DEF ObserverJob, Carried, Said, Pending

\* A chain taken on from a world in which nothing about utterances changed.
LEMMA SameCarrying ==
  ASSUME NEW u, NEW w, NEW v, NEW p \in Chains, NEW say, Same(u, w),
         Carrying(w, v, p, say)
  PROVE  Carrying(u, v, p, say)
BY DEF Same, Carrying, Others, Dispatches

\* The observation loop carries nothing and touches no utterance.
LEMMA PassSame ==
  ASSUME NEW w, Known(w), NEW v, Passed(w, v) \/ Marked(w, v)
  PROVE  Same(w, v)
<1>0. Dispatcher \in Others(Observer)
  BY DEF Dispatcher, Observer, Others, Chains
<1>1. Shaped(v) /\ v.live.speaking = w.live.speaking
      /\ v.live.authorized = w.live.authorized
      /\ v.queue = w.queue /\ v.proc[Dispatcher] = w.proc[Dispatcher]
  BY <1>0 DEF Passed, Marked, Heard, LiveFields
<1>2. ASSUME NEW q \in Chains
      PROVE  JobOK(q, v.proc[q]) /\ Carried(v.proc[q]) = Carried(w.proc[q])
  <2>1. CASE v.proc[q] = w.proc[q]
    BY <2>1 DEF Known
  <2>2. CASE q = Observer /\ Passed(w, v)
    <3> DEFINE job == v.proc[Observer]
    <3>0. \/ job = Idle
          \/ job.at = "parsing"
          \/ \E n : job = [at |-> "milestone", pass |-> n]
          \/ \E n : job = [at |-> "observed", pass |-> n]
      BY <2>2 DEF Passed
    <3>1. ObserverJob(job)
      <4>1. CASE job = Idle
        BY <4>1 DEF ObserverJob, Idle
      <4>2. CASE job.at = "parsing"
        BY <4>2 DEF ObserverJob
      <4>3. CASE \E n : job = [at |-> "milestone", pass |-> n]
        BY <4>3 DEF ObserverJob
      <4>4. CASE \E n : job = [at |-> "observed", pass |-> n]
        BY <4>4 DEF ObserverJob
      <4> QED
        BY <3>0, <4>1, <4>2, <4>3, <4>4
    <3>2. ObserverJob(w.proc[q])
      BY <2>2 DEF Known, JobOK
    <3> QED
      BY <2>2, <3>1, <3>2, ObserverCarriesNothing DEF JobOK
  <2>3. CASE Marked(w, v)
    BY <2>1, <2>3 DEF Marked
  <2>4. CASE Passed(w, v) /\ q # Observer
    BY <2>1, <2>4 DEF Passed, Others
  <2> QED
    BY <2>2, <2>3, <2>4
<1> QED
  BY <1>1, <1>2 DEF Same, Known

\* Asking for an observation changes nothing about utterances.
LEMMA ScheduledSame ==
  ASSUME NEW w, Known(w), NEW v, v = ScheduleObservation(w)
  PROVE  Same(w, v)
BY ScheduledWorld, PassSame DEF Known

\* A chain that goes on to await the database.
LEMMA AwaitCarrying ==
  ASSUME NEW w, Known(w), NEW p \in Chains, NEW job, JobOK(p, job),
         job.at # "idle", NEW v, v = Await(w, p, job)
  PROVE  Carrying(w, v, p, Carried(job))
<1>1. Awaits(w, v, p, job)
  BY AwaitWorld DEF Known
<1>2. Dispatches(w, v, p)
  BY <1>1 DEF Awaits, Dispatches, Others, Chains, Idle
<1> QED
  BY <1>1, <1>2 DEF Awaits, Carrying, Known, Others

\* The same when it awaits something else.
LEMMA SuspendCarrying ==
  ASSUME NEW w, Known(w), NEW p \in Chains, NEW job, JobOK(p, job),
         job.at # "idle", NEW v, v = Suspend(w, p, job)
  PROVE  Carrying(w, v, p, Carried(job))
<1>1. /\ Shaped(v) /\ v.live = w.live /\ v.proc[p] = job
      /\ v.queue = w.queue
      /\ \A q \in Others(p) : v.proc[q] = w.proc[q]
  BY SuspendWorld DEF Known
<1>2. Dispatches(w, v, p)
  BY <1>1 DEF Dispatches, Others, Chains, Idle
<1> QED
  BY <1>1, <1>2 DEF Carrying, Known, Others

\* The same when it is done.
LEMMA FinishCarrying ==
  ASSUME NEW w, Known(w), NEW p \in Chains, NEW v, v = Finish(w, p)
  PROVE  Carrying(w, v, p, {}) /\ v.live = w.live
<1>1. /\ Shaped(v) /\ v.live = w.live /\ v.proc[p] = Idle
      /\ v.queue = IF p = Dispatcher THEN Tail(w.queue) ELSE w.queue
      /\ \A q \in Others(p) : v.proc[q] = w.proc[q]
  BY FinishWorld DEF Known
<1>2. JobOK(p, Idle) /\ Carried(Idle) = {}
  BY DEF JobOK, ObserverJob, ReplyJob, Carried, Idle
<1>3. Dispatches(w, v, p)
  BY <1>1 DEF Dispatches, Others, Chains
<1> QED
  BY <1>1, <1>2, <1>3 DEF Carrying, Known, Others

-----------------------------------------------------------------------------
(* The operators of the gate path, of a chain that is not the observer.    *)

\* A stage transition carries what its continuation has pending.
LEMMA ContinuesPending ==
  ASSUME NEW then, Continues(then), NEW p \in Others(Observer), NEW from, NEW to
  PROVE  LET job == [at |-> "transition", from |-> from, to |-> to, then |-> then]
         IN  JobOK(p, job) /\ Carried(job) = Pending(then) /\ job.at # "idle"
BY DEF JobOK, ReplyJob, Carried, Others

\* Judging carries nothing.
LEMMA JudgeCarrying ==
  ASSUME NEW w, Known(w), NEW p \in Others(Observer), NEW turn, NEW attempt,
         NEW timed, NEW c, NEW v, v = Judge(w, p, turn, attempt, timed, c)
  PROVE  Carrying(w, v, p, {})
<1>1. PICK job : /\ v = Await(w, p, job)
                 /\ \E decision, short :
                      job = [at |-> "decided", opener |-> FALSE, turn |-> turn,
                             attempt |-> attempt, decision |-> decision,
                             cited |-> w.mem.seen, short |-> short]
  BY DEF Judge
<1>2. JobOK(p, job) /\ Carried(job) = {} /\ job.at # "idle"
  BY <1>1 DEF JobOK, ReplyJob, Carried, Others
<1> QED
  BY <1>1, <1>2, AwaitCarrying DEF Others

\* A checkpoint carries what its chain says once it is durable.
LEMMA SaveCarrying ==
  ASSUME NEW w, Known(w), NEW p \in Others(Observer), NEW key, NEW then,
         Parting(then), NEW v, v = Save(w, p, key, then)
  PROVE  Carrying(w, v, p, Said(then))
<1>1. PICK job : job = [at |-> "checkpoint", image |-> w.mem, key |-> key,
                        then |-> then]
  OBVIOUS
<1>2. IsImage(job.image)
  BY <1>1 DEF Known, Shaped, IsImage
<1>3. JobOK(p, job) /\ Carried(job) = Said(then) /\ job.at # "idle"
  BY <1>1, <1>2 DEF JobOK, ReplyJob, Carried, Others
<1> QED
  BY <1>1, <1>3, AwaitCarrying DEF Save, Others

\* The next stage is one the contract allows.
LEMMA NextStageAllowed ==
  ASSUME NEW s, NEW to \in NextStage(s)
  PROVE  to \in AllowedTransitions[s.stage]
BY DEF NextStage, IsTransitionAllowed

\* u is w moved on to a stage, in memory only.
Staged(m, to) == [m EXCEPT !.stage = to, !.reasoning = 0]

Reaches(w, u, to) ==
  /\ Shaped(u) /\ u.mem = Staged(w.mem, to) /\ u.mem.stage = to
  /\ u.live = w.live /\ u.proc = w.proc /\ u.lane = w.lane /\ u.queue = w.queue

\* A world moved on to its next stage, in memory only.
LEMMA StageWorld ==
  ASSUME NEW w, Shaped(w), NEW to, NEW u, u = WithMem(w, Staged(w.mem, to))
  PROVE  Reaches(w, u, to)
<1>1. PICK m : m = Staged(w.mem, to)
  OBVIOUS
<1>2. m = [f \in MemFields |-> m[f]] /\ m.stage = to
  BY <1>1 DEF Shaped, MemFields, Staged
<1> QED
  BY <1>1, <1>2, MemWorld DEF Reaches

\* The four ways advanceStages goes on.
LEMMA AdvanceCases ==
  ASSUME NEW w, Shaped(w), NEW p, NEW then, NEW c, NEW v, v = Advance(w, p, then, c)
  PROVE  \/ \E to \in AllowedTransitions[w.mem.stage] : \E u :
              /\ Reaches(w, u, to)
              /\ v = Await(u, p, [at |-> "transition", from |-> w.mem.stage,
                                  to |-> to, then |-> then])
         \/ then.do = "judge" /\ v = Judge(w, p, then.turn, 0, w.live.timed, c)
         \/ then.do = "save" /\ v = Save(w, p, then.key, then.then)
         \/ then.do \notin {"judge", "save"} /\ v = NextPass(w)
<1>1. PICK next : next = UNION {NextStage(Signals(m)) : m \in {w.mem}}
  OBVIOUS
<1>2. CASE next # {}
  <2>1. PICK to : to = CHOOSE x \in next : TRUE
    OBVIOUS
  <2>2. to \in NextStage(Signals(w.mem))
    BY <1>1, <1>2, <2>1
  <2>3. to \in AllowedTransitions[w.mem.stage]
    BY <2>2, NextStageAllowed DEF Signals
  <2>4. PICK u : u = WithMem(w, Staged(w.mem, to))
    OBVIOUS
  <2>5. v = Await(u, p, [at |-> "transition", from |-> w.mem.stage, to |-> to,
                         then |-> then])
    BY <1>1, <1>2, <2>1, <2>4 DEF Advance, Staged
  <2>6. Reaches(w, u, to)
    BY <2>4, StageWorld
  <2> QED
    BY <2>3, <2>5, <2>6
<1>3. CASE next = {}
  BY <1>1, <1>3 DEF Advance
<1> QED
  BY <1>2, <1>3

\* advanceStages carries what its continuation has pending.
LEMMA AdvanceCarrying ==
  ASSUME NEW w, Known(w), NEW p \in Others(Observer), NEW then, Continues(then),
         NEW c, NEW v, v = Advance(w, p, then, c)
  PROVE  Carrying(w, v, p, Pending(then))
<1>0. Shaped(w)
  BY DEF Known
<1>1. ASSUME NEW to, NEW u, Reaches(w, u, to),
             v = Await(u, p, [at |-> "transition", from |-> w.mem.stage,
                              to |-> to, then |-> then])
      PROVE  Carrying(w, v, p, Pending(then))
  <2>1. PICK job : job = [at |-> "transition", from |-> w.mem.stage,
                          to |-> to, then |-> then]
    OBVIOUS
  <2>2. Same(w, u) /\ Known(u)
    BY <1>1 DEF Known, Same, Reaches
  <2>3. JobOK(p, job) /\ Carried(job) = Pending(then) /\ job.at # "idle"
    BY <2>1, ContinuesPending
  <2>4. Carrying(u, v, p, Pending(then))
    BY <1>1, <2>1, <2>2, <2>3, AwaitCarrying DEF Others
  <2> QED
    BY <2>2, <2>4, SameCarrying DEF Others
<1>2. CASE then.do = "judge" /\ v = Judge(w, p, then.turn, 0, w.live.timed, c)
  BY <1>2, JudgeCarrying DEF Pending
<1>3. CASE then.do = "save" /\ v = Save(w, p, then.key, then.then)
  BY <1>3, SaveCarrying DEF Pending, Continues
<1>4. then.do \in {"judge", "save"}
  BY DEF Continues
<1>5. \/ \E to \in AllowedTransitions[w.mem.stage] : \E u :
           /\ Reaches(w, u, to)
           /\ v = Await(u, p, [at |-> "transition", from |-> w.mem.stage,
                               to |-> to, then |-> then])
      \/ then.do = "judge" /\ v = Judge(w, p, then.turn, 0, w.live.timed, c)
      \/ then.do = "save" /\ v = Save(w, p, then.key, then.then)
  BY <1>0, <1>4, AdvanceCases
<1> QED
  BY <1>1, <1>2, <1>3, <1>5

\* What follows a judgement carries what the judgement said.
LEMMA AfterJudgeCarrying ==
  ASSUME NEW w, Known(w), NEW p \in Others(Observer), NEW job, NEW say,
         NEW x, say \subseteq {x}, NEW c, NEW v, v = AfterJudge(w, p, job, say, c)
  PROVE  Carrying(w, v, p, say)
<1>1. Parting(Deliver(say)) /\ Said(Deliver(say)) = say
  BY DEF Parting, Deliver, Said
<1>2. CASE p # Dispatcher
  <2>1. v = Save(w, p, <<"silence", job.turn.id, job.attempt>>, Deliver(say))
    BY <1>2 DEF AfterJudge
  <2> QED
    BY <1>1, <2>1, SaveCarrying
<1>3. CASE p = Dispatcher
  <2>1. PICK l, u, s, then :
          /\ l = [w.live EXCEPT !.names = @ \/ job.turn.names]
          /\ u = WithLive(w, l)
          /\ s = ScheduleObservation(u)
          /\ then = [do |-> "save", key |-> <<>>, then |-> Deliver(say)]
    OBVIOUS
  <2>2. v = Advance(s, p, then, c)
    BY <1>3, <2>1 DEF AfterJudge
  <2>3. /\ l = [f \in LiveFields |-> l[f]] /\ l.speaking = w.live.speaking
        /\ l.authorized = w.live.authorized
    BY <2>1 DEF Known, Shaped, LiveFields
  <2>4. Shaped(u) /\ u.live = l /\ u.proc = w.proc /\ u.queue = w.queue
    BY <2>1, <2>3, LiveWorld DEF Known
  <2>5. Same(w, u) /\ Known(u)
    BY <2>3, <2>4 DEF Known, Same
  <2>6. Same(u, s)
    BY <2>1, <2>5, ScheduledSame
  <2>7. Same(w, s)
    BY <2>5, <2>6 DEF Same
  <2>8. Continues(then) /\ Pending(then) = say
    BY <1>1, <2>1 DEF Continues, Pending
  <2>9. Carrying(s, v, p, say)
    BY <2>2, <2>7, <2>8, AdvanceCarrying DEF Same
  <2> QED
    BY <2>7, <2>9, SameCarrying DEF Others
<1> QED
  BY <1>2, <1>3

\* The window opens: p carries the utterance that is now the authorized one.
Authorizing(w, v, p, u) ==
  /\ Known(v) /\ v.live.authorized = {u} /\ Carried(v.proc[p]) = {u}
  /\ Dispatches(w, v, p)
  /\ \A q \in Others(p) : Carried(v.proc[q]) = Carried(w.proc[q])

\* Authorizing an utterance opens the window for it and carries it.
LEMMA AuthorizeAuthorizing ==
  ASSUME NEW w, Known(w), NEW p \in Others(Observer), NEW job, NEW u, NEW c,
         NEW v, v = Authorize(w, p, job, u, c)
  PROVE  Authorizing(w, v, p, u)
<1>1. PICK l : l = [w.live EXCEPT !.authorized = {u}, !.speaking = TRUE]
  OBVIOUS
<1>2. PICK open : open = WithLive(w, l)
  OBVIOUS
<1>3. /\ l = [f \in LiveFields |-> l[f]] /\ l.authorized = {u}
  BY <1>1 DEF Known, Shaped, LiveFields
<1>4. /\ Shaped(open) /\ open.live = l /\ open.proc = w.proc /\ open.mem = w.mem
      /\ open.queue = w.queue
  BY <1>2, <1>3, LiveWorld DEF Known
<1>5. Known(open)
  BY <1>4 DEF Known
<1>6. Parting(Deliver({u})) /\ Said(Deliver({u})) = {u}
  BY DEF Parting, Deliver, Said
<1>7. CASE job.opener
  <2>1. PICK then : then = [do |-> "save", key |-> <<"ready">>,
                            then |-> Deliver({u})]
    OBVIOUS
  <2>2. v = Advance(open, p, then, c)
    BY <1>1, <1>2, <1>7, <2>1 DEF Authorize
  <2>3. Continues(then) /\ Pending(then) = {u}
    BY <1>6, <2>1 DEF Continues, Pending
  <2>4. Carrying(open, v, p, {u})
    BY <1>5, <2>2, <2>3, AdvanceCarrying
  <2> QED
    BY <1>3, <1>4, <2>4 DEF Carrying, Authorizing, Dispatches
<1>8. CASE ~job.opener
  <2>1. PICK y : y = HeardOut(open)
    OBVIOUS
  <2>2. PICK k : k = [open.live EXCEPT !.timed = FALSE]
    OBVIOUS
  <2>3. PICK z : z = WithLive(y, k)
    OBVIOUS
  <2>4. v = AfterJudge(z, p, job, {u}, c)
    BY <1>1, <1>2, <1>8, <2>1, <2>2, <2>3 DEF Authorize
  <2>5. k = [f \in LiveFields |-> k[f]] /\ k.authorized = {u}
    BY <1>3, <1>4, <2>2 DEF Shaped, LiveFields
  <2>6. Shaped(y) /\ y.live = open.live /\ y.proc = w.proc /\ y.queue = w.queue
    BY <1>4, <2>1, HeardOutWorld
  <2>7. Shaped(z) /\ z.live = k /\ z.proc = w.proc /\ z.queue = w.queue
    BY <2>3, <2>5, <2>6, LiveWorld
  <2>8. Known(z)
    BY <2>7 DEF Known
  <2>9. Carrying(z, v, p, {u})
    BY <2>4, <2>8, AfterJudgeCarrying
  <2> QED
    BY <2>5, <2>7, <2>9 DEF Carrying, Authorizing, Dispatches
<1> QED
  BY <1>7, <1>8

\* What realize() appends before it authorizes an utterance, and what it has
\* changed in memory by then.
Tells(w, u, job, id, told) ==
  /\ Shaped(u) /\ u.live = w.live /\ u.proc = w.proc
  /\ u.lane = w.lane /\ u.queue = w.queue /\ u.mem.stage = w.mem.stage
  /\ told = [at |-> "realized", of |-> job, event |-> told.event,
             key |-> told.key, utterance |-> told.utterance]
  /\ told.event.type \in {"BRIEF_DELIVERED", "HINT_GIVEN", "FOLLOW_UP_PRESENTED",
                          "ANSWER_CLARIFICATION", "ASK_PROBE"}
  /\ \/ /\ told.key = <<"redeliver", w.mem.redeliveries + 1>>
        /\ job.decision.action = "DELIVER_BRIEF"
        /\ u.mem.redeliveries = w.mem.redeliveries + 1
        /\ u.mem.briefs = w.mem.briefs
     \/ /\ told.key = <<"brief", w.mem.briefs + 1>>
        /\ job.decision.action = "DELIVER_BRIEF"
        /\ u.mem.redeliveries = w.mem.redeliveries
        /\ u.mem.briefs = w.mem.briefs + 1
     \/ /\ told.key = id
        /\ job.decision.action # "DELIVER_BRIEF"
        /\ u.mem.redeliveries = w.mem.redeliveries
        /\ u.mem.briefs = w.mem.briefs

\* realize() appends the evidence of an utterance, or authorizes it at once.
LEMMA RealizeCases ==
  ASSUME NEW w, Shaped(w), NEW p, NEW job, NEW id, NEW c,
         NEW v, v = Realize(w, p, job, id, c)
  PROVE  \/ \E u, told : Tells(w, u, job, id, told) /\ v = Await(u, p, told)
         \/ \E x : v = Authorize(w, p, job, x, c)
<1>1. PICK d : d = job.decision
  OBVIOUS
<1> DEFINE Evidence == {"BRIEF_DELIVERED", "HINT_GIVEN", "FOLLOW_UP_PRESENTED",
                        "ANSWER_CLARIFICATION", "ASK_PROBE"}
           Changes(m, key) ==
             /\ m = [f \in MemFields |-> m[f]] /\ m.stage = w.mem.stage
             /\ \/ /\ key = <<"redeliver", w.mem.redeliveries + 1>>
                   /\ job.decision.action = "DELIVER_BRIEF"
                   /\ m.redeliveries = w.mem.redeliveries + 1
                   /\ m.briefs = w.mem.briefs
                \/ /\ key = <<"brief", w.mem.briefs + 1>>
                   /\ job.decision.action = "DELIVER_BRIEF"
                   /\ m.redeliveries = w.mem.redeliveries
                   /\ m.briefs = w.mem.briefs + 1
                \/ /\ key = id
                   /\ job.decision.action # "DELIVER_BRIEF"
                   /\ m.redeliveries = w.mem.redeliveries
                   /\ m.briefs = w.mem.briefs
<1>2. ASSUME NEW m, NEW u, NEW event, NEW key, NEW x, NEW told,
             Changes(m, key), event.type \in Evidence, u = WithMem(w, m),
             told = [at |-> "realized", of |-> job, event |-> event, key |-> key,
                     utterance |-> x]
      PROVE  Tells(w, u, job, id, told)
  <2>1. /\ Shaped(u) /\ u.mem = m /\ u.live = w.live /\ u.proc = w.proc
        /\ u.lane = w.lane /\ u.queue = w.queue
    BY <1>2, MemWorld
  <2>2. /\ told = [at |-> "realized", of |-> job, event |-> told.event,
                   key |-> told.key, utterance |-> told.utterance]
        /\ told.event = event /\ told.key = key
    BY <1>2
  <2> QED
    BY <1>2, <2>1, <2>2 DEF Tells
<1>3. CASE d.action = "DELIVER_BRIEF" /\ w.mem.redeliver
  <2>1. PICK m, u, event, told :
          /\ m = [w.mem EXCEPT !.redeliver = FALSE,
                               !.redeliveries = w.mem.redeliveries + 1]
          /\ u = WithMem(w, m)
          /\ event = [type |-> "BRIEF_DELIVERED", delivery |-> w.mem.briefs]
          /\ told = [at |-> "realized", of |-> job, event |-> event,
                     key |-> <<"redeliver", w.mem.redeliveries + 1>>,
                     utterance |-> Utterance(id, d, TRUE, job.cited)]
    OBVIOUS
  <2>2. v = Await(u, p, told)
    BY <1>1, <1>3, <2>1 DEF Realize
  <2>3. /\ m = [f \in MemFields |-> m[f]] /\ m.stage = w.mem.stage
        /\ m.briefs = w.mem.briefs /\ m.redeliveries = w.mem.redeliveries + 1
    BY <2>1 DEF Shaped, MemFields
  <2>4. Changes(m, <<"redeliver", w.mem.redeliveries + 1>>) /\ event.type \in Evidence
    BY <1>1, <1>3, <2>1, <2>3
  <2>5. Tells(w, u, job, id, told)
    BY <1>2, <2>1, <2>4
  <2> QED
    BY <2>2, <2>5
<1>4. CASE d.action = "DELIVER_BRIEF" /\ ~w.mem.redeliver
  <2>1. PICK m, u, event, told :
          /\ m = [w.mem EXCEPT !.briefs = w.mem.briefs + 1]
          /\ u = WithMem(w, m)
          /\ event = [type |-> "BRIEF_DELIVERED", delivery |-> w.mem.briefs + 1]
          /\ told = [at |-> "realized", of |-> job, event |-> event,
                     key |-> <<"brief", w.mem.briefs + 1>>,
                     utterance |-> Utterance(id, d, w.mem.briefs + 1 = 1, job.cited)]
    OBVIOUS
  <2>2. v = Await(u, p, told)
    BY <1>1, <1>4, <2>1 DEF Realize
  <2>3. /\ m = [f \in MemFields |-> m[f]] /\ m.stage = w.mem.stage
        /\ m.briefs = w.mem.briefs + 1 /\ m.redeliveries = w.mem.redeliveries
    BY <2>1 DEF Shaped, MemFields
  <2>4. Changes(m, <<"brief", w.mem.briefs + 1>>) /\ event.type \in Evidence
    BY <1>1, <1>4, <2>1, <2>3
  <2>5. Tells(w, u, job, id, told)
    BY <1>2, <2>1, <2>4
  <2> QED
    BY <2>2, <2>5
<1>5. CASE d.action \in {"GIVE_HINT_L1", "GIVE_HINT_L2"}
  <2>1. PICK m, u, event, told :
          /\ m = [w.mem EXCEPT !.hints = Append(w.mem.hints, d.level)]
          /\ u = WithMem(w, m)
          /\ event = [type |-> "HINT_GIVEN", level |-> d.level]
          /\ told = [at |-> "realized", of |-> job, event |-> event, key |-> id,
                     utterance |-> Utterance(id, d, FALSE, job.cited)]
    OBVIOUS
  <2>2. v = Await(u, p, told)
    BY <1>1, <1>5, <2>1 DEF Realize
  <2>3. /\ m = [f \in MemFields |-> m[f]] /\ m.stage = w.mem.stage
        /\ m.briefs = w.mem.briefs /\ m.redeliveries = w.mem.redeliveries
    BY <2>1 DEF Shaped, MemFields
  <2>4. Changes(m, id) /\ event.type \in Evidence
    BY <1>1, <1>5, <2>1, <2>3
  <2>5. Tells(w, u, job, id, told)
    BY <1>2, <2>1, <2>4
  <2> QED
    BY <2>2, <2>5
<1>6. CASE d.action = "PRESENT_FOLLOW_UP"
  <2>1. PICK m, u, event, told :
          /\ m = [w.mem EXCEPT !.followUps = w.mem.followUps + 1]
          /\ u = WithMem(w, m)
          /\ event = [type |-> "FOLLOW_UP_PRESENTED",
                      id |-> IF w.mem.followUps < FollowUpsAvailable
                             THEN w.mem.followUps + 1 ELSE FollowUpsAvailable]
          /\ told = [at |-> "realized", of |-> job, event |-> event, key |-> id,
                     utterance |-> Utterance(id, d, FALSE, job.cited)]
    OBVIOUS
  <2>2. v = Await(u, p, told)
    BY <1>1, <1>6, <2>1 DEF Realize
  <2>3. /\ m = [f \in MemFields |-> m[f]] /\ m.stage = w.mem.stage
        /\ m.briefs = w.mem.briefs /\ m.redeliveries = w.mem.redeliveries
    BY <2>1 DEF Shaped, MemFields
  <2>4. Changes(m, id) /\ event.type \in Evidence
    BY <1>1, <1>6, <2>1, <2>3
  <2>5. Tells(w, u, job, id, told)
    BY <1>2, <2>1, <2>4
  <2> QED
    BY <2>2, <2>5
<1>7. CASE d.action \in {"ANSWER_CLARIFICATION", "ASK_PROBE"}
  <2>1. PICK event, told :
          /\ event = [type |-> d.action]
          /\ told = [at |-> "realized", of |-> job, event |-> event, key |-> id,
                     utterance |-> Utterance(id, d, FALSE, job.cited)]
    OBVIOUS
  <2>2. v = Await(w, p, told)
    BY <1>1, <1>7, <2>1 DEF Realize
  <2>3. w = WithMem(w, w.mem)
    BY DEF Shaped, WithMem
  <2>4. Changes(w.mem, id) /\ event.type \in Evidence
    BY <1>1, <1>7, <2>1 DEF Shaped
  <2>5. Tells(w, w, job, id, told)
    BY <1>2, <2>1, <2>3, <2>4
  <2> QED
    BY <2>2, <2>5
<1>8. CASE d.action \notin {"DELIVER_BRIEF", "GIVE_HINT_L1", "GIVE_HINT_L2",
                            "PRESENT_FOLLOW_UP", "ANSWER_CLARIFICATION",
                            "ASK_PROBE"}
  <2>1. v = Authorize(w, p, job, Utterance(id, d, FALSE, job.cited), c)
    BY <1>1, <1>8 DEF Realize
  <2> QED
    BY <2>1
<1> QED
  BY <1>3, <1>4, <1>5, <1>6, <1>7, <1>8

\* realize() carries nothing yet, or opens the window.
LEMMA RealizeCarrying ==
  ASSUME NEW w, Known(w), NEW p \in Others(Observer), NEW job, NEW id, NEW c,
         NEW v, v = Realize(w, p, job, id, c)
  PROVE  Carrying(w, v, p, {}) \/ \E x : Authorizing(w, v, p, x)
<1>1. ASSUME NEW u, NEW told, Tells(w, u, job, id, told), v = Await(u, p, told)
      PROVE  Carrying(w, v, p, {})
  <2>1. Known(u) /\ Same(w, u)
    BY <1>1 DEF Tells, Known, Same
  <2>2. told.at = "realized"
    <3>1. told = [at |-> "realized", of |-> job, event |-> told.event,
                  key |-> told.key, utterance |-> told.utterance]
      BY <1>1 DEF Tells
    <3> QED
      BY <3>1
  <2>20. told.event.type # "RUNTIME_CHECKPOINT"
    BY <1>1 DEF Tells
  <2>3. JobOK(p, told) /\ Carried(told) = {} /\ told.at # "idle"
    BY <2>2, <2>20 DEF JobOK, ReplyJob, Carried, Others
  <2>4. Carrying(u, v, p, {})
    BY <1>1, <2>1, <2>3, AwaitCarrying DEF Others
  <2> QED
    BY <2>1, <2>4, SameCarrying DEF Others
<1>2. ASSUME NEW x, v = Authorize(w, p, job, x, c)
      PROVE  Authorizing(w, v, p, x)
  BY <1>2, AuthorizeAuthorizing
<1>3. \/ \E u, told : Tells(w, u, job, id, told) /\ v = Await(u, p, told)
      \/ \E x : v = Authorize(w, p, job, x, c)
  BY RealizeCases DEF Known
<1> QED
  BY <1>1, <1>2, <1>3

\* Closing an utterance carries nothing.
LEMMA CloseUtteranceCarrying ==
  ASSUME NEW w, Known(w), NEW p \in Others(Observer), NEW u, NEW heard, NEW then,
         then \in {Done, Ready}, NEW c,
         NEW v, v = CloseUtterance(w, p, u, heard, then, c)
  PROVE  Carrying(w, v, p, {})
<1>1. PICK m : m = [w.mem EXCEPT !.redeliver =
                      IF u.opening /\ heard THEN FALSE
                      ELSE @ \/ (/\ u.opening /\ ~heard
                                 /\ w.mem.redeliveries < MaxOpeningRedeliveries)]
  OBVIOUS
<1>2. PICK y, next : /\ y = WithMem(w, m)
                     /\ next = [do |-> "save", key |-> <<"finished", u.id>>,
                                then |-> then]
  OBVIOUS
<1>3. \/ v = Advance(y, p, next, c)
      \/ v = Save(y, p, <<"finished", u.id>>, then)
  BY <1>1, <1>2 DEF CloseUtterance
<1>4. m = [f \in MemFields |-> m[f]]
  BY <1>1 DEF Known, Shaped, MemFields
<1>5. Known(y) /\ Same(w, y)
  BY <1>2, <1>4, MemWorld DEF Known, Same
<1>6. Parting(then) /\ Said(then) = {} /\ Continues(next) /\ Pending(next) = {}
  BY <1>2 DEF Parting, Said, Done, Ready, Continues, Pending
<1>7. Carrying(y, v, p, {})
  BY <1>3, <1>5, <1>6, AdvanceCarrying, SaveCarrying
<1> QED
  BY <1>5, <1>7, SameCarrying DEF Others

\* The authorization ends, and with it the speaking.
LEMMA UnauthorizedWorld ==
  ASSUME NEW w, Shaped(w), NEW v, v = Unauthorize(w)
  PROVE  /\ Shaped(v) /\ v.mem = w.mem /\ v.proc = w.proc
         /\ v.lane = w.lane /\ v.queue = w.queue
         /\ v.live.speaking = FALSE /\ v.live.authorized = {}
         /\ \A f \in LiveFields \ {"speaking", "authorized"} :
              v.live[f] = w.live[f]
<1>1. PICK l : l = [w.live EXCEPT !.speaking = FALSE, !.authorized = {}]
  OBVIOUS
<1>2. /\ l = [f \in LiveFields |-> l[f]] /\ l.speaking = FALSE /\ l.authorized = {}
      /\ \A f \in LiveFields \ {"speaking", "authorized"} : l[f] = w.live[f]
  BY <1>1 DEF Shaped, LiveFields
<1>3. v = WithLive(w, l)
  BY <1>1 DEF Unauthorize
<1> QED
  BY <1>2, <1>3, LiveWorld

\* Stale grounding drops authorizations and touches nothing else.
LEMMA VoiceContextWorld ==
  ASSUME NEW w, Shaped(w), NEW aged, NEW v, v = VoiceContext(w, aged)
  PROVE  /\ Shaped(v) /\ v.mem = w.mem /\ v.proc = w.proc
         /\ v.lane = w.lane /\ v.queue = w.queue
         /\ v.live.authorized \subseteq w.live.authorized
         /\ \A f \in LiveFields \ {"authorized"} : v.live[f] = w.live[f]
<1>1. PICK l : l = [w.live EXCEPT !.authorized =
                      {u \in @ : ~Stale(w, u.grounded, u.cited, aged)}]
  OBVIOUS
<1>2. /\ l = [f \in LiveFields |-> l[f]] /\ l.authorized \subseteq w.live.authorized
      /\ \A f \in LiveFields \ {"authorized"} : l[f] = w.live[f]
  BY <1>1 DEF Shaped, LiveFields
<1>3. v = WithLive(w, l)
  BY <1>1 DEF VoiceContext
<1> QED
  BY <1>2, <1>3, LiveWorld

\* What an aborted chain leaves: it is done, and a timer's gives up the held
\* turn, the observer's goes on with what is pending.
LEMMA AbortCarrying ==
  ASSUME NEW w, Known(w), NEW p \in Chains, NEW v, v = Abort(w, p)
  PROVE  Carrying(w, v, p, {})
<1>1. PICK u, d : u = [w EXCEPT !.lane = RemoveFirst(w.lane, p)] /\ d = Finish(u, p)
  OBVIOUS
<1>2. v = IF p \in Timers THEN ClearHeldTurn(d)
          ELSE IF p = Observer THEN NextPass(d) ELSE d
  BY <1>1 DEF Abort
<1>3. Shaped(u) /\ u.mem = w.mem /\ u.live = w.live /\ u.proc = w.proc
      /\ u.queue = w.queue
  BY <1>1 DEF Known, Shaped
<1>4. Known(u) /\ Same(w, u)
  BY <1>3 DEF Known, Same
<1>5. Carrying(u, d, p, {}) /\ d.live = u.live
  BY <1>1, <1>4, FinishCarrying
<1>6. Carrying(w, d, p, {}) /\ Known(d)
  BY <1>4, <1>5, SameCarrying DEF Carrying
<1>7. ASSUME Same(d, v) PROVE Carrying(w, v, p, {})
  BY <1>6, <1>7 DEF Carrying, Same, Dispatches, Others
<1>8. CASE p \in Timers
  <2>1. Same(d, v)
    BY <1>2, <1>6, <1>8, ClearedWorld DEF Known, Same, LiveFields
  <2> QED
    BY <1>7, <2>1
<1>9. CASE p \notin Timers /\ p = Observer
  <2>1. Same(d, v)
    BY <1>2, <1>6, <1>9, NextPassWorld, PassSame DEF Known
  <2> QED
    BY <1>7, <2>1
<1> QED
  BY <1>2, <1>6, <1>8, <1>9

EventTypes ==
  {"CODE_DELTA", "RUN_REQUESTED", "RUN_COMPLETED", "SPEECH_STARTED",
   "SPEECH_STOPPED", "BARGE_IN", "SPEECH_FINAL", "SESSION_STARTED"}

\* No turn is held that was not, but that one held for the end of speech may
\* be held for the timer instead.
Reheld(l, m) ==
  \/ m.held \subseteq l.held /\ m.speakingHeld \subseteq l.speakingHeld
  \/ /\ m.speakingHeld = {}
     /\ \E h : h.turn \in l.speakingHeld /\ m.held = {h}

\* How applyCommitted goes on after each event: y is w with the event folded
\* in, in memory and fields other than the authorization.
Folded(w, y) ==
  /\ Shaped(y) /\ y.mem.stage = w.mem.stage
  /\ y.mem.briefs = w.mem.briefs /\ y.mem.redeliveries = w.mem.redeliveries
  /\ y.live.authorized = w.live.authorized
  /\ y.live.speaking => w.live.speaking
  /\ y.proc = w.proc /\ y.lane = w.lane /\ y.queue = w.queue
  /\ Reheld(w.live, y.live)

Rested == [do |-> "save", key |-> <<>>, then |-> Deliver({})]

\* How each event of the tail is ingested, up to the first await.
LEMMA ApplyCases ==
  ASSUME NEW w, Shaped(w), NEW e, e.type \in EventTypes, NEW c,
         NEW v, v = Apply(w, e, c)
  PROVE  \/ \E y : Folded(w, y) /\ v = Advance(y, Dispatcher, Rested, c)
         \/ \E y, z : /\ Folded(w, y) /\ z = ScheduleObservation(y)
                      /\ v = Advance(z, Dispatcher, Rested, c)
         \/ \E y, job : /\ e.type = "SPEECH_FINAL"
                        /\ Folded(w, y) /\ job = [at |-> "classify", turn |-> e.turn]
                        /\ y.live.held = {} /\ y.live.speakingHeld = {}
                        /\ v = Suspend(y, Dispatcher, job)
         \/ e.type = "SESSION_STARTED" /\ \E then :
              /\ then = [do |-> "save", key |-> <<"ready">>, then |-> Deliver({})]
              /\ v = Advance(w, Dispatcher, then, c)
         \/ e.type = "SESSION_STARTED" /\ \E job :
              /\ \E id, d : /\ d = Decide(Context(w, NoTurn, c)) /\ d # Silent
                            /\ job = [at |-> "opening", id |-> id, decision |-> d,
                                      cited |-> 0, opener |-> TRUE]
                            /\ \E n : id = <<"opening", n>>
              /\ v = Await(w, Dispatcher, job)
<1>0. Folded(w, w)
  BY DEF Folded, Reheld
<1>1. ASSUME NEW u, Folded(w, u), NEW m, m = [f \in MemFields |-> m[f]],
             m.stage = w.mem.stage, m.briefs = w.mem.briefs,
             m.redeliveries = w.mem.redeliveries
      PROVE  Folded(w, WithMem(u, m)) /\ WithMem(u, m).live = u.live
  BY <1>1, MemWorld DEF Folded
<1>2. ASSUME NEW u, Folded(w, u), NEW l, l = [f \in LiveFields |-> l[f]],
             l.speaking => u.live.speaking, l.authorized = w.live.authorized,
             Reheld(w.live, l)
      PROVE  Folded(w, WithLive(u, l)) /\ WithLive(u, l).live = l
  BY <1>2, LiveWorld DEF Folded
<1>3. CASE e.type = "CODE_DELTA"
  <2>1. PICK m, y : m = [w.mem EXCEPT !.rev = e.rev] /\ y = WithMem(w, m)
    OBVIOUS
  <2>2. /\ m = [f \in MemFields |-> m[f]] /\ m.stage = w.mem.stage
        /\ m.briefs = w.mem.briefs /\ m.redeliveries = w.mem.redeliveries
    BY <2>1 DEF Shaped, MemFields
  <2>3. Folded(w, y)
    BY <1>0, <1>1, <2>1, <2>2
  <2>4. \/ v = Advance(w, Dispatcher, Rested, c)
        \/ v = Advance(ScheduleObservation(y), Dispatcher, Rested, c)
    BY <1>3, <2>1 DEF Apply, Rested
  <2> QED
    BY <1>0, <2>3, <2>4
<1>4. CASE e.type = "RUN_REQUESTED"
  <2>1. PICK m, y : m = [w.mem EXCEPT !.runs = 1] /\ y = WithMem(w, m)
    OBVIOUS
  <2>2. /\ m = [f \in MemFields |-> m[f]] /\ m.stage = w.mem.stage
        /\ m.briefs = w.mem.briefs /\ m.redeliveries = w.mem.redeliveries
    BY <2>1 DEF Shaped, MemFields
  <2>3. Folded(w, y)
    BY <1>0, <1>1, <2>1, <2>2
  <2>4. v = Advance(y, Dispatcher, Rested, c)
    BY <1>4, <2>1 DEF Apply, Rested
  <2> QED
    BY <2>3, <2>4
<1>5. CASE e.type = "RUN_COMPLETED"
  <2>1. PICK m, y : m = [w.mem EXCEPT !.runs = 1] /\ y = WithMem(w, m)
    OBVIOUS
  <2>2. /\ m = [f \in MemFields |-> m[f]] /\ m.stage = w.mem.stage
        /\ m.briefs = w.mem.briefs /\ m.redeliveries = w.mem.redeliveries
    BY <2>1 DEF Shaped, MemFields
  <2>3. Folded(w, y) /\ y.live = w.live
    BY <1>0, <1>1, <2>1, <2>2
  <2>4. PICK l, z : l = [w.live EXCEPT !.runs = @ \/ e.pass] /\ z = WithLive(y, l)
    OBVIOUS
  <2>5. /\ l = [f \in LiveFields |-> l[f]]
        /\ l.speaking = w.live.speaking /\ l.authorized = w.live.authorized
        /\ l.held = w.live.held /\ l.speakingHeld = w.live.speakingHeld
    BY <2>4 DEF Shaped, LiveFields
  <2>6. Folded(w, z)
    BY ZenonT(30), <1>2, <2>3, <2>4, <2>5 DEF Reheld
  <2>7. v = Advance(ScheduleObservation(z), Dispatcher, Rested, c)
    BY <1>5, <2>1, <2>4 DEF Apply, Rested
  <2> QED
    BY <2>6, <2>7
<1>6. PICK free : free = ClearHeldTurn(w)
  OBVIOUS
<1>7. /\ Folded(w, free) /\ free.live.held = {} /\ free.live.speakingHeld = {}
      /\ free.live.speaking = w.live.speaking
  BY <1>6, ClearedWorld DEF Folded, LiveFields, Reheld
<1>8. CASE e.type = "SPEECH_STARTED"
  <2>1. PICK m, y : /\ m = [w.mem EXCEPT !.speechStarted = TRUE, !.stopped = FALSE]
                    /\ y = WithMem(free, m)
    OBVIOUS
  <2>2. /\ m = [f \in MemFields |-> m[f]] /\ m.stage = w.mem.stage
        /\ m.briefs = w.mem.briefs /\ m.redeliveries = w.mem.redeliveries
    BY <2>1 DEF Shaped, MemFields
  <2>3. Folded(w, y) /\ y.live = free.live
    BY <1>1, <1>7, <2>1, <2>2
  <2>4. PICK l, z : l = [free.live EXCEPT !.speakingNow = TRUE] /\ z = WithLive(y, l)
    OBVIOUS
  <2>5. /\ l = [f \in LiveFields |-> l[f]]
        /\ l.speaking = w.live.speaking /\ l.authorized = w.live.authorized
        /\ l.held = {} /\ l.speakingHeld = {}
    BY <1>7, <2>4 DEF Folded, Shaped, LiveFields
  <2>6. Folded(w, z)
    BY <1>2, <1>7, <2>3, <2>4, <2>5 DEF Reheld
  <2>7. v = Advance(z, Dispatcher, Rested, c)
    BY <1>6, <1>8, <2>1, <2>4 DEF Apply, Rested
  <2> QED
    BY <2>6, <2>7
<1>9. CASE e.type = "BARGE_IN"
  <2>1. PICK m, y : m = [w.mem EXCEPT !.speechStarted = TRUE] /\ y = WithMem(free, m)
    OBVIOUS
  <2>2. /\ m = [f \in MemFields |-> m[f]] /\ m.stage = w.mem.stage
        /\ m.briefs = w.mem.briefs /\ m.redeliveries = w.mem.redeliveries
    BY <2>1 DEF Shaped, MemFields
  <2>3. Folded(w, y) /\ y.live = free.live
    BY <1>1, <1>7, <2>1, <2>2
  <2>4. PICK l, z : /\ l = [free.live EXCEPT !.speaking = FALSE, !.timed = FALSE,
                                             !.speakingNow = TRUE]
                    /\ z = WithLive(y, l)
    OBVIOUS
  <2>5. /\ l = [f \in LiveFields |-> l[f]]
        /\ l.speaking = FALSE /\ l.authorized = w.live.authorized
        /\ l.held = {} /\ l.speakingHeld = {}
    BY <1>7, <2>4 DEF Folded, Shaped, LiveFields
  <2>6. Folded(w, z)
    BY <1>2, <2>3, <2>4, <2>5 DEF Reheld
  <2>7. v = Advance(z, Dispatcher, Rested, c)
    BY <1>6, <1>9, <2>1, <2>4 DEF Apply, Rested
  <2> QED
    BY <2>6, <2>7
<1>10. CASE e.type = "SPEECH_FINAL"
  <2>1. PICK l, y, job : /\ l = [free.live EXCEPT !.timed = w.mem.stopped]
                         /\ y = WithLive(free, l)
                         /\ job = [at |-> "classify", turn |-> e.turn]
    OBVIOUS
  <2>2. /\ l = [f \in LiveFields |-> l[f]] /\ l.held = {} /\ l.speakingHeld = {}
        /\ l.speaking = w.live.speaking /\ l.authorized = w.live.authorized
    BY <1>7, <2>1 DEF Folded, Shaped, LiveFields
  <2>3. Folded(w, WithLive(free, l)) /\ WithLive(free, l).live = l
    <3>1. l.speaking => free.live.speaking
      BY <1>7, <2>2
    <3> QED
      BY <1>2, <1>7, <2>2, <3>1 DEF Reheld
  <2>4. Folded(w, y) /\ y.live.held = {} /\ y.live.speakingHeld = {}
    BY <2>1, <2>2, <2>3
  <2>5. v = Suspend(y, Dispatcher, job)
    BY <1>6, <1>10, <2>1 DEF Apply
  <2>6. job = [at |-> "classify", turn |-> e.turn]
    BY <2>1
  <2> QED
    BY <1>10, <2>4, <2>5, <2>6
<1>11. CASE e.type = "SPEECH_STOPPED"
  <2>1. PICK m, y, quiet, promoted :
          /\ m = [w.mem EXCEPT !.stopped = TRUE] /\ y = WithMem(w, m)
          /\ quiet = [w.live EXCEPT !.speakingNow = FALSE, !.speakingHeld = {}]
          /\ promoted = {t \in w.live.speakingHeld : w.live.held = {}}
    OBVIOUS
  <2>2. /\ m = [f \in MemFields |-> m[f]] /\ m.stage = w.mem.stage
        /\ m.briefs = w.mem.briefs /\ m.redeliveries = w.mem.redeliveries
    BY <2>1 DEF Shaped, MemFields
  <2>3. Folded(w, y) /\ y.live = w.live
    BY <1>0, <1>1, <2>1, <2>2
  <2>4. /\ quiet = [f \in LiveFields |-> quiet[f]]
        /\ quiet.speaking = w.live.speaking /\ quiet.authorized = w.live.authorized
        /\ quiet.held = w.live.held /\ quiet.speakingHeld = {}
    BY <2>1 DEF Shaped, LiveFields
  <2>5. CASE promoted = {}
    <3>1. PICK z : z = WithLive(y, quiet)
      OBVIOUS
    <3>2. Folded(w, z)
      BY <1>2, <2>3, <2>4, <3>1 DEF Reheld
    <3>3. v = Advance(z, Dispatcher, Rested, c)
      BY <1>11, <2>1, <2>5, <3>1 DEF Apply, Rested
    <3> QED
      BY <3>2, <3>3
  <2>6. CASE promoted # {}
    <3>1. PICK l, z, held, x :
            /\ l = [quiet EXCEPT !.timed = TRUE] /\ z = WithLive(y, l)
            /\ held = [turn |-> CHOOSE t \in promoted : TRUE, attempt |-> 1,
                       wait |-> "brief"]
            /\ x = Hold(z, held)
      OBVIOUS
    <3>2. /\ l = [f \in LiveFields |-> l[f]]
          /\ l.speaking = w.live.speaking /\ l.authorized = w.live.authorized
          /\ l.held = w.live.held /\ l.speakingHeld = {}
      BY <2>4, <3>1 DEF LiveFields
    <3>3. Reheld(w.live, l) /\ (l.speaking => y.live.speaking)
      BY <2>3, <3>2 DEF Reheld
    <3>4. Folded(w, WithLive(y, l)) /\ WithLive(y, l).live = l
      BY <1>2, <2>3, <3>2, <3>3
    <3>5. Folded(w, z) /\ z.live = l
      BY <3>1, <3>4
    <3>6. /\ Shaped(x) /\ x.mem = z.mem /\ x.proc = z.proc /\ x.lane = z.lane
          /\ x.queue = z.queue /\ x.live.held = {held}
          /\ x.live.speakingHeld = {} /\ x.live.speaking = l.speaking
          /\ x.live.authorized = l.authorized
      <4>1. Shaped(z) /\ x = Hold(z, held)
        BY <3>1, <3>5 DEF Folded
      <4>2. /\ Shaped(x) /\ x.mem = z.mem /\ x.proc = z.proc /\ x.lane = z.lane
            /\ x.queue = z.queue /\ x.live.held = {held}
            /\ \A f \in LiveFields \ {"held", "leaked", "handle"} :
                 x.live[f] = z.live[f]
        BY <4>1, HeldWorld
      <4>3. {"speaking", "speakingHeld", "authorized"} \subseteq
              LiveFields \ {"held", "leaked", "handle"}
        BY DEF LiveFields
      <4> QED
        BY <3>2, <3>5, <4>2, <4>3
    <3>7. held.turn \in w.live.speakingHeld
      BY <2>1, <2>6, <3>1
    <3>8. Reheld(w.live, x.live)
      BY <3>6, <3>7 DEF Reheld
    <3>9. Folded(w, x)
      BY <3>2, <3>5, <3>6, <3>8 DEF Folded
    <3>10. v = Advance(x, Dispatcher, Rested, c)
      BY <1>11, <2>1, <2>6, <3>1 DEF Apply, Rested
    <3> QED
      BY <3>9, <3>10
  <2> QED
    BY <2>5, <2>6
<1>12. CASE e.type = "SESSION_STARTED"
  <2>1. PICK d, then, id :
          /\ d = Decide(Context(w, NoTurn, c))
          /\ then = [do |-> "save", key |-> <<"ready">>, then |-> Deliver({})]
          /\ id = IF w.mem.redeliver THEN <<"opening", w.mem.redeliveries + 1>>
                                     ELSE <<"opening", 0>>
    OBVIOUS
  <2>2. PICK job : job = [at |-> "opening", id |-> id, decision |-> d,
                          cited |-> 0, opener |-> TRUE]
    OBVIOUS
  <2>3. IF d = Silent THEN v = Advance(w, Dispatcher, then, c)
                      ELSE v = Await(w, Dispatcher, job)
    BY <1>12, <2>1, <2>2 DEF Apply
  <2>4. \E n : id = <<"opening", n>>
    BY <2>1
  <2> QED
    BY <1>12, <2>1, <2>2, <2>3, <2>4
<1> QED
  BY <1>3, <1>4, <1>5, <1>8, <1>9, <1>10, <1>11, <1>12 DEF EventTypes

\* Ingesting an event carries nothing.
LEMMA ApplyCarrying ==
  ASSUME NEW w, Known(w), NEW e, e.type \in EventTypes, NEW c,
         NEW v, v = Apply(w, e, c)
  PROVE  Carrying(w, v, Dispatcher, {})
<1>1. Dispatcher \in Others(Observer)
  BY DEF Dispatcher, Observer, Others, Chains
<1>2. ASSUME NEW y, Folded(w, y) PROVE Same(w, y) /\ Known(y)
  BY <1>2 DEF Folded, Same, Known
<1>3. ASSUME NEW y, Same(w, y), Known(y), NEW then,
             then.do = "save", then.then = Deliver({}),
             v = Advance(y, Dispatcher, then, c)
      PROVE  Carrying(w, v, Dispatcher, {})
  <2>1. Continues(then) /\ Pending(then) = {}
    BY <1>3 DEF Continues, Pending, Parting, Deliver, Said
  <2>2. Carrying(y, v, Dispatcher, {})
    BY <1>1, <1>3, <2>1, AdvanceCarrying
  <2> QED
    BY <1>1, <1>3, <2>2, SameCarrying DEF Others
<1>4. Rested.do = "save" /\ Rested.then = Deliver({})
  BY DEF Rested
<1>5. CASE \E y : Folded(w, y) /\ v = Advance(y, Dispatcher, Rested, c)
  BY <1>2, <1>3, <1>4, <1>5
<1>6. ASSUME NEW y, NEW z, Folded(w, y), z = ScheduleObservation(y),
             v = Advance(z, Dispatcher, Rested, c)
      PROVE  Carrying(w, v, Dispatcher, {})
  <2>1. Same(y, z) /\ Same(w, y)
    BY <1>2, <1>6, ScheduledSame
  <2>2. Same(w, z) /\ Known(z)
    BY <2>1 DEF Same
  <2> QED
    BY <1>3, <1>4, <1>6, <2>2
<1>7. ASSUME NEW y, NEW job, Folded(w, y), job = [at |-> "classify", turn |-> e.turn],
             v = Suspend(y, Dispatcher, job)
      PROVE  Carrying(w, v, Dispatcher, {})
  <2>1. JobOK(Dispatcher, job) /\ Carried(job) = {} /\ job.at # "idle"
    BY <1>1, <1>7 DEF JobOK, ReplyJob, Carried, Others
  <2>2. Carrying(y, v, Dispatcher, {})
    BY <1>1, <1>2, <1>7, <2>1, SuspendCarrying DEF Others
  <2> QED
    BY <1>1, <1>2, <1>7, <2>2, SameCarrying DEF Others
<1>8. ASSUME NEW then, then = [do |-> "save", key |-> <<"ready">>, then |-> Deliver({})],
             v = Advance(w, Dispatcher, then, c)
      PROVE  Carrying(w, v, Dispatcher, {})
  <2>1. Same(w, w)
    BY DEF Same
  <2> QED
    BY <1>3, <1>8, <2>1
<1>9. ASSUME NEW job, NEW id, NEW d,
             job = [at |-> "opening", id |-> id, decision |-> d, cited |-> 0,
                    opener |-> TRUE],
             v = Await(w, Dispatcher, job)
      PROVE  Carrying(w, v, Dispatcher, {})
  <2>1. JobOK(Dispatcher, job) /\ Carried(job) = {} /\ job.at # "idle"
    BY <1>1, <1>9 DEF JobOK, ReplyJob, Carried, Others
  <2> QED
    BY <1>1, <1>9, <2>1, AwaitCarrying DEF Others
<1>10. Shaped(w)
  BY DEF Known
<1>11. \/ \E y : Folded(w, y) /\ v = Advance(y, Dispatcher, Rested, c)
       \/ \E y, z : /\ Folded(w, y) /\ z = ScheduleObservation(y)
                    /\ v = Advance(z, Dispatcher, Rested, c)
       \/ \E y, job : /\ Folded(w, y) /\ job = [at |-> "classify", turn |-> e.turn]
                      /\ v = Suspend(y, Dispatcher, job)
       \/ \E then :
            /\ then = [do |-> "save", key |-> <<"ready">>, then |-> Deliver({})]
            /\ v = Advance(w, Dispatcher, then, c)
       \/ \E job, id, d : /\ job = [at |-> "opening", id |-> id, decision |-> d,
                                    cited |-> 0, opener |-> TRUE]
                          /\ v = Await(w, Dispatcher, job)
  BY <1>10, ApplyCases
<1> QED
  BY <1>5, <1>6, <1>7, <1>8, <1>9, <1>11

\* v is w after a judgement stayed silent: the turn may be held, in one of
\* the two places for it, and nothing else about the turn's chain differs.
Quieted(w, v, job) ==
  /\ Shaped(v) /\ v.proc = w.proc /\ v.lane = w.lane /\ v.queue = w.queue
  /\ \A f \in MemFields \ {"speechStarted"} : v.mem[f] = w.mem[f]
  /\ \A f \in LiveFields \ {"held", "speakingHeld", "leaked", "handle"} :
       v.live[f] = w.live[f]
  /\ \/ v.live.held = w.live.held /\ v.live.speakingHeld = w.live.speakingHeld
     \/ v.live.held = w.live.held /\ v.live.speakingHeld = {job.turn}
     \/ /\ v.live.speakingHeld = w.live.speakingHeld
        /\ \E h : h.turn = job.turn /\ v.live.held = {h}

\* What a judgement that stays silent makes of a world.
LEMMA StaySilentWorld ==
  ASSUME NEW w, Shaped(w), NEW job, NEW v, v = StaySilent(w, job)
  PROVE  Quieted(w, v, job)
<1>1. PICK quiet : quiet = HeardOut(w)
  OBVIOUS
<1>2. /\ Shaped(quiet) /\ quiet.live = w.live /\ quiet.proc = w.proc
      /\ quiet.lane = w.lane /\ quiet.queue = w.queue
      /\ \A f \in MemFields \ {"speechStarted"} : quiet.mem[f] = w.mem[f]
  BY <1>1, HeardOutWorld
<1>3. PICK l, held : /\ l = [w.live EXCEPT !.speakingHeld = {job.turn}]
                     /\ held = [turn |-> job.turn, attempt |-> job.attempt + 1,
                                wait |-> "full"]
  OBVIOUS
<1>4. /\ l = [f \in LiveFields |-> l[f]] /\ l.speakingHeld = {job.turn}
      /\ \A f \in LiveFields \ {"speakingHeld"} : l[f] = w.live[f]
  BY <1>3 DEF Shaped, LiveFields
<1>5. v = WithLive(quiet, l) \/ v = Hold(quiet, held) \/ v = quiet
  BY <1>1, <1>3 DEF StaySilent
<1>6. CASE v = WithLive(quiet, l)
  <2>1. /\ Shaped(v) /\ v.live = l /\ v.mem = quiet.mem /\ v.proc = quiet.proc
        /\ v.lane = quiet.lane /\ v.queue = quiet.queue
    BY <1>2, <1>4, <1>6, LiveWorld
  <2> QED
    BY <1>2, <1>4, <2>1 DEF LiveFields, Quieted
<1>7. CASE v = Hold(quiet, held)
  <2>1. held.turn = job.turn
    BY <1>3
  <2>2. /\ Shaped(v) /\ v.mem = quiet.mem /\ v.proc = quiet.proc
        /\ v.lane = quiet.lane /\ v.queue = quiet.queue /\ v.live.held = {held}
        /\ \A f \in LiveFields \ {"held", "leaked", "handle"} :
             v.live[f] = quiet.live[f]
    BY <1>2, <1>7, HeldWorld
  <2> QED
    BY <1>2, <2>1, <2>2 DEF LiveFields, Quieted
<1>8. CASE v = quiet
  BY <1>2, <1>8 DEF LiveFields, Quieted
<1> QED
  BY <1>5, <1>6, <1>7, <1>8

-----------------------------------------------------------------------------
(* The type invariant of a session.                                        *)

IsSeq(s) == \E S : s \in Seq(S)

QueueOK(q) ==
  /\ IsSeq(q)
  /\ \A i \in 1..Len(q) : /\ q[i].event.type \in EventTypes
                          /\ \A m \in q[i].before : IsImage(m)

LeftOK ==
  /\ left.setting \in SettingNames
  /\ left = [k \in Kinds \cup {"setting"} |-> left[k]]
  /\ \A k \in Kinds : left[k] \in Nat

RuntimeTyped ==
  /\ Known(World)
  /\ QueueOK(queue) /\ (proc[Dispatcher] # Idle => queue # <<>>)
  /\ IsImage(disk) /\ LeftOK

\* What is left of the tail when its first event is ingested.
LEMMA TailOK ==
  ASSUME NEW q, QueueOK(q), q # <<>>
  PROVE  QueueOK(Tail(q))
<1>1. PICK S : q \in Seq(S)
  BY DEF QueueOK, IsSeq
<1>2. Tail(q) \in Seq(S) /\ Len(Tail(q)) = Len(q) - 1 /\ Len(q) \in Nat
  BY <1>1
<1>3. ASSUME NEW i \in 1..Len(Tail(q))
      PROVE  Tail(q)[i] = q[i + 1] /\ i + 1 \in 1..Len(q)
  BY <1>1, <1>2
<1> QED
  BY <1>2, <1>3 DEF QueueOK, IsSeq

\* One more event on the tail.
LEMMA AppendOK ==
  ASSUME NEW q, QueueOK(q), NEW x, x.event.type \in EventTypes,
         \A m \in x.before : IsImage(m)
  PROVE  QueueOK(Append(q, x)) /\ Append(q, x) # <<>>
<1>1. PICK S : q \in Seq(S)
  BY DEF QueueOK, IsSeq
<1>2. PICK T : T = S \cup {x}
  OBVIOUS
<1>3. q \in Seq(T) /\ x \in T
  BY <1>1, <1>2
<1>4. Append(q, x) \in Seq(T) /\ Len(Append(q, x)) = Len(q) + 1 /\ Len(q) \in Nat
  BY <1>3
<1>5. ASSUME NEW i \in 1..Len(Append(q, x))
      PROVE  IF i = Len(q) + 1 THEN Append(q, x)[i] = x
             ELSE Append(q, x)[i] = q[i] /\ i \in 1..Len(q)
  BY <1>3, <1>4
<1>6. IsSeq(Append(q, x))
  BY <1>4 DEF IsSeq
<1>7. Append(q, x) # <<>>
  BY <1>4
<1> QED
  BY <1>4, <1>5, <1>6, <1>7 DEF QueueOK

\* The first event of a tail that is not empty.
LEMMA HeadOK ==
  ASSUME NEW q, QueueOK(q), q # <<>>
  PROVE  Head(q) = q[1] /\ Head(q).event.type \in EventTypes
         /\ \A m \in Head(q).before : IsImage(m)
<1>1. PICK S : q \in Seq(S)
  BY DEF QueueOK, IsSeq
<1>2. Head(q) = q[1] /\ 1 \in 1..Len(q)
  BY <1>1
<1> QED
  BY <1>2 DEF QueueOK

\* Whatever recovery folds into an image leaves an image.
LEMMA RestoredImage ==
  ASSUME NEW m, IsImage(m), NEW e, NEW n, n = RestoreEvent(m, e),
         e.type = "RUNTIME_CHECKPOINT" => IsImage(e.image)
  PROVE  IsImage(n)
<1>1. CASE e.type = "RUNTIME_CHECKPOINT"
  BY <1>1 DEF IsImage, RestoreEvent, MemFields
<1>2. CASE e.type = "CODE_DELTA"
  BY <1>2 DEF IsImage, RestoreEvent, MemFields
<1>3. CASE e.type = "RUN_REQUESTED"
  BY <1>3 DEF IsImage, RestoreEvent, MemFields
<1>4. CASE e.type = "RUN_COMPLETED"
  BY <1>4 DEF IsImage, RestoreEvent, MemFields
<1>5. CASE e.type = "SPEECH_STARTED"
  BY <1>5 DEF IsImage, RestoreEvent, MemFields
<1>6. CASE e.type = "SPEECH_STOPPED"
  BY <1>6 DEF IsImage, RestoreEvent, MemFields
<1>7. CASE e.type = "SPEECH_FINAL"
  BY <1>7 DEF IsImage, RestoreEvent, MemFields
<1>8. CASE e.type = "BARGE_IN"
  BY <1>8 DEF IsImage, RestoreEvent, MemFields
<1>9. CASE e.type = "STATE_TRANSITIONED"
  BY <1>9 DEF IsImage, RestoreEvent, MemFields
<1>10. CASE e.type = "ACTION_DECIDED"
  BY <1>10 DEF IsImage, RestoreEvent, MemFields
<1>11. CASE e.type = "BRIEF_DELIVERED"
  BY <1>11 DEF IsImage, RestoreEvent, MemFields
<1>12. CASE e.type = "HINT_GIVEN"
  BY <1>12 DEF IsImage, RestoreEvent, MemFields
<1>13. CASE e.type = "FOLLOW_UP_PRESENTED"
  BY <1>13 DEF IsImage, RestoreEvent, MemFields
<1>14. CASE e.type = "MILESTONE"
  BY <1>14 DEF IsImage, RestoreEvent, MemFields
<1>15. CASE e.type = "CANDIDATE_STATE_UPDATED"
  BY <1>15 DEF IsImage, RestoreEvent, MemFields
<1>16. CASE e.type \notin
                       {"RUNTIME_CHECKPOINT", "CODE_DELTA", "RUN_REQUESTED",
                        "RUN_COMPLETED", "SPEECH_STARTED", "SPEECH_STOPPED",
                        "SPEECH_FINAL", "BARGE_IN", "STATE_TRANSITIONED",
                        "ACTION_DECIDED", "BRIEF_DELIVERED", "HINT_GIVEN",
                        "FOLLOW_UP_PRESENTED", "MILESTONE", "CANDIDATE_STATE_UPDATED"}
  BY <1>16 DEF RestoreEvent
<1> QED
  BY <1>1, <1>2, <1>3, <1>4, <1>5, <1>6, <1>7, <1>8, <1>9, <1>10, <1>11, <1>12, <1>13, <1>14, <1>15, <1>16

\* An append leaves an image to recover.
LEMMA PutImage ==
  ASSUME IsImage(disk), NEW e, NEW key, Put(e, key),
         e.type = "RUNTIME_CHECKPOINT" => IsImage(e.image)
  PROVE  IsImage(disk')
BY RestoredImage DEF Put

\* The setting of a session starts it from an image.
LEMMA StartImage ==
  ASSUME NEW n \in SettingNames
  PROVE  IsImage(SettingOf(n).start) /\ SettingOf(n).limits \in [Kinds -> Nat]
<1>1. SettingOf(n).start \in Images /\ SettingOf(n).limits \in [Kinds -> Nat]
  BY RuntimeAssumption
<1> QED
  BY <1>1 DEF Images, IsImage, MemFields

\* Taking a chain on leaves a typed session.
LEMMA CarryingTyped ==
  ASSUME RuntimeTyped, NEW p \in Chains, NEW say, NEW v,
         Carrying(World, v, p, say) \/ Authorizing(World, v, p, say),
         Become(v), p = Dispatcher => queue # <<>>,
         IsImage(disk'), LeftOK'
  PROVE  RuntimeTyped' /\ World' = v
<1>1. Known(v) /\ Dispatches(World, v, p)
  BY DEF Carrying, Authorizing
<1>2. World' = v
  BY <1>1, BecomeWorld DEF Known
<1>3. v.queue = queue' /\ v.proc = proc' /\ World.queue = queue
      /\ World.proc = proc
  BY DEF World, Become
<1>4. QueueOK(queue')
  <2>1. queue' = queue \/ (queue' = Tail(queue) /\ p = Dispatcher)
    <3>1. CASE p = Dispatcher
      <4>1. v.queue = Tail(World.queue) \/ v.queue = World.queue
        BY <1>1, <3>1 DEF Dispatches
      <4>2. queue' = Tail(queue) \/ queue' = queue
        BY <1>3, <4>1
      <4> QED
        BY <3>1, <4>2
    <3>2. CASE p # Dispatcher
      <4>1. v.queue = World.queue
        BY <1>1, <3>2 DEF Dispatches
      <4>2. queue' = queue
        BY <1>3, <4>1
      <4> QED
        BY <4>2
    <3> QED
      BY <3>1, <3>2
  <2> QED
    BY <2>1, TailOK DEF RuntimeTyped
<1>5. proc'[Dispatcher] # Idle => queue' # <<>>
  BY <1>1, <1>2, <1>3 DEF Dispatches, RuntimeTyped
<1> QED
  BY <1>1, <1>2, <1>4, <1>5 DEF RuntimeTyped

\* A commit takes the chain off the lane.
LEMMA CommittedWorld ==
  ASSUME NEW p, Known(World), NEW w, w = Committed(p)
  PROVE  /\ Shaped(w) /\ w.mem = mem /\ w.live = live /\ w.proc = proc
         /\ w.queue = queue
         /\ w.lane = IF Head(lane) = p THEN Tail(lane) ELSE RemoveFirst(lane, p)
         /\ Known(w) /\ Same(World, w)
<1>1. /\ Shaped(w) /\ w.mem = mem /\ w.live = live /\ w.proc = proc
      /\ w.queue = queue
      /\ w.lane = IF Head(lane) = p THEN Tail(lane) ELSE RemoveFirst(lane, p)
  BY DEF Known, Shaped, Committed, World
<1>2. World.proc = proc /\ World.live = live /\ World.queue = queue
  BY DEF World
<1> QED
  BY <1>1, <1>2 DEF Known, Same

\* Of a chain that is somewhere only a reply can be.
LEMMA Replies ==
  ASSUME RuntimeTyped, NEW p \in Chains,
         proc[p].at \in {"classify", "opening", "decided", "superseded", "realized",
                         "elapsed", "outcome"}
  PROVE  /\ p \in Others(Observer) /\ ReplyJob(proc[p]) /\ Carried(proc[p]) = {}
         /\ p = Dispatcher => queue # <<>>
<1>1. JobOK(p, proc[p])
  BY DEF RuntimeTyped, Known, World
<1>2. p # Observer
  BY <1>1 DEF JobOK, ObserverJob
<1>3. proc[p] # Idle
  BY DEF Idle
<1> QED
  BY <1>1, <1>2, <1>3 DEF JobOK, Others, Carried, RuntimeTyped

-----------------------------------------------------------------------------
(* The steps of the process.                                               *)

\* A step that takes chain p on with what it carries, and one in which it
\* opens the window.
Steady == /\ page' = page
          /\ \E p \in Chains : /\ Carrying(World, World', p, Carried(proc[p]))
                               /\ p = Dispatcher => queue # <<>>

Opens == /\ page' = page
         /\ \E p \in Chains : /\ \E x : Authorizing(World, World', p, x)
                              /\ p = Dispatcher => queue # <<>>

\* The next event of the tail is ingested.
LEMMA ServeStep ==
  ASSUME RuntimeTyped, Serve
  PROVE  RuntimeTyped' /\ Steady
<1>1. PICK c \in Circumstances : Become(Apply(World, Head(queue).event, c))
  BY DEF Serve
<1>2. PICK v : v = Apply(World, Head(queue).event, c)
  OBVIOUS
<1>3. Head(queue).event.type \in EventTypes
  BY HeadOK DEF Serve, RuntimeTyped
<1>4. Carrying(World, v, Dispatcher, {})
  BY <1>2, <1>3, ApplyCarrying DEF RuntimeTyped
<1>5. Dispatcher \in Chains /\ Carried(proc[Dispatcher]) = {}
  BY DEF Chains, Serve, Carried, Idle
<1>6. IsImage(disk') /\ LeftOK' /\ page' = page /\ queue # <<>>
  BY DEF Serve, RuntimeTyped, LeftOK
<1>7. RuntimeTyped' /\ World' = v
  BY <1>1, <1>2, <1>4, <1>5, <1>6, CarryingTyped
<1> QED
  BY <1>4, <1>5, <1>6, <1>7 DEF Steady

\* The classifier answered for the turn that is ingested.
LEMMA ClassifiedStep ==
  ASSUME RuntimeTyped, Classified
  PROVE  RuntimeTyped' /\ Steady
<1> DEFINE turn == proc[Dispatcher].turn
<1>1. PICK told, then :
        /\ told = [mem EXCEPT !.reasoning = IF turn.intent \in ReasoningIntents
                                            THEN Saturate(@ + 1) ELSE @,
                              !.approach = @ \/ turn.intent = "APPROACH_COMMITMENT"]
        /\ then = [do |-> "judge", turn |-> turn]
  OBVIOUS
<1>2. PICK c \in Circumstances :
        Become(Advance(WithMem(World, told), Dispatcher, then, c))
  BY <1>1 DEF Classified
<1>3. PICK y, v : y = WithMem(World, told) /\ v = Advance(y, Dispatcher, then, c)
  OBVIOUS
<1>4. World.mem = mem /\ World.proc = proc /\ World.live = live /\ World.queue = queue
  BY DEF World
<1>5. told = [f \in MemFields |-> told[f]]
  BY <1>1, <1>4 DEF RuntimeTyped, Known, Shaped, MemFields
<1>6. Known(y) /\ Same(World, y)
  BY <1>3, <1>5, MemWorld DEF RuntimeTyped, Known, Same
<1>7. Continues(then) /\ Pending(then) = {}
  <2>1. then.do = "judge"
    BY <1>1
  <2> QED
    BY <2>1 DEF Continues, Pending
<1>8. /\ Dispatcher \in Others(Observer) /\ Carried(proc[Dispatcher]) = {}
      /\ queue # <<>>
  <2>1. Dispatcher \in Chains /\ proc[Dispatcher].at = "classify"
    BY DEF Chains, Classified
  <2> QED
    BY <2>1, Replies
<1>9. Carrying(y, v, Dispatcher, {})
  BY <1>3, <1>6, <1>7, <1>8, AdvanceCarrying
<1>10. Carrying(World, v, Dispatcher, {})
  BY <1>6, <1>8, <1>9, SameCarrying DEF Others
<1>11. IsImage(disk') /\ LeftOK' /\ page' = page
  BY DEF Classified, RuntimeTyped, LeftOK
<1>12. RuntimeTyped' /\ World' = v
  BY <1>2, <1>3, <1>8, <1>10, <1>11, CarryingTyped DEF Others
<1> QED
  BY <1>8, <1>10, <1>11, <1>12 DEF Steady, Others

\* The observer moved on to a stage, or to its next pass.
LEMMA AdvanceObserver ==
  ASSUME NEW w, Known(w), NEW then, then.do = "pass", NEW c,
         NEW v, v = Advance(w, Observer, then, c)
  PROVE  Carrying(w, v, Observer, {})
<1>1. Observer \in Chains /\ Observer # Dispatcher /\ Dispatcher \in Others(Observer)
  BY DEF Chains, Observer, Dispatcher, Others
<1>2. ASSUME NEW to, NEW u, Reaches(w, u, to),
             v = Await(u, Observer, [at |-> "transition", from |-> w.mem.stage,
                                     to |-> to, then |-> then])
      PROVE  Carrying(w, v, Observer, {})
  <2>1. PICK job : job = [at |-> "transition", from |-> w.mem.stage,
                          to |-> to, then |-> then]
    OBVIOUS
  <2>2. Same(w, u) /\ Known(u)
    BY <1>2 DEF Known, Same, Reaches
  <2>3. JobOK(Observer, job) /\ Carried(job) = {} /\ job.at # "idle"
    BY <2>1 DEF JobOK, ObserverJob, Carried, Pending
  <2>4. Carrying(u, v, Observer, {})
    BY <1>1, <1>2, <2>1, <2>2, <2>3, AwaitCarrying
  <2> QED
    BY <1>1, <2>2, <2>4, SameCarrying
<1>3. CASE v = NextPass(w)
  <2>1. Passed(w, v)
    BY <1>3, NextPassWorld DEF Known
  <2>2. Same(w, v)
    BY <2>1, PassSame
  <2>3. Carried(v.proc[Observer]) = {}
    BY <1>1, <2>2, ObserverCarriesNothing DEF Same, Known, JobOK
  <2> QED
    BY <1>1, <2>2, <2>3 DEF Same, Carrying, Dispatches, Others
<1>4. then.do \notin {"judge", "save"} /\ Shaped(w)
  BY DEF Known
<1>5. \/ \E to \in AllowedTransitions[w.mem.stage] : \E u :
           /\ Reaches(w, u, to)
           /\ v = Await(u, Observer, [at |-> "transition", from |-> w.mem.stage,
                                      to |-> to, then |-> then])
      \/ v = NextPass(w)
  BY <1>4, AdvanceCases
<1> QED
  BY <1>2, <1>3, <1>5

\* What a chain does after its transition.
LEMMA TransitionedStep ==
  ASSUME RuntimeTyped, NEW p \in Chains, Transitioned(p)
  PROVE  /\ RuntimeTyped' /\ page' = page
         /\ \/ Steady
            \/ row # proc[p].from /\ Carrying(World, World', p, {})
<1>1. /\ proc[p].at = "transition" /\ JobOK(p, proc[p]) /\ Known(World)
      /\ page' = page /\ LeftOK' /\ proc[p] # Idle
  BY DEF Transitioned, MayCommit, RuntimeTyped, Known, World, LeftOK, Idle
<1>2. p = Dispatcher => queue # <<>>
  BY <1>1 DEF RuntimeTyped
<1>3. CASE row = proc[p].from
  <2>1. PICK c \in Circumstances : Become(Advance(Committed(p), p, proc[p].then, c))
    BY <1>3 DEF Transitioned
  <2>2. PICK w, v : w = Committed(p) /\ v = Advance(w, p, proc[p].then, c)
    OBVIOUS
  <2>3. Known(w) /\ Same(World, w)
    BY <1>1, <2>2, CommittedWorld
  <2>4. Carrying(w, v, p, Carried(proc[p]))
    <3>1. CASE p = Observer
      <4>1. proc[p].then.do = "pass" /\ Carried(proc[p]) = {}
        BY <1>1, <3>1, ObserverCarriesNothing DEF JobOK, ObserverJob
      <4> QED
        BY <2>2, <2>3, <3>1, <4>1, AdvanceObserver
    <3>2. CASE p # Observer
      <4>1. Continues(proc[p].then) /\ Carried(proc[p]) = Pending(proc[p].then)
        BY <1>1, <3>2 DEF JobOK, ReplyJob, Carried
      <4> QED
        BY <2>2, <2>3, <3>2, <4>1, AdvanceCarrying DEF Others
    <3> QED
      BY <3>1, <3>2
  <2>5. Carrying(World, v, p, Carried(proc[p]))
    BY <2>3, <2>4, SameCarrying
  <2>6. IsImage(disk')
    <3>1. PICK e : /\ e = [type |-> "STATE_TRANSITIONED", to |-> proc[p].to]
                   /\ Put(e, <<"stage", proc[p].to>>)
      BY <1>3 DEF Transitioned
    <3>2. e.type # "RUNTIME_CHECKPOINT"
      BY <3>1
    <3> QED
      BY <3>1, <3>2, PutImage DEF RuntimeTyped
  <2>7. RuntimeTyped' /\ World' = v
    BY <1>1, <1>2, <2>1, <2>2, <2>5, <2>6, CarryingTyped
  <2>8. Steady
    BY <1>1, <1>2, <2>5, <2>7 DEF Steady
  <2> QED
    BY <1>1, <2>7, <2>8
<1>4. CASE row # proc[p].from
  <2>1. PICK v : v = Abort(World, p)
    OBVIOUS
  <2>2. Become(v) /\ disk' = disk
    BY <1>4, <2>1 DEF Transitioned
  <2>3. Carrying(World, v, p, {})
    BY <1>1, <2>1, AbortCarrying
  <2>4. RuntimeTyped' /\ World' = v
    BY <1>1, <1>2, <2>2, <2>3, CarryingTyped DEF RuntimeTyped
  <2> QED
    BY <1>1, <1>4, <2>3, <2>4
<1> QED
  BY <1>3, <1>4

\* A step of a reply chain whose effect on its committed world is known.
LEMMA ReplyStep ==
  ASSUME RuntimeTyped, NEW p \in Chains,
         proc[p].at \in {"opening", "decided", "superseded", "realized", "elapsed",
                         "outcome"},
         NEW w, w = Committed(p), NEW v, Become(v), Unmoved, NEW say,
         Carrying(w, v, p, {}) \/ Authorizing(w, v, p, say),
         NEW e, NEW key, Put(e, key), e.type # "RUNTIME_CHECKPOINT"
  PROVE  RuntimeTyped' /\ (Steady \/ Opens)
<1>1. /\ p \in Others(Observer) /\ Carried(proc[p]) = {}
      /\ p = Dispatcher => queue # <<>>
  BY Replies
<1>2. Known(w) /\ Same(World, w)
  BY CommittedWorld DEF RuntimeTyped
<1>3. Carrying(World, v, p, {}) \/ Authorizing(World, v, p, say)
  <2>1. CASE Carrying(w, v, p, {})
    BY <1>2, <2>1, SameCarrying
  <2>2. CASE Authorizing(w, v, p, say)
    BY <1>2, <2>2 DEF Authorizing, Same, Dispatches, Others
  <2> QED
    BY <2>1, <2>2
<1>4. IsImage(disk') /\ LeftOK' /\ page' = page
  BY PutImage DEF RuntimeTyped, Unmoved, LeftOK
<1>5. RuntimeTyped' /\ World' = v
  BY <1>1, <1>3, <1>4, CarryingTyped
<1> QED
  BY <1>1, <1>3, <1>4, <1>5 DEF Steady, Opens

\* The opening's decision is on record.
LEMMA OpenedStep ==
  ASSUME RuntimeTyped, NEW p \in Chains, Opened(p)
  PROVE  RuntimeTyped' /\ (Steady \/ Opens)
<1>1. proc[p].at = "opening" /\ Unmoved /\ Known(World)
  BY DEF Opened, MayCommit, RuntimeTyped
<1>2. PICK c \in Circumstances :
        Become(Realize(Committed(p), p, proc[p], proc[p].id, c))
  BY DEF Opened
<1>3. PICK w, v : w = Committed(p) /\ v = Realize(w, p, proc[p], proc[p].id, c)
  OBVIOUS
<1>4. Known(w) /\ p \in Others(Observer)
  BY <1>1, <1>3, CommittedWorld, Replies
<1>5. PICK x : Carrying(w, v, p, {}) \/ Authorizing(w, v, p, x)
  BY <1>3, <1>4, RealizeCarrying
<1>6. PICK e : e.type = "ACTION_DECIDED" /\ Put(e, proc[p].id)
  BY DEF Opened
<1>7. proc[p].at \in {"opening", "decided", "superseded", "realized", "elapsed",
                      "outcome"} /\ e.type # "RUNTIME_CHECKPOINT" /\ Become(v)
  BY <1>1, <1>2, <1>3, <1>6
<1> QED
  BY <1>1, <1>3, <1>5, <1>6, <1>7, ReplyStep

\* A judgement is on record: silence, a rejection, or speech.
LEMMA DecidedStep ==
  ASSUME RuntimeTyped, NEW p \in Chains, Decided(p)
  PROVE  RuntimeTyped' /\ (Steady \/ Opens)
<1> DEFINE job == proc[p]
<1>1. job.at = "decided" /\ Unmoved /\ Known(World)
  BY DEF Decided, MayCommit, RuntimeTyped
<1>2. PICK w : w = Committed(p)
  OBVIOUS
<1>3. Known(w) /\ p \in Others(Observer) /\ ReplyJob(job)
  BY <1>1, <1>2, CommittedWorld, Replies
<1>4. PICK c \in Circumstances : \E v :
        /\ Become(v)
        /\ v = IF job.decision = Silent
               THEN AfterJudge(StaySilent(w, job), p, job, {}, c)
               ELSE IF Stale(w, job.decision.grounded, job.cited, c.aged)
               THEN Await(w, p, [job EXCEPT !.at = "superseded"])
               ELSE Realize(w, p, job, <<"turn", job.turn.id>>, c)
  BY <1>2 DEF Decided
<1>40. PICK v :
        /\ Become(v)
        /\ v = IF job.decision = Silent
               THEN AfterJudge(StaySilent(w, job), p, job, {}, c)
               ELSE IF Stale(w, job.decision.grounded, job.cited, c.aged)
               THEN Await(w, p, [job EXCEPT !.at = "superseded"])
               ELSE Realize(w, p, job, <<"turn", job.turn.id>>, c)
  BY <1>4
<1>5. ASSUME v = AfterJudge(StaySilent(w, job), p, job, {}, c)
      PROVE  Carrying(w, v, p, {})
  <2>1. PICK s : s = StaySilent(w, job)
    OBVIOUS
  <2>19. Shaped(w)
    BY <1>3 DEF Known
  <2>20. Quieted(w, s, job)
    BY <2>1, <2>19, StaySilentWorld
  <2>2. s.live.speaking = w.live.speaking /\ s.live.authorized = w.live.authorized
    BY <2>20 DEF LiveFields, Quieted
  <2>3. Same(w, s) /\ Known(s)
    BY <1>3, <2>2, <2>20 DEF Same, Known, Quieted
  <2>4. Carrying(s, v, p, {})
    BY <1>3, <1>5, <2>1, <2>3, AfterJudgeCarrying
  <2> QED
    BY <1>3, <2>3, <2>4, SameCarrying DEF Others
<1>6. ASSUME v = Await(w, p, [job EXCEPT !.at = "superseded"])
      PROVE  Carrying(w, v, p, {})
  <2>1. PICK next : next = [job EXCEPT !.at = "superseded"]
    OBVIOUS
  <2>2. next.at = "superseded"
    BY <1>1, <1>3, <2>1 DEF ReplyJob
  <2>3. JobOK(p, next) /\ Carried(next) = {} /\ next.at # "idle"
    BY <1>3, <2>2 DEF JobOK, ReplyJob, Carried, Others
  <2> QED
    BY <1>3, <1>6, <2>1, <2>3, AwaitCarrying DEF Others
<1>7. ASSUME v = Realize(w, p, job, <<"turn", job.turn.id>>, c)
      PROVE  Carrying(w, v, p, {}) \/ \E x : Authorizing(w, v, p, x)
  BY <1>3, <1>7, RealizeCarrying
<1>8. PICK x : Carrying(w, v, p, {}) \/ Authorizing(w, v, p, x)
  BY <1>40, <1>5, <1>6, <1>7
<1>9. PICK e : e.type = "ACTION_DECIDED" /\ Put(e, <<>>)
  BY DEF Decided
<1>10. job.at \in {"opening", "decided", "superseded", "realized", "elapsed",
                   "outcome"} /\ e.type # "RUNTIME_CHECKPOINT"
  BY <1>1, <1>9
<1> QED
  BY <1>1, <1>2, <1>40, <1>8, <1>9, <1>10, ReplyStep

\* A freshness rejection is on record.
LEMMA SupersededStep ==
  ASSUME RuntimeTyped, NEW p \in Chains, Superseded(p)
  PROVE  RuntimeTyped' /\ (Steady \/ Opens)
<1>1. proc[p].at = "superseded" /\ Unmoved /\ Known(World)
  BY DEF Superseded, MayCommit, RuntimeTyped
<1>2. PICK c \in Circumstances :
        Become(AfterJudge(HeardOut(Committed(p)), p, proc[p], {}, c))
  BY DEF Superseded
<1>3. PICK w, s, v : /\ w = Committed(p) /\ s = HeardOut(w)
                     /\ v = AfterJudge(s, p, proc[p], {}, c)
  OBVIOUS
<1>4. Known(w) /\ p \in Others(Observer)
  BY <1>1, <1>3, CommittedWorld, Replies
<1>5. Same(w, s) /\ Known(s)
  BY <1>3, <1>4, HeardOutWorld DEF Same, Known
<1>6. Carrying(w, v, p, {})
  <2>1. Carrying(s, v, p, {})
    BY <1>3, <1>4, <1>5, AfterJudgeCarrying
  <2> QED
    BY <1>4, <1>5, <2>1, SameCarrying DEF Others
<1>7. PICK e : e.type = "ACTION_DECIDED" /\ Put(e, <<>>)
  BY DEF Superseded
<1>8. proc[p].at \in {"opening", "decided", "superseded", "realized", "elapsed",
                      "outcome"} /\ e.type # "RUNTIME_CHECKPOINT" /\ Become(v)
  BY <1>1, <1>2, <1>3, <1>7
<1> QED
  BY <1>1, <1>3, <1>6, <1>7, <1>8, ReplyStep

\* The evidence of an utterance is on record, and the window opens.
LEMMA RealizedStep ==
  ASSUME RuntimeTyped, NEW p \in Chains, Realized(p)
  PROVE  RuntimeTyped' /\ (Steady \/ Opens)
<1>1. proc[p].at = "realized" /\ Unmoved /\ Known(World)
  BY DEF Realized, MayCommit, RuntimeTyped
<1>2. PICK c \in Circumstances :
        Become(Authorize(Committed(p), p, proc[p].of, proc[p].utterance, c))
  BY DEF Realized
<1>3. PICK w, v : /\ w = Committed(p)
                  /\ v = Authorize(w, p, proc[p].of, proc[p].utterance, c)
  OBVIOUS
<1>4. Known(w) /\ p \in Others(Observer) /\ ReplyJob(proc[p])
  BY <1>1, <1>3, CommittedWorld, Replies
<1>5. Authorizing(w, v, p, proc[p].utterance)
  BY <1>3, <1>4, AuthorizeAuthorizing
<1>6. Put(proc[p].event, proc[p].key) /\ proc[p].event.type # "RUNTIME_CHECKPOINT"
  BY <1>1, <1>4 DEF Realized, ReplyJob
<1>7. proc[p].at \in {"opening", "decided", "superseded", "realized", "elapsed",
                      "outcome"} /\ Become(v)
  BY <1>1, <1>2, <1>3
<1> QED
  BY <1>1, <1>3, <1>5, <1>6, <1>7, ReplyStep

\* The silence was recorded: whatever turn is held by now is judged.
LEMMA ElapsedStep ==
  ASSUME RuntimeTyped, NEW p \in Chains, Elapsed(p)
  PROVE  RuntimeTyped' /\ (Steady \/ Opens)
<1>1. proc[p].at = "elapsed" /\ Unmoved /\ Known(World)
  BY DEF Elapsed, MayCommit, RuntimeTyped
<1>2. PICK w : w = Committed(p)
  OBVIOUS
<1>3. Known(w) /\ p \in Others(Observer) /\ Shaped(w)
  BY <1>1, <1>2, CommittedWorld, Replies
<1>4. PICK key : \/ Become(Save(w, p, key, Deliver({})))
                 \/ \E h, c, timed :
                      Become(Judge(ClearHeldTurn(w), p, h.turn, h.attempt, timed, c))
  BY <1>2 DEF Elapsed
<1>5. \E v : Become(v) /\ Carrying(w, v, p, {})
  <2>1. CASE Become(Save(w, p, key, Deliver({})))
    <3>1. PICK v : v = Save(w, p, key, Deliver({}))
      OBVIOUS
    <3>2. Parting(Deliver({})) /\ Said(Deliver({})) = {}
      BY DEF Parting, Deliver, Said
    <3>3. Carrying(w, v, p, {})
      BY <1>3, <3>1, <3>2, SaveCarrying
    <3> QED
      BY <2>1, <3>1, <3>3
  <2>2. ASSUME NEW h, NEW c, NEW timed,
               Become(Judge(ClearHeldTurn(w), p, h.turn, h.attempt, timed, c))
        PROVE  \E v : Become(v) /\ Carrying(w, v, p, {})
    <3>1. PICK s, v : /\ s = ClearHeldTurn(w)
                      /\ v = Judge(s, p, h.turn, h.attempt, timed, c)
      OBVIOUS
    <3>2. /\ Shaped(s) /\ s.proc = w.proc /\ s.queue = w.queue
          /\ s.live.speaking = w.live.speaking
          /\ s.live.authorized = w.live.authorized
      BY <1>3, <3>1, ClearedWorld DEF LiveFields
    <3>3. Same(w, s) /\ Known(s)
      BY <1>3, <3>2 DEF Same, Known
    <3>4. Carrying(s, v, p, {})
      BY <1>3, <3>1, <3>3, JudgeCarrying
    <3>5. Carrying(w, v, p, {})
      BY <1>3, <3>3, <3>4, SameCarrying DEF Others
    <3> QED
      BY <2>2, <3>1, <3>5
  <2> QED
    BY <1>4, <2>1, <2>2
<1>6. PICK v : Become(v) /\ Carrying(w, v, p, {})
  BY <1>5
<1>7. PICK e : e.type = "SILENCE_ELAPSED" /\ Put(e, <<>>)
  BY DEF Elapsed
<1>8. proc[p].at \in {"opening", "decided", "superseded", "realized", "elapsed",
                      "outcome"} /\ e.type # "RUNTIME_CHECKPOINT"
  BY <1>1, <1>7
<1> QED
  BY <1>1, <1>2, <1>6, <1>7, <1>8, ReplyStep

\* How an utterance ended is on record.
LEMMA OutcomeStep ==
  ASSUME RuntimeTyped, NEW p \in Chains, OutcomeRecorded(p)
  PROVE  RuntimeTyped' /\ (Steady \/ Opens)
<1>1. proc[p].at = "outcome" /\ Unmoved /\ Known(World)
  BY DEF OutcomeRecorded, MayCommit, RuntimeTyped
<1>2. PICK c \in Circumstances :
        Become(CloseUtterance(Committed(p), p, proc[p].utterance, proc[p].heard,
                              proc[p].then, c))
  BY DEF OutcomeRecorded
<1>3. PICK w, v : /\ w = Committed(p)
                  /\ v = CloseUtterance(w, p, proc[p].utterance, proc[p].heard,
                                        proc[p].then, c)
  OBVIOUS
<1>4. Known(w) /\ p \in Others(Observer) /\ ReplyJob(proc[p])
  BY <1>1, <1>3, CommittedWorld, Replies
<1>5. proc[p].then \in {Done, Ready}
  BY <1>1, <1>4 DEF ReplyJob
<1>6. Carrying(w, v, p, {})
  BY <1>3, <1>4, <1>5, CloseUtteranceCarrying
<1>7. PICK e : e.type = "UTTERANCE_OUTCOME"
               /\ Put(e, <<"outcome", proc[p].utterance.id>>)
  BY DEF OutcomeRecorded
<1>8. proc[p].at \in {"opening", "decided", "superseded", "realized", "elapsed",
                      "outcome"} /\ e.type # "RUNTIME_CHECKPOINT" /\ Become(v)
  BY <1>1, <1>2, <1>3, <1>7
<1> QED
  BY <1>1, <1>3, <1>6, <1>7, <1>8, ReplyStep

\* What an operation of chain p failing leaves of the chain it carried.
LEMMA FaultStep ==
  ASSUME RuntimeTyped, NEW p \in Chains, Fault(p)
  PROVE  RuntimeTyped' /\ page' = page /\ Carrying(World, World', p, {})
<1>1. /\ left.fault > 0 /\ left' = [left EXCEPT !.fault = @ - 1]
      /\ proc[p] # Idle /\ Become(Abort(World, p)) /\ disk' = disk /\ page' = page
  BY DEF Fault, Spend
<1>2. LeftOK'
  BY <1>1 DEF RuntimeTyped, LeftOK, Kinds
<1>3. PICK v : v = Abort(World, p)
  OBVIOUS
<1>4. Carrying(World, v, p, {})
  BY <1>3, AbortCarrying DEF RuntimeTyped
<1>5. (p = Dispatcher => queue # <<>>) /\ IsImage(disk')
  BY <1>1 DEF RuntimeTyped
<1> QED
  BY <1>1, <1>2, <1>3, <1>4, <1>5, CarryingTyped

\* A step in which nothing about utterances changes.
Still ==
  /\ page' = page
  /\ live'.speaking => live.speaking
  /\ live'.authorized = live.authorized
  /\ \A q \in Chains : Carried(proc'[q]) = Carried(proc[q])

\* A step that hands the browser what a chain carries, and one that ends
\* every authorization.
Hands ==
  \E p \in Chains : /\ page' = Carried(proc[p])
                    /\ page' # {}
                    /\ Carrying(World, World', p, {})

Closes ==
  /\ page' \subseteq page
  /\ ~live'.speaking /\ live'.authorized = {}
  /\ \A q \in Chains : Carried(proc'[q]) \subseteq Carried(proc[q])

\* A chain that only goes on with what it carries leaves utterances alone.
LEMMA SteadyStill ==
  ASSUME Steady
  PROVE  Still
<1>0. PICK p \in Chains : /\ Carrying(World, World', p, Carried(proc[p]))
                          /\ p = Dispatcher => queue # <<>>
  BY DEF Steady
<1>1. Carrying(World, World', p, Carried(proc[p]))
  BY <1>0
<1>2. /\ World.proc = proc /\ World.live = live
      /\ World'.proc = proc' /\ World'.live = live'
  BY DEF World
<1>3. ASSUME NEW q \in Chains PROVE Carried(proc'[q]) = Carried(proc[q])
  BY <1>1, <1>2 DEF Carrying, Others
<1> QED
  BY <1>1, <1>2, <1>3 DEF Still, Carrying, Steady

\* What a session needs to be typed.
LEMMA TypedBy ==
  ASSUME NEW v, Known(v), Become(v), QueueOK(v.queue),
         v.proc[Dispatcher] # Idle => v.queue # <<>>, IsImage(disk'), LeftOK'
  PROVE  RuntimeTyped' /\ World' = v
<1>1. World' = v /\ v.queue = queue' /\ v.proc = proc'
  BY BecomeWorld DEF Known, Become
<1> QED
  BY <1>1 DEF RuntimeTyped

\* The session's first event is put on the tail once more.
LEMMA EnqueuedWorld ==
  ASSUME NEW w, Known(w), QueueOK(w.queue), NEW v, v = EnqueueStart(w)
  PROVE  /\ Known(v) /\ v.mem = w.mem /\ v.live = w.live /\ v.proc = w.proc
         /\ v.lane = w.lane /\ QueueOK(v.queue) /\ v.queue # <<>>
<1>1. PICK e, x : /\ e = [type |-> "SESSION_STARTED"]
                  /\ x = [event |-> e, before |-> {}]
  OBVIOUS
<1>2. x.event.type \in EventTypes /\ \A m \in x.before : IsImage(m)
  BY <1>1 DEF EventTypes
<1>3. v = [w EXCEPT !.queue = Append(w.queue, x)]
  BY <1>1 DEF EnqueueStart
<1>4. /\ Shaped(v) /\ v.mem = w.mem /\ v.live = w.live /\ v.proc = w.proc
      /\ v.lane = w.lane /\ v.queue = Append(w.queue, x)
  BY <1>3 DEF Known, Shaped
<1> QED
  BY <1>2, <1>4, AppendOK DEF Known

\* A chain that is done, of the world its commit left.
LEMMA FinishedWorld ==
  ASSUME RuntimeTyped, NEW p \in Chains, proc[p] # Idle,
         NEW w, w = Committed(p), NEW v, v = Finish(w, p)
  PROVE  /\ Carrying(World, v, p, {}) /\ Known(v) /\ v.live = live
         /\ v.mem = mem /\ QueueOK(v.queue) /\ v.proc[p] = Idle
         /\ v.proc[Dispatcher] # Idle => v.queue # <<>>
         /\ \A q \in Others(p) : v.proc[q] = proc[q]
<1>1. /\ Known(w) /\ Shaped(w) /\ Same(World, w) /\ w.mem = mem /\ w.live = live
      /\ w.proc = proc /\ w.queue = queue
  BY CommittedWorld DEF RuntimeTyped
<1>2. Carrying(w, v, p, {}) /\ v.live = w.live
  BY <1>1, FinishCarrying
<1>3. Carrying(World, v, p, {})
  BY <1>1, <1>2, SameCarrying
<1>4. /\ v.mem = w.mem /\ v.proc[p] = Idle
      /\ v.queue = IF p = Dispatcher THEN Tail(w.queue) ELSE w.queue
      /\ \A q \in Others(p) : v.proc[q] = w.proc[q]
  BY <1>1, FinishWorld
<1>5. QueueOK(v.queue)
  BY <1>1, <1>4, TailOK DEF RuntimeTyped
<1>6. v.proc[Dispatcher] # Idle => v.queue # <<>>
  BY <1>1, <1>4 DEF RuntimeTyped, Others, Chains
<1> QED
  BY <1>1, <1>2, <1>3, <1>4, <1>5, <1>6 DEF Carrying

\* Handing over what chain p carried, or closing it when nobody is there.
LEMMA HandedStep ==
  ASSUME RuntimeTyped, NEW p \in Chains, proc[p] # Idle,
         NEW say, Carried(proc[p]) = say, NEW c,
         Handed(Finish(Committed(p), p), say, c), IsImage(disk'), LeftOK'
  PROVE  RuntimeTyped' /\ (Still \/ Hands \/ Closes)
<1>1. PICK w, f : w = Committed(p) /\ f = Finish(w, p)
  OBVIOUS
<1>2. /\ Carrying(World, f, p, {}) /\ Known(f) /\ f.live = live
      /\ QueueOK(f.queue) /\ f.proc[p] = Idle
      /\ f.proc[Dispatcher] # Idle => f.queue # <<>>
      /\ \A q \in Others(p) : f.proc[q] = proc[q]
  BY <1>1, FinishedWorld
<1>3. Handed(f, say, c)
  BY <1>1
<1>4. /\ World.proc = proc /\ World.live = live
      /\ World'.proc = proc' /\ World'.live = live'
  BY DEF World
<1>5. \/ say = {} /\ Become(f) /\ page' = page
      \/ say # {} /\ Become(f) /\ page' = say
      \/ /\ page' = page
         /\ \/ Become(Unauthorize(f))
            \/ \E u : Become(CloseUtterance(Unauthorize(f), Undelivered, u, TRUE,
                                            Done, c))
  BY <1>3 DEF Handed
<1>6. CASE say = {} /\ Become(f) /\ page' = page
  <2>1. RuntimeTyped' /\ World' = f
    BY <1>2, <1>6, TypedBy
  <2>2. Steady
    BY <1>2, <1>6, <2>1 DEF Steady, RuntimeTyped
  <2> QED
    BY <2>1, <2>2, SteadyStill
<1>7. CASE say # {} /\ Become(f) /\ page' = say
  <2>1. RuntimeTyped' /\ World' = f
    BY <1>2, <1>7, TypedBy
  <2> QED
    BY <1>2, <1>7, <2>1 DEF Hands
<1>8. ASSUME page' = page,
             \/ Become(Unauthorize(f))
             \/ \E u : Become(CloseUtterance(Unauthorize(f), Undelivered, u, TRUE,
                                             Done, c))
      PROVE  RuntimeTyped' /\ Closes
  <2>1. PICK z : z = Unauthorize(f)
    OBVIOUS
  <2>2. /\ Shaped(z) /\ z.proc = f.proc /\ z.queue = f.queue
        /\ z.live.speaking = FALSE /\ z.live.authorized = {}
    BY <1>2, <2>1, UnauthorizedWorld DEF Known
  <2>3. Known(z)
    BY <1>2, <2>2 DEF Known
  <2>4. Undelivered \in Others(Observer) /\ Undelivered # Dispatcher
        /\ Undelivered \in Chains
    BY DEF Undelivered, Observer, Dispatcher, Others, Chains
  <2>5. PICK v : /\ Become(v)
                 /\ \/ v = z
                    \/ \E u : v = CloseUtterance(z, Undelivered, u, TRUE, Done, c)
    BY <1>8, <2>1
  <2>6. /\ Known(v) /\ ~v.live.speaking /\ v.live.authorized = {}
        /\ v.queue = z.queue /\ v.proc[Dispatcher] = z.proc[Dispatcher]
        /\ \A q \in Chains : Carried(v.proc[q]) \subseteq Carried(z.proc[q])
    <3>1. CASE v = z
      BY <2>2, <2>3, <3>1
    <3>2. ASSUME NEW u, v = CloseUtterance(z, Undelivered, u, TRUE, Done, c)
          PROVE  Carrying(z, v, Undelivered, {})
      BY <2>3, <2>4, <3>2, CloseUtteranceCarrying
    <3>3. CASE Carrying(z, v, Undelivered, {})
      BY <2>2, <2>4, <3>3 DEF Carrying, Dispatches, Others
    <3> QED
      BY <2>5, <3>1, <3>2, <3>3
  <2>7. RuntimeTyped' /\ World' = v
    BY <1>2, <2>2, <2>5, <2>6, TypedBy
  <2>8. Carried(Idle) = {}
    BY DEF Carried, Idle
  <2>9. ASSUME NEW q \in Chains PROVE Carried(f.proc[q]) \subseteq Carried(proc[q])
    <3>1. CASE q = p
      BY <1>2, <2>8, <3>1
    <3>2. CASE q # p
      BY <1>2, <3>2 DEF Others
    <3> QED
      BY <3>1, <3>2
  <2>10. v.live = live' /\ v.proc = proc'
    BY <2>5 DEF Become
  <2> QED
    BY <1>8, <2>2, <2>6, <2>7, <2>9, <2>10 DEF Closes
<1> QED
  BY <1>5, <1>6, <1>7, <1>8

\* A checkpoint is durable, and its chain goes on.
LEMMA CheckpointedStep ==
  ASSUME RuntimeTyped, NEW p \in Chains, Checkpointed(p)
  PROVE  RuntimeTyped' /\ (Still \/ Hands \/ Closes)
<1> DEFINE job == proc[p]
<1>1. /\ job.at = "checkpoint" /\ JobOK(p, job) /\ Known(World) /\ job # Idle
      /\ LeftOK'
  BY DEF Checkpointed, MayCommit, RuntimeTyped, Known, World, LeftOK, Idle
<1>2. Carried(job) = Said(job.then)
  BY <1>1 DEF Carried
<1>3. IsImage(disk')
  <2>1. PICK e : /\ e = [type |-> "RUNTIME_CHECKPOINT", image |-> job.image]
                 /\ Put(e, job.key)
    BY DEF Checkpointed
  <2>2. IsImage(e.image)
    BY <1>1, <2>1 DEF JobOK, ObserverJob, ReplyJob
  <2> QED
    BY <2>1, <2>2, PutImage DEF RuntimeTyped
<1>4. PICK w, f : w = Committed(p) /\ f = Finish(w, p)
  OBVIOUS
<1>5. PICK c \in Circumstances :
        CASE job.then.do = "deliver" -> Handed(f, job.then.say, c)
          [] job.then.do = "advance" ->
               Become(Advance(w, p, [do |-> "pass"], c)) /\ page' = page
          [] job.then.do = "ready" -> Become(EnqueueStart(f)) /\ page' = page
          [] OTHER -> Become(f) /\ page' = page
  BY <1>4 DEF Checkpointed
<1>6. /\ Carrying(World, f, p, {}) /\ Known(f) /\ f.live = live
      /\ QueueOK(f.queue) /\ f.proc[p] = Idle
      /\ f.proc[Dispatcher] # Idle => f.queue # <<>>
      /\ \A q \in Others(p) : f.proc[q] = proc[q]
  BY <1>1, <1>4, FinishedWorld
<1>7. CASE job.then.do = "deliver"
  <2>1. Handed(f, job.then.say, c)
    BY <1>5, <1>7
  <2>2. Carried(job) = job.then.say
    BY <1>2, <1>7 DEF Said
  <2> QED
    BY <1>1, <1>3, <1>4, <2>1, <2>2, HandedStep
<1>8. CASE job.then.do = "advance"
  <2>1. p = Observer
    BY <1>1, <1>8 DEF JobOK, ReplyJob, Parting, Done, Ready
  <2>2. PICK then, v : then = [do |-> "pass"] /\ v = Advance(w, p, then, c)
    OBVIOUS
  <2>3. Become(v) /\ page' = page
    BY <1>5, <1>8, <2>2
  <2>4. Known(w) /\ Same(World, w) /\ then.do = "pass"
    BY <1>1, <1>4, <2>2, CommittedWorld
  <2>5. Carrying(w, v, p, {})
    BY <2>1, <2>2, <2>4, AdvanceObserver
  <2>6. Carrying(World, v, p, {}) /\ Carried(job) = {}
    BY <1>1, <2>1, <2>4, <2>5, SameCarrying, ObserverCarriesNothing DEF JobOK
  <2>7. p # Dispatcher
    BY <2>1 DEF Observer, Dispatcher
  <2>8. RuntimeTyped' /\ World' = v
    BY <1>1, <1>3, <2>3, <2>6, <2>7, CarryingTyped
  <2>9. Steady
    BY <2>3, <2>6, <2>7, <2>8 DEF Steady
  <2> QED
    BY <2>8, <2>9, SteadyStill
<1>9. CASE job.then.do = "ready"
  <2>1. PICK v : v = EnqueueStart(f)
    OBVIOUS
  <2>2. Become(v) /\ page' = page
    BY <1>5, <1>9, <2>1
  <2>3. /\ Known(v) /\ v.live = f.live /\ v.proc = f.proc
        /\ QueueOK(v.queue) /\ v.queue # <<>>
    BY <1>6, <2>1, EnqueuedWorld
  <2>4. RuntimeTyped' /\ World' = v
    BY <1>1, <1>3, <2>2, <2>3, TypedBy
  <2>5. live' = live /\ proc' = f.proc
    BY <1>6, <2>2, <2>3 DEF Become
  <2>6. Carried(job) = {} /\ Carried(Idle) = {}
    BY <1>2, <1>9 DEF Said, Carried, Idle
  <2>7. ASSUME NEW q \in Chains PROVE Carried(proc'[q]) = Carried(proc[q])
    BY <1>6, <2>5, <2>6 DEF Others
  <2> QED
    BY <2>2, <2>4, <2>5, <2>7 DEF Still
<1>10. CASE job.then.do \notin {"deliver", "advance", "ready"}
  <2>1. Become(f) /\ page' = page
    BY <1>5, <1>10
  <2>2. RuntimeTyped' /\ World' = f
    BY <1>1, <1>3, <1>6, <2>1, TypedBy
  <2>3. Carried(job) = {}
    BY <1>2, <1>10 DEF Said
  <2>4. Steady
    BY <1>1, <1>6, <2>1, <2>2, <2>3 DEF Steady, RuntimeTyped
  <2> QED
    BY <2>2, <2>4, SteadyStill
<1> QED
  BY <1>7, <1>8, <1>9, <1>10

\* The budget of one kind of environment step.
LEMMA SpendOK ==
  ASSUME LeftOK, NEW kind \in Kinds, Spend(kind)
  PROVE  LeftOK'
<1>1. "setting" \notin Kinds
  BY DEF Kinds
<1>2. left' = [left EXCEPT ![kind] = left[kind] - 1] /\ left[kind] > 0
  BY DEF Spend
<1>3. DOMAIN left = Kinds \cup {"setting"}
  BY DEF LeftOK
<1>4. left' = [k \in Kinds \cup {"setting"} |-> left'[k]]
  BY <1>2, <1>3
<1>5. left'.setting = left.setting
  BY <1>1, <1>2, <1>3
<1>6. ASSUME NEW k \in Kinds PROVE left'[k] \in Nat
  BY <1>2, <1>3 DEF LeftOK
<1> QED
  BY <1>4, <1>5, <1>6 DEF LeftOK

\* A committed event arrives on the tail; the process is not touched.
LEMMA ArriveStep ==
  ASSUME RuntimeTyped, NEW e, e.type \in EventTypes, e.type # "RUNTIME_CHECKPOINT",
         Arrive(e), LeftOK'
  PROVE  RuntimeTyped' /\ Still
<1>1. PICK x : /\ x = [event |-> e, before |-> IF alive THEN {} ELSE {disk}]
               /\ queue' = Append(queue, x)
  BY DEF Arrive
<1>2. x.event.type \in EventTypes /\ \A m \in x.before : IsImage(m)
  BY <1>1 DEF RuntimeTyped
<1>3. QueueOK(queue') /\ queue' # <<>>
  BY <1>1, <1>2, AppendOK DEF RuntimeTyped
<1>4. Put(e, <<>>) /\ mem' = mem /\ live' = live /\ proc' = proc /\ lane' = lane
      /\ page' = page
  BY DEF Arrive
<1>5. IsImage(disk')
  BY <1>4, PutImage DEF RuntimeTyped
<1>6. Known(World')
  BY <1>4 DEF RuntimeTyped, Known, Shaped, World
<1> QED
  BY <1>3, <1>4, <1>5, <1>6 DEF RuntimeTyped, Still

\* The same for a frame of the socket, with what it costs.
LEMMA FrameStep ==
  ASSUME RuntimeTyped, NEW e, e.type \in EventTypes, e.type # "RUNTIME_CHECKPOINT",
         NEW cost, cost \subseteq Kinds, Frame(e, cost)
  PROVE  RuntimeTyped' /\ Still
<1>1. PICK spent \in SUBSET Kinds :
        /\ \A kind \in spent : left[kind] > 0
        /\ left' = [kind \in DOMAIN left |->
                      IF kind \in spent THEN left[kind] - 1 ELSE left[kind]]
        /\ Arrive(e)
  <2>1. PICK spent :
          /\ spent = IF \E i \in DOMAIN queue : queue[i].event.type \notin Internal
                     THEN cost \cup {"socket"} ELSE cost
          /\ \A kind \in spent : left[kind] > 0
          /\ left' = [kind \in DOMAIN left |->
                        IF kind \in spent THEN left[kind] - 1 ELSE left[kind]]
          /\ Arrive(e)
    BY DEF Frame
  <2>2. spent \in SUBSET Kinds
    BY <2>1 DEF Kinds
  <2> QED
    BY <2>1, <2>2
<1>2. "setting" \notin Kinds
  BY DEF Kinds
<1>3. DOMAIN left = Kinds \cup {"setting"}
  BY DEF RuntimeTyped, LeftOK
<1>4. LeftOK'
  <2>1. ASSUME NEW k \in Kinds PROVE left'[k] \in Nat
    <3>1. left[k] \in Nat
      BY DEF RuntimeTyped, LeftOK
    <3>2. left'[k] = IF k \in spent THEN left[k] - 1 ELSE left[k]
      BY <1>1, <1>3
    <3> QED
      BY <1>1, <3>1, <3>2
  <2>2. left'.setting = left.setting
    BY <1>1, <1>2, <1>3
  <2>3. left' = [k \in Kinds \cup {"setting"} |-> left'[k]]
    BY <1>1, <1>3
  <2> QED
    BY <2>1, <2>2, <2>3 DEF RuntimeTyped, LeftOK
<1> QED
  BY <1>1, <1>4, ArriveStep

\* What the candidate does arrives as a frame, or as the result of a run.
LEMMA CandidateCases ==
  ASSUME Candidate
  PROVE  \/ \E e, cost : /\ e.type \in EventTypes /\ e.type # "RUNTIME_CHECKPOINT"
                         /\ cost \subseteq Kinds /\ Frame(e, cost)
         \/ CompleteRun
<1>1. CASE StartSpeaking
  <2>1. PICK e : e.type = "SPEECH_STARTED" /\ Frame(e, {"talk"})
    BY <1>1 DEF StartSpeaking
  <2> QED
    BY <2>1 DEF EventTypes, Kinds
<1>2. CASE BargeInOnUtterance
  <2>1. PICK e : e.type = "BARGE_IN" /\ Frame(e, {"barge"})
    BY <1>2 DEF BargeInOnUtterance
  <2> QED
    BY <2>1 DEF EventTypes, Kinds
<1>3. CASE StopSpeaking
  <2>1. PICK e : e.type = "SPEECH_STOPPED" /\ Frame(e, {})
    BY <1>3 DEF StopSpeaking
  <2> QED
    BY <2>1 DEF EventTypes, Kinds
<1>4. CASE FinishTurn
  <2>1. PICK e : e.type = "SPEECH_FINAL" /\ Frame(e, {"turn"})
    BY <1>4 DEF FinishTurn
  <2> QED
    BY <2>1 DEF EventTypes, Kinds
<1>5. CASE EditCode
  <2>1. PICK e : e.type = "CODE_DELTA" /\ Frame(e, {"edit"})
    BY <1>5 DEF EditCode
  <2> QED
    BY <2>1 DEF EventTypes, Kinds
<1>6. CASE RequestRun
  <2>1. PICK e : e.type = "RUN_REQUESTED" /\ Frame(e, {"run"})
    BY <1>6 DEF RequestRun
  <2> QED
    BY <2>1 DEF EventTypes, Kinds
<1> QED
  BY <1>1, <1>2, <1>3, <1>4, <1>5, <1>6 DEF Candidate

\* Everything the candidate may do.
LEMMA CandidateStep ==
  ASSUME RuntimeTyped, Candidate
  PROVE  RuntimeTyped' /\ Still
<1>1. CASE CompleteRun
  <2>1. PICK e : e.type = "RUN_COMPLETED" /\ Arrive(e)
    BY <1>1 DEF CompleteRun
  <2>2. LeftOK'
    BY <1>1, SpendOK DEF CompleteRun, Kinds, RuntimeTyped
  <2> QED
    BY <2>1, <2>2, ArriveStep DEF EventTypes
<1> QED
  BY <1>1, CandidateCases, FrameStep

\* The clock.
LEMMA ClockStep ==
  ASSUME RuntimeTyped, ClockRuns
  PROVE  RuntimeTyped' /\ Still
<1>1. LeftOK'
  BY SpendOK DEF ClockRuns, Kinds, RuntimeTyped
<1>2. /\ mem' = mem /\ live' = live /\ proc' = proc /\ lane' = lane
      /\ queue' = queue /\ disk' = disk /\ page' = page
  BY DEF ClockRuns, runtime
<1>3. World' = World
  BY <1>2 DEF World
<1> QED
  BY <1>1, <1>2, <1>3 DEF RuntimeTyped, Still

\* A process takes the session up from its log.
LEMMA CreateStep ==
  ASSUME RuntimeTyped, CreateForDispatch
  PROVE  RuntimeTyped' /\ Still
<1>1. PICK image \in Head(queue).before : mem' = image
  BY DEF CreateForDispatch
<1>2. IsImage(mem')
  BY <1>1, HeadOK DEF CreateForDispatch, RuntimeTyped
<1>3. /\ live' = live /\ proc' = proc /\ lane' = lane
      /\ queue' = queue /\ disk' = disk /\ page' = page /\ left' = left
  BY DEF CreateForDispatch
<1>4. Known(World')
  BY <1>2, <1>3 DEF RuntimeTyped, Known, Shaped, World, IsImage
<1> QED
  BY <1>3, <1>4 DEF RuntimeTyped, Still, LeftOK

\* The process dies.
LEMMA CrashStep ==
  ASSUME RuntimeTyped, Crash
  PROVE  RuntimeTyped' /\ Closes
<1>1. LeftOK'
  BY SpendOK DEF Crash, Kinds, RuntimeTyped
<1>2. /\ mem' = Start /\ live' = Fresh /\ lane' = <<>> /\ queue' = <<>>
      /\ proc' = [q \in Chains |-> Idle] /\ disk' = disk /\ page' = page
  BY DEF Crash
<1>3. IsImage(mem')
  BY <1>2, StartImage DEF RuntimeTyped, LeftOK, Start, Setting
<1>4. live' = [f \in LiveFields |-> live'[f]] /\ ~live'.speaking
      /\ live'.authorized = {}
  BY <1>2 DEF Fresh, LiveFields
<1>5. \A q \in Chains : JobOK(q, Idle) /\ Carried(Idle) = {}
  BY DEF JobOK, ObserverJob, ReplyJob, Carried, Idle
<1>6. Known(World')
  BY <1>2, <1>3, <1>4, <1>5 DEF Known, Shaped, World, IsImage
<1>7. Dispatcher \in Chains /\ IsSeq(queue') /\ Len(queue') = 0
  BY <1>2 DEF Chains, IsSeq
<1> QED
  BY <1>1, <1>2, <1>4, <1>5, <1>6, <1>7 DEF RuntimeTyped, QueueOK, Closes

\* A silence timer fires.
LEMMA TimerStep ==
  ASSUME RuntimeTyped, NEW p \in Timers, TimerFires(p)
  PROVE  RuntimeTyped' /\ Steady
<1>1. /\ proc[p] = Idle /\ Known(World) /\ p \in Chains /\ p \in Others(Observer)
      /\ p # Dispatcher /\ page' = page /\ IsImage(disk') /\ LeftOK'
  BY ChainsAssumption DEF TimerFires, RuntimeTyped, Chains, Others, LeftOK
<1>2. PICK l :
        /\ \/ l = [live EXCEPT !.handle = FALSE]
           \/ l = [live EXCEPT !.leaked = live.leaked - 1]
        /\ \/ Become(WithLive(World, l))
           \/ \E h, timed, enough :
                Become(Await(WithLive(World, l), p,
                             [at |-> "elapsed", held |-> h, timed |-> timed,
                              enough |-> enough]))
  <2>1. PICK own \in BOOLEAN, enough \in BOOLEAN :
          LET l == IF own THEN [live EXCEPT !.handle = FALSE]
                          ELSE [live EXCEPT !.leaked = live.leaked - 1]
          IN  IF live.held = {} THEN ~enough /\ Become(WithLive(World, l))
              ELSE \E h \in live.held :
                     Become(Await(WithLive(World, l), p,
                                  [at |-> "elapsed", held |-> h,
                                   timed |-> live.timed, enough |-> enough]))
    BY DEF TimerFires
  <2>2. PICK l : l = IF own THEN [live EXCEPT !.handle = FALSE]
                            ELSE [live EXCEPT !.leaked = live.leaked - 1]
    OBVIOUS
  <2> QED
    BY <2>1, <2>2
<1>3. PICK fired : fired = WithLive(World, l)
  OBVIOUS
<1>4. World.live = live /\ World.proc = proc
  BY DEF World
<1>5. /\ l = [f \in LiveFields |-> l[f]] /\ l.speaking = live.speaking
      /\ l.authorized = live.authorized
  BY <1>1, <1>2, <1>4 DEF Known, Shaped, LiveFields
<1>6. Known(fired) /\ Same(World, fired)
  BY <1>1, <1>3, <1>4, <1>5, LiveWorld DEF Known, Same
<1>7. Carried(proc[p]) = {}
  BY <1>1 DEF Carried, Idle
<1>8. CASE Become(fired)
  <2>1. Carrying(World, fired, p, {})
    BY <1>1, <1>4, <1>6, <1>7 DEF Same, Carrying, Dispatches, Others
  <2>2. RuntimeTyped' /\ World' = fired
    BY <1>1, <1>8, <2>1, CarryingTyped
  <2> QED
    BY <1>1, <1>7, <2>1, <2>2 DEF Steady
<1>9. ASSUME NEW h, NEW timed, NEW enough,
             Become(Await(fired, p, [at |-> "elapsed", held |-> h,
                                     timed |-> timed, enough |-> enough]))
      PROVE  RuntimeTyped' /\ Steady
  <2>1. PICK job, v : /\ job = [at |-> "elapsed", held |-> h, timed |-> timed,
                                enough |-> enough]
                      /\ v = Await(fired, p, job)
    OBVIOUS
  <2>2. JobOK(p, job) /\ Carried(job) = {} /\ job.at # "idle"
    BY <1>1, <2>1 DEF JobOK, ReplyJob, Carried, Others
  <2>3. Carrying(fired, v, p, {})
    BY <1>1, <1>6, <2>1, <2>2, AwaitCarrying
  <2>4. Carrying(World, v, p, {}) /\ Become(v)
    BY <1>1, <1>6, <1>9, <2>1, <2>3, SameCarrying
  <2>5. RuntimeTyped' /\ World' = v
    BY <1>1, <2>4, CarryingTyped
  <2> QED
    BY <1>1, <1>7, <2>4, <2>5 DEF Steady
<1> QED
  BY <1>2, <1>3, <1>8, <1>9

\* An observation pass goes on.
LEMMA ObserveStep ==
  ASSUME RuntimeTyped, Observe
  PROVE  RuntimeTyped' /\ Steady
<1>1. /\ Observer \in Chains /\ Observer # Dispatcher /\ Known(World)
      /\ page' = page /\ LeftOK' /\ proc[Observer].at # "idle"
      /\ ObserverJob(proc[Observer]) /\ Carried(proc[Observer]) = {}
  <2>1. Observer \in Chains /\ Observer # Dispatcher
    BY DEF Observer, Dispatcher, Chains
  <2>2. ObserverJob(proc[Observer])
    BY <2>1 DEF RuntimeTyped, Known, JobOK, World
  <2> QED
    BY <2>1, <2>2, ObserverCarriesNothing
      DEF RuntimeTyped, Observe, Parsed, MilestoneRecorded, StateRecorded, MayCommit,
          Unmoved, LeftOK
<1>2. ASSUME NEW v, Become(v), Carrying(World, v, Observer, {}), IsImage(disk')
      PROVE  RuntimeTyped' /\ Steady
  <2>1. RuntimeTyped' /\ World' = v
    BY <1>1, <1>2, CarryingTyped
  <2> QED
    BY <1>1, <1>2, <2>1 DEF Steady
<1>3. PICK w : w = Committed(Observer)
  OBVIOUS
<1>4. Known(w) /\ Same(World, w)
  BY <1>1, <1>3, CommittedWorld
<1>5. CASE Parsed
  <2>1. PICK v : v = Fold(World, proc[Observer])
    OBVIOUS
  <2>2. Become(v) /\ IsImage(disk')
    BY <1>5, <2>1 DEF Parsed, RuntimeTyped
  <2>3. Passed(World, v)
    BY <1>1, <2>1, FoldWorld DEF Known
  <2>4. Same(World, v)
    BY <1>1, <2>3, PassSame
  <2>5. Carrying(World, v, Observer, {})
    BY <1>1, <2>4 DEF Same, Carrying, Dispatches, Others, World
  <2> QED
    BY <1>2, <2>2, <2>5
<1>6. CASE MilestoneRecorded
  <2>1. PICK job, v : /\ job = [proc[Observer] EXCEPT !.at = "observed"]
                      /\ v = Await(w, Observer, job)
    OBVIOUS
  <2>2. Become(v)
    BY <1>3, <1>6, <2>1 DEF MilestoneRecorded
  <2>3. job.at = "observed"
    BY <1>1, <1>6, <2>1 DEF ObserverJob, MilestoneRecorded, MayCommit
  <2>4. JobOK(Observer, job) /\ Carried(job) = {} /\ job.at # "idle"
    BY <2>3 DEF JobOK, ObserverJob, Carried
  <2>5. Carrying(w, v, Observer, {})
    BY <1>1, <1>4, <2>1, <2>4, AwaitCarrying
  <2>6. PICK e : e.type = "MILESTONE" /\ Put(e, <<"milestone", proc[Observer].pass>>)
    BY <1>6 DEF MilestoneRecorded
  <2>7. IsImage(disk')
    BY <2>6, PutImage DEF RuntimeTyped
  <2> QED
    BY <1>1, <1>2, <1>4, <2>2, <2>5, <2>7, SameCarrying
<1>7. CASE StateRecorded
  <2>1. PICK job, v : /\ job = [at |-> "checkpoint", image |-> w.mem,
                                key |-> <<"pass", proc[Observer].pass>>,
                                then |-> AdvanceNext]
                      /\ v = Await(w, Observer, job)
    OBVIOUS
  <2>2. Become(v)
    BY <1>3, <1>7, <2>1 DEF StateRecorded, Save
  <2>3. IsImage(job.image) /\ job.at = "checkpoint" /\ job.then = [do |-> "advance"]
    BY <1>4, <2>1 DEF Known, Shaped, IsImage, AdvanceNext
  <2>4. JobOK(Observer, job) /\ Carried(job) = {} /\ job.at # "idle"
    BY <2>3 DEF JobOK, ObserverJob, Carried, Said
  <2>5. Carrying(w, v, Observer, {})
    BY <1>1, <1>4, <2>1, <2>4, AwaitCarrying
  <2>6. PICK e : /\ e.type = "CANDIDATE_STATE_UPDATED"
                 /\ Put(e, <<"observation", proc[Observer].pass>>)
    BY <1>7 DEF StateRecorded
  <2>7. IsImage(disk')
    BY <2>6, PutImage DEF RuntimeTyped
  <2> QED
    BY <1>1, <1>2, <1>4, <2>2, <2>5, <2>7, SameCarrying
<1> QED
  BY <1>5, <1>6, <1>7 DEF Observe

\* A report of how an utterance ended takes chain p on; every authorization
\* is over.
LEMMA ReportWorld ==
  ASSUME NEW w, Known(w), NEW p \in Others(Observer), p # Dispatcher, NEW u,
         NEW heard, NEW then, then \in {Done, Ready},
         NEW v, v = ReportOutcome(w, p, u, heard, then)
  PROVE  /\ Known(v) /\ ~v.live.speaking /\ v.live.authorized = {}
         /\ v.queue = w.queue /\ v.proc[Dispatcher] = w.proc[Dispatcher]
         /\ \A q \in Chains : Carried(v.proc[q]) \subseteq Carried(w.proc[q])
<1>1. PICK z, job : /\ z = Unauthorize(w)
                    /\ job = [at |-> "outcome", utterance |-> u, heard |-> heard,
                              then |-> then]
                    /\ v = Await(z, p, job)
  BY DEF ReportOutcome
<1>2. /\ Shaped(z) /\ z.proc = w.proc /\ z.queue = w.queue
      /\ z.live.speaking = FALSE /\ z.live.authorized = {}
  BY <1>1, UnauthorizedWorld DEF Known
<1>3. Known(z)
  BY <1>2 DEF Known
<1>4. JobOK(p, job) /\ Carried(job) = {} /\ job.at # "idle"
  BY <1>1 DEF JobOK, ReplyJob, Carried, Others
<1>5. Carrying(z, v, p, {})
  BY <1>1, <1>3, <1>4, AwaitCarrying DEF Others
<1> QED
  BY <1>2, <1>5 DEF Carrying, Dispatches, Others

\* The browser lost its utterance: what is not authorized any longer is not
\* reported, and an authorization that is left belongs to another one.
Forgets ==
  /\ page' = {} /\ live'.speaking = live.speaking
  /\ live'.authorized \subseteq live.authorized
  /\ \A u \in page, x \in live'.authorized : x.id # u.id
  /\ \A q \in Chains : Carried(proc'[q]) = Carried(proc[q])

\* The browser has a new page, which holds every utterance still authorized.
Reopens ==
  /\ page' \subseteq page
  /\ live' = live /\ proc' = proc
  /\ \A u \in live.authorized : \E h \in page' : h.id = u.id

\* The browser is done with its utterance.
LEMMA CompleteStep ==
  ASSUME RuntimeTyped, NEW p \in Requests, UtteranceComplete(p),
         \A x, y \in page : x = y
  PROVE  RuntimeTyped' /\ (Forgets \/ Closes)
<1>1. /\ proc[p] = Idle /\ Known(World) /\ p \in Chains /\ p \in Others(Observer)
      /\ p # Dispatcher /\ page' = {} /\ IsImage(disk') /\ LeftOK'
  BY ChainsAssumption DEF UtteranceComplete, RuntimeTyped, Chains, Others, LeftOK
<1>2. PICK u, heard, aged :
        /\ u \in page
        /\ Become(IF \E open \in VoiceContext(World, aged).live.authorized :
                        open.id = u.id
                  THEN ReportOutcome(VoiceContext(World, aged), p,
                         CHOOSE open \in VoiceContext(World, aged).live.authorized : TRUE,
                         heard, Done)
                  ELSE VoiceContext(World, aged))
  BY DEF UtteranceComplete
<1>3. PICK w : w = VoiceContext(World, aged)
  OBVIOUS
<1>4. /\ World.live = live /\ World.proc = proc /\ World.queue = queue
      /\ World'.live = live' /\ World'.proc = proc'
  BY DEF World
<1>5. /\ Shaped(w) /\ w.proc = proc /\ w.queue = queue
      /\ w.live.authorized \subseteq live.authorized
      /\ w.live.speaking = live.speaking
  BY <1>1, <1>3, <1>4, VoiceContextWorld DEF Known, LiveFields
<1>6. Known(w)
  BY <1>1, <1>4, <1>5 DEF Known
<1>7. QueueOK(queue) /\ (proc[Dispatcher] # Idle => queue # <<>>)
  BY DEF RuntimeTyped
<1>8. CASE \E open \in w.live.authorized : open.id = u.id
  <2>1. PICK open, v : v = ReportOutcome(w, p, open, heard, Done) /\ Become(v)
    BY <1>2, <1>3, <1>8
  <2>2. /\ Known(v) /\ ~v.live.speaking /\ v.live.authorized = {}
        /\ v.queue = w.queue /\ v.proc[Dispatcher] = w.proc[Dispatcher]
        /\ \A q \in Chains : Carried(v.proc[q]) \subseteq Carried(w.proc[q])
    BY <1>1, <1>6, <2>1, ReportWorld
  <2>3. RuntimeTyped' /\ World' = v
    BY <1>1, <1>5, <1>7, <2>1, <2>2, TypedBy
  <2> QED
    BY <1>1, <1>4, <1>5, <2>2, <2>3 DEF Closes
<1>9. CASE ~\E open \in w.live.authorized : open.id = u.id
  <2>1. Become(w)
    BY <1>2, <1>3, <1>9
  <2>2. RuntimeTyped' /\ World' = w
    BY <1>1, <1>5, <1>6, <1>7, <2>1, TypedBy
  <2>3. \A y \in page : y = u
    BY <1>2
  <2> QED
    BY <1>1, <1>4, <1>5, <1>9, <2>2, <2>3 DEF Forgets
<1> QED
  BY <1>8, <1>9

\* A page reports that its voice is ready.
LEMMA ReadyStep ==
  ASSUME RuntimeTyped, NEW p \in Requests, VoiceReady(p)
  PROVE  RuntimeTyped' /\ (Reopens \/ Closes)
<1>1. /\ proc[p] = Idle /\ Known(World) /\ p \in Chains /\ p \in Others(Observer)
      /\ p # Dispatcher /\ IsImage(disk') /\ LeftOK'
  BY ChainsAssumption, SpendOK
    DEF VoiceReady, RuntimeTyped, Chains, Others, Kinds
<1>2. PICK w, held :
        /\ w = IF alive THEN World ELSE WithMem(World, disk)
        /\ held \in {page, {}} /\ page' = held
        /\ IF Orphaned(w, held) # {}
           THEN Become(ReportOutcome(w, p, CHOOSE u \in Orphaned(w, held) : TRUE,
                                     FALSE, Ready))
           ELSE Become(EnqueueStart(w))
  BY ZenonT(30) DEF VoiceReady
<1>3. /\ World.live = live /\ World.proc = proc /\ World.queue = queue
      /\ World'.live = live' /\ World'.proc = proc'
  BY DEF World
<1>4. /\ Shaped(w) /\ w.live = live /\ w.proc = proc /\ w.queue = queue
  <2>1. CASE alive
    BY <1>1, <1>2, <1>3, <2>1 DEF Known
  <2>2. CASE ~alive
    BY <1>1, <1>2, <1>3, <2>2, MemWorld DEF Known, RuntimeTyped, IsImage
  <2> QED
    BY <2>1, <2>2
<1>5. Known(w)
  BY <1>1, <1>3, <1>4 DEF Known
<1>6. QueueOK(queue) /\ (proc[Dispatcher] # Idle => queue # <<>>)
  BY DEF RuntimeTyped
<1>7. CASE Orphaned(w, held) # {}
  <2>1. PICK u, heard, v : v = ReportOutcome(w, p, u, heard, Ready) /\ Become(v)
    BY <1>2, <1>7
  <2>2. /\ Known(v) /\ ~v.live.speaking /\ v.live.authorized = {}
        /\ v.queue = w.queue /\ v.proc[Dispatcher] = w.proc[Dispatcher]
        /\ \A q \in Chains : Carried(v.proc[q]) \subseteq Carried(w.proc[q])
    BY <1>1, <1>5, <2>1, ReportWorld
  <2>3. RuntimeTyped' /\ World' = v
    BY <1>1, <1>4, <1>6, <2>1, <2>2, TypedBy
  <2> QED
    BY <1>2, <1>3, <1>4, <2>2, <2>3 DEF Closes
<1>8. CASE Orphaned(w, held) = {}
  <2>1. PICK v : v = EnqueueStart(w) /\ Become(v)
    BY <1>2, <1>8
  <2>2. /\ Known(v) /\ v.live = live /\ v.proc = proc
        /\ QueueOK(v.queue) /\ v.queue # <<>>
    BY <1>4, <1>5, <1>6, <2>1, EnqueuedWorld
  <2>3. RuntimeTyped' /\ World' = v
    BY <1>1, <2>1, <2>2, TypedBy
  <2>4. \A u \in live.authorized : \E h \in held : h.id = u.id
    BY <1>4, <1>8 DEF Orphaned
  <2> QED
    BY <1>2, <1>3, <2>2, <2>3, <2>4 DEF Reopens
<1> QED
  BY <1>7, <1>8

\* Every step of a session, by what it does to utterances.
LEMMA StepCases ==
  ASSUME RuntimeTyped, \A x, y \in page : x = y, Next
  PROVE  /\ RuntimeTyped'
         /\ \/ Still \/ Opens \/ Hands \/ Closes \/ Reopens
            \/ Forgets /\ \E p \in Requests : UtteranceComplete(p)
            \/ \E p \in Chains :
                 /\ Fault(p) \/ (Transitioned(p) /\ row # proc[p].from)
                 /\ page' = page /\ Carrying(World, World', p, {})
<1>1. CASE Candidate
  BY <1>1, CandidateStep
<1>2. CASE ClockRuns
  BY <1>2, ClockStep
<1>3. CASE Crash
  BY <1>3, CrashStep
<1>4. CASE CreateForDispatch
  BY <1>4, CreateStep
<1>5. CASE Serve
  BY <1>5, ServeStep, SteadyStill
<1>6. CASE Classified
  BY <1>6, ClassifiedStep, SteadyStill
<1>7. CASE Observe
  BY <1>7, ObserveStep, SteadyStill
<1>8. ASSUME NEW p \in Chains, Run(p)
      PROVE  /\ RuntimeTyped'
             /\ \/ Still \/ Opens \/ Hands \/ Closes
                \/ /\ Transitioned(p) /\ row # proc[p].from
                   /\ page' = page /\ Carrying(World, World', p, {})
  <2>1. CASE Transitioned(p)
    BY <2>1, TransitionedStep, SteadyStill
  <2>2. CASE Opened(p)
    BY <2>2, OpenedStep, SteadyStill
  <2>3. CASE Decided(p)
    BY <2>3, DecidedStep, SteadyStill
  <2>4. CASE Superseded(p)
    BY <2>4, SupersededStep, SteadyStill
  <2>5. CASE Realized(p)
    BY <2>5, RealizedStep, SteadyStill
  <2>6. CASE Checkpointed(p)
    BY <2>6, CheckpointedStep
  <2>7. CASE Elapsed(p)
    BY <2>7, ElapsedStep, SteadyStill
  <2>8. CASE OutcomeRecorded(p)
    BY <2>8, OutcomeStep, SteadyStill
  <2> QED
    BY <1>8, <2>1, <2>2, <2>3, <2>4, <2>5, <2>6, <2>7, <2>8 DEF Run
<1>9. CASE \E p \in Chains : Fault(p)
  BY <1>9, FaultStep
<1>10. CASE \E p \in Timers : TimerFires(p)
  BY <1>10, TimerStep, SteadyStill
<1>11. CASE \E p \in Requests : UtteranceComplete(p)
  BY <1>11, CompleteStep
<1>12. CASE \E p \in Requests : VoiceReady(p)
  BY <1>12, ReadyStep
<1> QED
  BY <1>1, <1>2, <1>3, <1>4, <1>5, <1>6, <1>7, <1>8, <1>9, <1>10, <1>11, <1>12
    DEF Next

\* The utterance that keeps the interviewer marked as speaking is with the
\* browser, or with the one chain that will hand it over.
Window ==
  /\ live.speaking => \E u \in live.authorized :
                        \/ \E h \in page : h.id = u.id
                        \/ \E q \in Chains : u \in Carried(proc[q])
  /\ \A q \in Chains : \A x \in Carried(proc[q]) : live.authorized \subseteq {x}
  /\ \A x, y \in live.authorized : x = y
  /\ \A x, y \in page : x = y

\* A session starts typed, with nothing said.
LEMMA InitTyped ==
  ASSUME Init
  PROVE  RuntimeTyped /\ Window
<1>1. PICK n \in SettingNames :
        left = [kind \in Kinds \cup {"setting"} |->
                  IF kind = "setting" THEN n ELSE SettingOf(n).limits[kind]]
  BY DEF Init
<1>2. "setting" \notin Kinds
  BY DEF Kinds
<1>3. left.setting = n /\ \A k \in Kinds : left[k] = SettingOf(n).limits[k]
  BY <1>1, <1>2
<1>4. IsImage(SettingOf(n).start) /\ SettingOf(n).limits \in [Kinds -> Nat]
  BY StartImage
<1>5. LeftOK
  BY <1>1, <1>3, <1>4 DEF LeftOK
<1>6. IsImage(Start)
  BY <1>3, <1>4 DEF Start, Setting
<1>7. Fresh = [f \in LiveFields |-> Fresh[f]] /\ ~Fresh.speaking
      /\ Fresh.authorized = {}
  BY DEF Fresh, LiveFields
<1>8. \A q \in Chains : JobOK(q, Idle) /\ Carried(Idle) = {}
  BY DEF JobOK, ObserverJob, ReplyJob, Carried, Idle
<1>9. /\ mem = Start /\ live = Fresh /\ proc = [q \in Chains |-> Idle]
      /\ lane = <<>> /\ queue = <<>> /\ disk = Start /\ page = {}
  BY DEF Init
<1>10. Known(World)
  BY <1>6, <1>7, <1>8, <1>9 DEF Known, Shaped, World, IsImage
<1>11. Dispatcher \in Chains /\ IsSeq(queue) /\ Len(queue) = 0
  BY <1>9 DEF Chains, IsSeq
<1>12. RuntimeTyped
  BY <1>5, <1>6, <1>9, <1>10, <1>11 DEF RuntimeTyped, QueueOK
<1>13. Window
  BY <1>7, <1>8, <1>9 DEF Window
<1> QED
  BY <1>12, <1>13

\* A chain carries at most one utterance, and a page holds at most one.
OnePage == \A x, y \in page : x = y

\* What a chain may await says so.
LEMMA CarriesOne ==
  ASSUME RuntimeTyped, NEW p \in Chains
  PROVE  \A x, y \in Carried(proc[p]) : x = y
<1>1. JobOK(p, proc[p])
  BY DEF RuntimeTyped, Known, World
<1>2. CASE p = Observer
  BY <1>1, <1>2, ObserverCarriesNothing DEF JobOK
<1>3. CASE p # Observer
  <2>1. ASSUME NEW then, Parting(then) PROVE \A x, y \in Said(then) : x = y
    BY <2>1 DEF Parting, Said, Done, Ready
  <2>2. \/ Carried(proc[p]) = {}
        \/ \E then : Parting(then) /\ Carried(proc[p]) = Said(then)
    BY <1>1, <1>3 DEF JobOK, ReplyJob, Carried, Pending, Continues
  <2> QED
    BY <2>1, <2>2
<1> QED
  BY <1>2, <1>3

\* No step gives a page a second utterance.
LEMMA PageStep ==
  ASSUME RuntimeTyped, OnePage, [Next]_vars
  PROVE  RuntimeTyped' /\ OnePage'
<1>1. CASE Next
  <2>1. /\ RuntimeTyped'
        /\ \/ Still \/ Opens \/ Hands \/ Closes \/ Forgets \/ Reopens
           \/ page' = page
    BY <1>1, StepCases DEF OnePage
  <2>2. CASE Hands
    BY <2>1, <2>2, CarriesOne DEF Hands, OnePage
  <2> QED
    BY <2>1, <2>2 DEF Still, Opens, Closes, Forgets, Reopens, OnePage
<1>2. CASE UNCHANGED vars
  <2>1. World' = World /\ disk' = disk /\ left' = left /\ queue' = queue
        /\ proc' = proc /\ page' = page
    BY <1>2 DEF vars, runtime, World
  <2> QED
    BY <2>1 DEF RuntimeTyped, OnePage, LeftOK
<1> QED
  BY <1>1, <1>2

\* Every value the session process, its log and its page hold is of the shape
\* the code gives it: a chain awaits only what its own code can await, what it
\* does after its checkpoint fits who it is, and an event is being ingested
\* only while it is the first of the tail (runtime.ts RuntimeSession fields,
\* dispatch chain).
THEOREM RuntimeTypedHolds ==
  Spec => [](RuntimeTyped /\ OnePage)
<1>1. Init => RuntimeTyped /\ OnePage
  BY InitTyped DEF Window, OnePage
<1> QED
  BY <1>1, PageStep, PTL DEF Spec

-----------------------------------------------------------------------------
(* The speaking window.                                                    *)

\* What breaks the window's account: two chains come to have an utterance under
\* way at once, the later authorization having replaced the earlier; a chain
\* fails, or has its transition refused, with its utterance under way; an
\* utterance ends after voiceContext dropped its authorization for stale
\* grounding.
Collides ==
  \E p, q \in Chains : p # q /\ Carried(proc'[p]) # {} /\ Carried(proc'[q]) # {}

Loses ==
  \E p \in Chains :
    /\ Carried(proc[p]) # {}
    /\ Fault(p) \/ (Transitioned(p) /\ row # proc[p].from)

Outlives ==
  \E p \in Requests :
    /\ UtteranceComplete(p)
    /\ live.authorized # {} /\ live'.authorized = {} /\ live'.speaking

Undisturbed == ~(Collides \/ Loses \/ Outlives)

\* What restores it: nothing is authorized and the interviewer is not marked as
\* speaking, as after an interruption, an outcome or a crash; or an utterance is
\* authorized while no other is under way.
Hushed == ~live.speaking /\ live.authorized = {}

Sole ==
  \E p \in Chains : \E u \in Carried(proc[p]) :
    live.authorized = {u} /\ \A q \in Others(p) : Carried(proc[q]) = {}

\* One step keeps account of the utterance.
LEMMA WindowStep ==
  ASSUME RuntimeTyped, Window, [Next]_vars, [Undisturbed]_vars
  PROVE  RuntimeTyped' /\ Window'
<1>0. OnePage /\ \A q \in Chains : \A x, y \in Carried(proc[q]) : x = y
  BY CarriesOne DEF Window, OnePage
<1>1. RuntimeTyped' /\ OnePage'
  BY <1>0, PageStep
<1>2. CASE UNCHANGED vars
  <2>1. live' = live /\ proc' = proc /\ page' = page
    BY <1>2 DEF vars, runtime
  <2> QED
    BY <1>1, <2>1 DEF Window
<1>3. CASE Next /\ Undisturbed
  <2>0. /\ World.proc = proc /\ World.live = live
        /\ World'.proc = proc' /\ World'.live = live'
    BY DEF World
  <2>1. CASE Still
    BY <1>1, <2>1 DEF Still, Window
  <2>2. CASE Opens
    <3>0. PICK p \in Chains : /\ \E x : Authorizing(World, World', p, x)
                              /\ p = Dispatcher => queue # <<>>
      BY <2>2 DEF Opens
    <3>1. PICK x : Authorizing(World, World', p, x)
      BY <3>0
    <3>2. live'.authorized = {x} /\ Carried(proc'[p]) = {x}
      BY <2>0, <3>1 DEF Authorizing
    <3>3. ASSUME NEW q \in Chains, NEW y \in Carried(proc'[q])
          PROVE  y = x
      <4>1. q = p
        BY <1>3, <3>1, <3>2, <3>3 DEF Undisturbed, Collides
      <4> QED
        BY <3>2, <3>3, <4>1
    <3> QED
      BY <1>1, <3>1, <3>2, <3>3 DEF Window, OnePage
  <2>3. CASE Hands
    <3>1. PICK p \in Chains : /\ page' = Carried(proc[p]) /\ page' # {}
                              /\ Carrying(World, World', p, {})
      BY <2>3 DEF Hands
    <3>2. /\ live'.speaking => live.speaking
          /\ live'.authorized = live.authorized
          /\ Carried(proc'[p]) = {}
          /\ \A q \in Others(p) : Carried(proc'[q]) = Carried(proc[q])
      BY <2>0, <3>1 DEF Carrying
    <3>3. PICK x : x \in page' /\ live.authorized \subseteq {x}
      BY <3>1 DEF Window
    <3>4. live'.speaking => \E u \in live'.authorized : \E h \in page' : h.id = u.id
      BY <3>2, <3>3 DEF Window
    <3>5. ASSUME NEW q \in Chains, NEW y \in Carried(proc'[q])
          PROVE  live'.authorized \subseteq {y}
      BY <3>2, <3>5 DEF Window, Others
    <3> QED
      BY <1>1, <3>2, <3>4, <3>5 DEF Window, OnePage
  <2>4. CASE Closes
    BY <1>1, <2>4 DEF Closes, Window, OnePage
  <2>5. CASE Forgets /\ \E p \in Requests : UtteranceComplete(p)
    <3>1. /\ page' = {} /\ live'.speaking = live.speaking
          /\ live'.authorized \subseteq live.authorized
          /\ \A u \in page, x \in live'.authorized : x.id # u.id
          /\ \A q \in Chains : Carried(proc'[q]) = Carried(proc[q])
      BY <2>5 DEF Forgets
    <3>2. ASSUME live'.speaking
          PROVE  \E u \in live'.authorized : \E q \in Chains : u \in Carried(proc'[q])
      <4>1. PICK u \in live.authorized : \/ \E h \in page : h.id = u.id
                                         \/ \E q \in Chains : u \in Carried(proc[q])
        BY <3>1, <3>2 DEF Window
      <4>2. u \in live'.authorized
        BY <1>3, <2>5, <3>1, <3>2, <4>1 DEF Undisturbed, Outlives, Window
      <4>3. ~\E h \in page : h.id = u.id
        BY <3>1, <4>2
      <4> QED
        BY <3>1, <4>1, <4>2, <4>3
    <3> QED
      BY <1>1, <3>1, <3>2 DEF Window, OnePage
  <2>6. CASE Reopens
    BY <1>1, <2>6 DEF Reopens, Window, OnePage
  <2>7. CASE \E p \in Chains :
               /\ Fault(p) \/ (Transitioned(p) /\ row # proc[p].from)
               /\ page' = page /\ Carrying(World, World', p, {})
    <3>1. PICK p \in Chains :
               /\ Fault(p) \/ (Transitioned(p) /\ row # proc[p].from)
               /\ page' = page /\ Carrying(World, World', p, {})
      BY <2>7
    <3>2. Carried(proc[p]) = {}
      BY <1>3, <3>1 DEF Undisturbed, Loses
    <3>3. proc[p] # Idle
      BY <3>1 DEF Fault, Transitioned, MayCommit, Idle
    <3>4. Steady
      BY <1>1, <3>1, <3>2, <3>3 DEF Steady, RuntimeTyped
    <3> QED
      BY <1>1, <3>4, SteadyStill DEF Still, Window
  <2> QED
    BY <1>0, <1>3, <2>1, <2>2, <2>3, <2>4, <2>5, <2>6, <2>7, StepCases DEF OnePage
<1> QED
  BY <1>2, <1>3

\* While the window is accounted for, a process at rest whose browser has
\* finished what it was given does not leave the interviewer marked as speaking.
\* The account holds from the start and is lost in three kinds of step only,
\* whatever the candidate, crashes, reloads, sockets and timers do; it is
\* restored with the flag cleared, or with the next utterance authorized alone.
\* A flag left behind goes back to one of the three, and has not been cleared
\* since (realize, markSpeechFinished, voiceContext, reconcileSpeechOnReady,
\* closeUndeliveredUtterance).
THEOREM NotLeftSpeakingHolds ==
  Spec => /\ Window
          /\ [][Window => Window' \/ Collides \/ Loses \/ Outlives]_vars
          /\ [](Hushed \/ Sole => Window)
          /\ [](Window => NotLeftSpeaking)
<1>1. Init => RuntimeTyped /\ OnePage /\ Window
  BY InitTyped DEF Window, OnePage
<1>2. ASSUME RuntimeTyped, OnePage, [Next]_vars
      PROVE  /\ RuntimeTyped' /\ OnePage'
             /\ [Window => Window' \/ Collides \/ Loses \/ Outlives]_vars
  <2>1. ASSUME Window, ~(Collides \/ Loses \/ Outlives) PROVE Window'
    BY <1>2, <2>1, WindowStep DEF Undisturbed
  <2> QED
    BY <1>2, <2>1, PageStep
<1>3. ASSUME RuntimeTyped, OnePage PROVE Hushed \/ Sole => Window
  <2>1. Hushed => Window
    BY <1>3 DEF Hushed, Window, OnePage
  <2>2. ASSUME Sole PROVE Window
    <3>1. PICK p \in Chains : \E u \in Carried(proc[p]) :
            live.authorized = {u} /\ \A q \in Others(p) : Carried(proc[q]) = {}
      BY <2>2 DEF Sole
    <3>2. PICK u \in Carried(proc[p]) :
            live.authorized = {u} /\ \A q \in Others(p) : Carried(proc[q]) = {}
      BY <3>1
    <3>3. ASSUME NEW q \in Chains, NEW x \in Carried(proc[q]) PROVE x = u
      BY <1>3, <3>2, <3>3, CarriesOne DEF Others
    <3> QED
      BY <1>3, <3>2, <3>3 DEF Window, OnePage
  <2> QED
    BY <2>1, <2>2
<1>4. Window => NotLeftSpeaking
  <2>1. Carried(Idle) = {}
    BY DEF Carried, Idle
  <2> QED
    BY <2>1 DEF Window, NotLeftSpeaking, Quiescent
<1> QED
  BY <1>1, <1>2, <1>3, <1>4, PTL DEF Spec

-----------------------------------------------------------------------------
(* Recovery.                                                               *)

\* What a chain may await of the database.
Waits == {"opening", "decided", "superseded", "realized", "elapsed", "outcome",
          "transition", "checkpoint", "milestone", "observed"}

\* The chains that await the database stand in line for it, once each.  Those
\* in F have just been answered.
Lined(w, F) ==
  /\ w.lane \in Seq(Chains)
  /\ \A i \in 1..Len(w.lane) : w.lane[i] \notin F /\ w.proc[w.lane[i]].at \in Waits
  /\ \A i, j \in 1..Len(w.lane) : w.lane[i] = w.lane[j] => i = j
  /\ \A q \in Chains :
       w.proc[q].at \in Waits => q \in F \/ \E i \in 1..Len(w.lane) : w.lane[i] = q

\* A chain takes the session's row from stage a to b.
Link(job, a, b) ==
  IF job.at = "transition"
  THEN a = job.from /\ b = job.to /\ b \in AllowedTransitions[a]
  ELSE a = b /\ (job.at = "checkpoint" => job.image.stage = b)

\* One after another, the chains in line take the row from stage r to that of
\* memory.
Leads(w, r, f) ==
  /\ f[0] = r /\ f[Len(w.lane)] = w.mem.stage
  /\ \A i \in 1..Len(w.lane) : Link(w.proc[w.lane[i]], f[i - 1], f[i])

Path(w, r) == \E f : Leads(w, r, f)

\* Only transitions use the keys of transitions.
Unstaged(key) == key = <<>> \/ key[1] # "stage"

KeyedJob(job) ==
  /\ job.at = "opening" => Unstaged(job.id)
  /\ job.at \in {"realized", "checkpoint"} => Unstaged(job.key)
  /\ job.at = "realized" => job.event.type # "STATE_TRANSITIONED"
  /\ job.at = "transition" => (job.then.do = "save" => Unstaged(job.then.key))

Keyed(w) == \A q \in Chains : KeyedJob(w.proc[q])

Fits(w, F, r) == Lined(w, F) /\ Path(w, r) /\ Keyed(w)

\* A chain gets in line.
LEMMA JoinFits ==
  ASSUME NEW w, NEW F, NEW r, Fits(w, F, r), NEW p \in Chains, p \in F, NEW v,
         v.proc[p].at \in Waits, KeyedJob(v.proc[p]),
         Link(v.proc[p], w.mem.stage, v.mem.stage), v.lane = Append(w.lane, p),
         \A q \in Others(p) : v.proc[q] = w.proc[q]
  PROVE  Fits(v, F \ {p}, r)
<1> DEFINE n == Len(w.lane)
<1>1. /\ w.lane \in Seq(Chains) /\ n \in Nat /\ v.lane \in Seq(Chains)
      /\ Len(v.lane) = n + 1 /\ v.lane[n + 1] = p
      /\ \A i \in 1..n : v.lane[i] = w.lane[i] /\ w.lane[i] \in Others(p)
  BY DEF Fits, Lined, Others
<1>2. \A i \in 1..n : v.proc[v.lane[i]] = w.proc[w.lane[i]]
  BY <1>1
<1>3. \A i \in 1..(n + 1) : i \in 1..n \/ i = n + 1
  BY <1>1
<1>4. Lined(v, F \ {p})
  <2>1. \A i \in 1..(n + 1) :
           v.lane[i] \notin F \ {p} /\ v.proc[v.lane[i]].at \in Waits
    BY <1>1, <1>2, <1>3 DEF Fits, Lined, Others
  <2>2. \A i, j \in 1..(n + 1) : v.lane[i] = v.lane[j] => i = j
    BY <1>1, <1>3 DEF Fits, Lined, Others
  <2>3. ASSUME NEW q \in Chains, v.proc[q].at \in Waits, q \notin F \ {p}
        PROVE  \E i \in 1..(n + 1) : v.lane[i] = q
    <3>1. CASE q = p
      BY <1>1, <3>1
    <3>2. CASE q # p
      <4>1. PICK i \in 1..n : w.lane[i] = q
        BY <2>3, <3>2 DEF Fits, Lined, Others
      <4>2. i \in 1..(n + 1) /\ v.lane[i] = q
        BY <1>1, <4>1
      <4> QED
        BY <4>2
    <3> QED
      BY <3>1, <3>2
  <2> QED
    BY <1>1, <2>1, <2>2, <2>3 DEF Lined
<1>5. Path(v, r)
  <2>1. PICK f : Leads(w, r, f)
    BY DEF Fits, Path
  <2> DEFINE g == [i \in 0..(n + 1) |-> IF i = n + 1 THEN v.mem.stage ELSE f[i]]
  <2>2. g[0] = r /\ g[n + 1] = v.mem.stage /\ g[n] = w.mem.stage
    BY <1>1, <2>1 DEF Leads
  <2>3. \A i \in 1..n : g[i] = f[i] /\ g[i - 1] = f[i - 1]
    BY <1>1
  <2>4. \A i \in 1..n : Link(v.proc[v.lane[i]], g[i - 1], g[i])
    BY <1>2, <2>1, <2>3 DEF Leads
  <2>5. Link(v.proc[v.lane[n + 1]], g[n], g[n + 1]) /\ (n + 1) - 1 = n
    BY <1>1, <2>2
  <2> HIDE DEF g
  <2>6. \A i \in 1..(n + 1) : Link(v.proc[v.lane[i]], g[i - 1], g[i])
    BY <1>3, <2>4, <2>5
  <2>7. Leads(v, r, g)
    BY <1>1, <2>2, <2>6 DEF Leads
  <2> QED
    BY <2>7 DEF Path
<1>6. Keyed(v)
  BY DEF Fits, Keyed, Others
<1> QED
  BY <1>4, <1>5, <1>6 DEF Fits

\* A chain that was answered awaits something else, or nothing.
LEMMA LeaveFits ==
  ASSUME NEW w, NEW F, NEW r, Fits(w, F, r), NEW p \in Chains, p \in F, NEW v,
         v.proc[p].at \notin Waits, v.mem.stage = w.mem.stage, v.lane = w.lane,
         \A q \in Others(p) : v.proc[q] = w.proc[q]
  PROVE  Fits(v, F \ {p}, r)
<1>1. \A i \in 1..Len(w.lane) : /\ w.lane[i] \in Others(p)
                                /\ v.proc[w.lane[i]] = w.proc[w.lane[i]]
  BY DEF Fits, Lined, Others
<1>2. Lined(v, F \ {p})
  BY <1>1 DEF Fits, Lined, Others
<1>3. \A f : Leads(w, r, f) => Leads(v, r, f)
  BY <1>1 DEF Leads
<1>4. Path(v, r)
  BY <1>3 DEF Fits, Path
<1>5. Keyed(v)
  BY DEF Fits, Keyed, KeyedJob, Others, Waits
<1> QED
  BY <1>2, <1>4, <1>5 DEF Fits

\* What is neither in line nor a stage makes no difference.
LEMMA AlterFits ==
  ASSUME NEW w, NEW F, NEW r, Fits(w, F, r), NEW v, v.proc = w.proc,
         v.mem.stage = w.mem.stage, v.lane = w.lane
  PROVE  Fits(v, F, r)
<1>1. \A f : Leads(w, r, f) => Leads(v, r, f)
  BY DEF Leads
<1> QED
  BY <1>1 DEF Fits, Path, Lined, Keyed

\* A chain that awaits nothing of the database is in nobody's way.
LEMMA IdleFits ==
  ASSUME NEW w, NEW F, NEW r, Fits(w, F, r), NEW p, w.proc[p].at \notin Waits
  PROVE  Fits(w, F \cup {p}, r)
<1>1. Lined(w, F \cup {p})
  BY DEF Fits, Lined
<1> QED
  BY <1>1 DEF Fits

\* A chain has more to do than a checkpoint on its way shows.  The observation
\* loop moves a round on after its own checkpoint.
Busy(w, q) ==
  /\ w.proc[q].at \notin {"idle", "checkpoint"}
  /\ ~(q = Observer /\ w.proc[q].at = "transition")

\* The last in line is to write down memory as it is.
Saved(w) ==
  /\ Len(w.lane) # 0
  /\ w.proc[w.lane[Len(w.lane)]].at = "checkpoint"
  /\ w.proc[w.lane[Len(w.lane)]].image = w.mem

Unsettled(w) == Saved(w) \/ \E q \in Chains : Busy(w, q)

Image(w, job) == job.at = "checkpoint" => job.image = w.mem

\* A chain awaits the database for anything but a transition.
LEMMA AwaitFits ==
  ASSUME NEW w, Shaped(w), NEW F, NEW r, Fits(w, F, r), NEW p \in Chains, p \in F,
         NEW job, job.at \in Waits \ {"transition"}, KeyedJob(job), Image(w, job),
         NEW v, v = Await(w, p, job)
  PROVE  Fits(v, F \ {p}, r) /\ Unsettled(v)
<1>1. Awaits(w, v, p, job)
  BY AwaitWorld
<1>2. Link(v.proc[p], w.mem.stage, v.mem.stage)
  BY <1>1 DEF Awaits, Link, Image
<1>3. Fits(v, F \ {p}, r)
  BY <1>1, <1>2, JoinFits DEF Awaits
<1>4. CASE job.at = "checkpoint"
  <2>1. w.lane \in Seq(Chains) /\ v.lane = Append(w.lane, p)
    BY <1>1 DEF Awaits, Fits, Lined
  <2>2. Len(v.lane) # 0 /\ v.lane[Len(v.lane)] = p
    BY <2>1
  <2>3. Saved(v)
    BY <1>1, <1>4, <2>2 DEF Awaits, Saved, Image
  <2> QED
    BY <1>3, <2>3 DEF Unsettled
<1>5. CASE job.at # "checkpoint"
  <2>1. Busy(v, p)
    BY <1>1, <1>5 DEF Awaits, Busy, Waits
  <2> QED
    BY <1>3, <2>1 DEF Unsettled
<1> QED
  BY <1>4, <1>5

\* v is w with chain p in line for the transition job.
Transits(w, v, F, p, r, job) ==
  /\ Fits(v, F \ {p}, r) /\ v.mem = Staged(w.mem, job.to)
  /\ v.lane = Append(w.lane, p) /\ v.proc[p] = job
  /\ \A q \in Others(p) : v.proc[q] = w.proc[q]
  /\ p = Observer \/ Unsettled(v)

\* A chain awaits the database for a transition.
LEMMA TransitFits ==
  ASSUME NEW w, NEW F, NEW r, Fits(w, F, r), NEW p \in Chains, p \in F,
         NEW job, job.at = "transition", job.from = w.mem.stage,
         job.to \in AllowedTransitions[w.mem.stage], KeyedJob(job),
         NEW u, Reaches(w, u, job.to), NEW v, v = Await(u, p, job)
  PROVE  Transits(w, v, F, p, r, job)
<1>1. Awaits(u, v, p, job)
  BY AwaitWorld DEF Reaches
<1>2. /\ v.proc[p] = job /\ v.mem.stage = job.to /\ v.lane = Append(w.lane, p)
      /\ \A q \in Others(p) : v.proc[q] = w.proc[q]
  BY <1>1 DEF Awaits, Reaches
<1>3. Link(v.proc[p], w.mem.stage, v.mem.stage)
  BY <1>2 DEF Link
<1>4. KeyedJob(v.proc[p]) /\ v.proc[p].at \in Waits
  BY <1>2 DEF Waits
<1>5. Fits(v, F \ {p}, r)
  BY <1>2, <1>3, <1>4, JoinFits
<1>6. p # Observer => Busy(v, p)
  BY <1>2 DEF Busy
<1> QED
  BY <1>1, <1>2, <1>5, <1>6 DEF Unsettled, Awaits, Transits, Reaches

\* What the observation loop makes of a world.
LEMMA PassedFits ==
  ASSUME NEW w, NEW F, NEW r, Fits(w, F, r), Observer \in F, NEW v, Passed(w, v)
  PROVE  /\ Fits(v, F \ {Observer}, r)
         /\ \/ v.proc[Observer] = Idle /\ v.lane = w.lane /\ v.mem = w.mem
            \/ Busy(v, Observer)
<1>1. Observer \in Chains /\ v.mem.stage = w.mem.stage
  BY DEF Passed, Chains, Told, MemFields
<1>2. CASE v.proc[Observer] = Idle /\ v.lane = w.lane /\ v.mem = w.mem
  <2>1. v.proc[Observer].at \notin Waits
    BY <1>2 DEF Idle, Waits
  <2> QED
    BY <1>1, <1>2, <2>1, LeaveFits DEF Passed
<1>3. CASE v.proc[Observer].at = "parsing" /\ v.lane = w.lane
  <2>1. v.proc[Observer].at \notin Waits /\ Busy(v, Observer)
    BY <1>3 DEF Waits, Busy
  <2> QED
    BY <1>1, <1>3, <2>1, LeaveFits DEF Passed
<1>4. CASE /\ \E n : \E at \in {"milestone", "observed"} :
                v.proc[Observer] = [at |-> at, pass |-> n]
           /\ v.lane = Append(w.lane, Observer)
  <2>1. v.proc[Observer].at \in {"milestone", "observed"}
    BY <1>4
  <2>2. /\ v.proc[Observer].at \in Waits /\ KeyedJob(v.proc[Observer])
        /\ Link(v.proc[Observer], w.mem.stage, v.mem.stage) /\ Busy(v, Observer)
    BY <1>1, <2>1 DEF Waits, KeyedJob, Link, Busy
  <2> QED
    BY <1>1, <1>4, <2>2, JoinFits DEF Passed
<1> QED
  BY <1>2, <1>3, <1>4 DEF Passed

\* Another pass may be asked for.
LEMMA ScheduledFits ==
  ASSUME NEW w, Shaped(w), NEW F, NEW r, Fits(w, F, r), Observer \notin F,
         NEW v, v = ScheduleObservation(w)
  PROVE  Shaped(v) /\ Fits(v, F, r) /\ v.mem.stage = w.mem.stage
<1>1. CASE w.proc[Observer] = Idle /\ Passed(w, v)
  <2>1. w.proc[Observer].at \notin Waits
    BY <1>1 DEF Idle, Waits
  <2>2. Fits(w, F \cup {Observer}, r)
    BY <2>1, IdleFits
  <2>3. Fits(v, (F \cup {Observer}) \ {Observer}, r)
    BY <1>1, <2>2, PassedFits
  <2>4. (F \cup {Observer}) \ {Observer} = F
    OBVIOUS
  <2> QED
    BY <1>1, <2>3, <2>4 DEF Passed, Told, MemFields
<1>2. CASE Marked(w, v)
  BY <1>2, AlterFits DEF Marked
<1> QED
  BY <1>1, <1>2, ScheduledWorld

\* A judgement asks for its decision to be put on record.
LEMMA JudgeFits ==
  ASSUME NEW w, Shaped(w), NEW p \in Chains, NEW r, Fits(w, {p}, r), NEW turn,
         NEW attempt, NEW timed, NEW c, NEW v, v = Judge(w, p, turn, attempt, timed, c)
  PROVE  Fits(v, {}, r) /\ Unsettled(v)
<1>1. PICK job : job.at = "decided" /\ v = Await(w, p, job)
  BY DEF Judge
<1>2. job.at \in Waits \ {"transition"} /\ KeyedJob(job) /\ Image(w, job)
  BY <1>1 DEF Waits, KeyedJob, Image
<1>3. {p} \ {p} = {} /\ p \in {p}
  OBVIOUS
<1> QED
  BY <1>1, <1>2, <1>3, AwaitFits

\* A checkpoint asks for memory as it is to be put on record.
LEMMA SaveFits ==
  ASSUME NEW w, Shaped(w), NEW p \in Chains, NEW r, Fits(w, {p}, r), NEW key,
         Unstaged(key), NEW then, NEW v, v = Save(w, p, key, then)
  PROVE  Fits(v, {}, r) /\ Unsettled(v)
<1>1. PICK job : job = [at |-> "checkpoint", image |-> w.mem, key |-> key, then |-> then]
  OBVIOUS
<1>2. v = Await(w, p, job)
  BY <1>1 DEF Save
<1>3. job.at \in Waits \ {"transition"} /\ KeyedJob(job) /\ Image(w, job)
  BY <1>1 DEF Waits, KeyedJob, Image
<1>4. {p} \ {p} = {} /\ p \in {p}
  OBVIOUS
<1> QED
  BY <1>2, <1>3, <1>4, AwaitFits

\* What a reply does between two awaits leaves it in line, or with more to do.
LEMMA AdvanceFits ==
  ASSUME NEW w, Shaped(w), NEW p \in Others(Observer), NEW r, Fits(w, {p}, r),
         NEW then, Continues(then), then.do = "save" => Unstaged(then.key), NEW c,
         NEW v, v = Advance(w, p, then, c)
  PROVE  Fits(v, {}, r) /\ Unsettled(v)
<1>1. {p} \ {p} = {} /\ p \in {p} /\ p \in Chains /\ p # Observer
  BY DEF Others
<1>2. ASSUME NEW to \in AllowedTransitions[w.mem.stage], NEW u, Reaches(w, u, to),
             v = Await(u, p, [at |-> "transition", from |-> w.mem.stage,
                              to |-> to, then |-> then])
      PROVE  Fits(v, {}, r) /\ Unsettled(v)
  <2>1. PICK job : job = [at |-> "transition", from |-> w.mem.stage, to |-> to,
                          then |-> then]
    OBVIOUS
  <2>2. v = Await(u, p, job) /\ KeyedJob(job)
    BY <1>2, <2>1 DEF KeyedJob
  <2>3. /\ job.at = "transition" /\ job.from = w.mem.stage
        /\ job.to \in AllowedTransitions[w.mem.stage] /\ Reaches(w, u, job.to)
    BY <1>2, <2>1
  <2>4. Transits(w, v, {p}, p, r, job)
    BY <1>1, <2>2, <2>3, TransitFits
  <2> QED
    BY <1>1, <2>4 DEF Transits
<1>3. CASE then.do = "judge" /\ v = Judge(w, p, then.turn, 0, w.live.timed, c)
  <2>1. PICK turn, attempt, timed : v = Judge(w, p, turn, attempt, timed, c)
    BY <1>3
  <2> QED
    BY <1>1, <2>1, JudgeFits
<1>4. CASE then.do = "save" /\ v = Save(w, p, then.key, then.then)
  BY <1>1, <1>4, SaveFits
<1>5. then.do \in {"judge", "save"}
  BY DEF Continues
<1>6. \/ \E to \in AllowedTransitions[w.mem.stage] : \E u :
           /\ Reaches(w, u, to)
           /\ v = Await(u, p, [at |-> "transition", from |-> w.mem.stage,
                               to |-> to, then |-> then])
      \/ then.do = "judge" /\ v = Judge(w, p, then.turn, 0, w.live.timed, c)
      \/ then.do = "save" /\ v = Save(w, p, then.key, then.then)
  BY <1>5, AdvanceCases
<1> QED
  BY <1>2, <1>3, <1>4, <1>6

\* What follows a judgement goes on, or writes memory down.
LEMMA AfterJudgeFits ==
  ASSUME NEW w, Shaped(w), NEW p \in Others(Observer), NEW r, Fits(w, {p}, r),
         NEW job, NEW say, NEW x, say \subseteq {x}, NEW c,
         NEW v, v = AfterJudge(w, p, job, say, c)
  PROVE  Fits(v, {}, r) /\ Unsettled(v)
<1>1. Parting(Deliver(say)) /\ p \in Chains
  BY DEF Parting, Deliver, Others
<1>2. CASE p # Dispatcher
  <2>1. PICK key : /\ key = <<"silence", job.turn.id, job.attempt>>
                   /\ v = Save(w, p, key, Deliver(say))
    BY <1>2 DEF AfterJudge
  <2>2. Unstaged(key)
    BY <2>1 DEF Unstaged
  <2> QED
    BY <1>1, <2>1, <2>2, SaveFits
<1>3. CASE p = Dispatcher
  <2>1. PICK l, u, s, then :
          /\ l = [w.live EXCEPT !.names = @ \/ job.turn.names]
          /\ u = WithLive(w, l)
          /\ s = ScheduleObservation(u)
          /\ then = [do |-> "save", key |-> <<>>, then |-> Deliver(say)]
    OBVIOUS
  <2>2. v = Advance(s, p, then, c)
    BY <1>3, <2>1 DEF AfterJudge
  <2>3. l = [f \in LiveFields |-> l[f]]
    BY <2>1 DEF Shaped, LiveFields
  <2>4. Shaped(u) /\ u.proc = w.proc /\ u.lane = w.lane /\ u.mem = w.mem
    BY <2>1, <2>3, LiveWorld
  <2>5. Fits(u, {p}, r) /\ Observer \notin {p}
    BY <2>4, AlterFits DEF Others
  <2>6. Shaped(s) /\ Fits(s, {p}, r)
    BY <2>1, <2>4, <2>5, ScheduledFits
  <2>7. Continues(then) /\ then.do = "save" /\ Unstaged(then.key)
    BY <1>1, <2>1 DEF Continues, Unstaged
  <2> QED
    BY <2>2, <2>6, <2>7, AdvanceFits
<1> QED
  BY <1>2, <1>3

\* What follows an authorization does the same.
LEMMA AuthorizeFits ==
  ASSUME NEW w, Shaped(w), NEW p \in Others(Observer), NEW r, Fits(w, {p}, r),
         NEW job, NEW u, NEW c, NEW v, v = Authorize(w, p, job, u, c)
  PROVE  Fits(v, {}, r) /\ Unsettled(v)
<1>1. PICK l : l = [w.live EXCEPT !.authorized = {u}, !.speaking = TRUE]
  OBVIOUS
<1>10. PICK open : open = WithLive(w, l)
  OBVIOUS
<1>2. l = [f \in LiveFields |-> l[f]]
  BY <1>1 DEF Shaped, LiveFields
<1>3. /\ Shaped(open) /\ open.proc = w.proc /\ open.mem = w.mem
      /\ open.lane = w.lane
  BY <1>2, <1>10, LiveWorld
<1>4. Fits(open, {p}, r)
  BY <1>3, AlterFits
<1>5. CASE job.opener
  <2>1. PICK then : then = [do |-> "save", key |-> <<"ready">>,
                            then |-> Deliver({u})]
    OBVIOUS
  <2>2. v = Advance(open, p, then, c)
    BY <1>1, <1>10, <1>5, <2>1 DEF Authorize
  <2>3. Continues(then) /\ Unstaged(then.key)
    BY <2>1 DEF Continues, Unstaged, Parting, Deliver
  <2> QED
    BY <1>3, <1>4, <2>2, <2>3, AdvanceFits
<1>6. CASE ~job.opener
  <2>1. PICK y, k, z : /\ y = HeardOut(open) /\ k = [open.live EXCEPT !.timed = FALSE]
                       /\ z = WithLive(y, k)
    OBVIOUS
  <2>2. v = AfterJudge(z, p, job, {u}, c)
    BY <1>1, <1>10, <1>6, <2>1 DEF Authorize
  <2>3. k = [f \in LiveFields |-> k[f]]
    BY <1>3, <2>1 DEF Shaped, LiveFields
  <2>4. /\ Shaped(y) /\ y.live = open.live /\ y.proc = w.proc /\ y.lane = w.lane
        /\ y.mem.stage = w.mem.stage
    BY <1>3, <2>1, HeardOutWorld DEF MemFields
  <2>5. /\ Shaped(z) /\ z.proc = w.proc /\ z.lane = w.lane
        /\ z.mem.stage = w.mem.stage
    BY <2>1, <2>3, <2>4, LiveWorld
  <2>6. Fits(z, {p}, r)
    BY <2>5, AlterFits
  <2> QED
    BY <2>2, <2>5, <2>6, AfterJudgeFits
<1> QED
  BY <1>5, <1>6

\* Saying something asks for its event, or goes straight on.
LEMMA RealizeFits ==
  ASSUME NEW w, Shaped(w), NEW p \in Others(Observer), NEW r, Fits(w, {p}, r),
         NEW job, NEW id, Unstaged(id), NEW c, NEW v, v = Realize(w, p, job, id, c)
  PROVE  Fits(v, {}, r) /\ Unsettled(v)
<1>1. ASSUME NEW u, NEW told, Tells(w, u, job, id, told), v = Await(u, p, told)
      PROVE  Fits(v, {}, r) /\ Unsettled(v)
  <2>1. Shaped(u) /\ Fits(u, {p}, r)
    BY <1>1, AlterFits DEF Tells
  <2>2. told.at = "realized"
    <3>1. told = [at |-> "realized", of |-> job, event |-> told.event,
                  key |-> told.key, utterance |-> told.utterance]
      BY <1>1 DEF Tells
    <3> QED
      BY <3>1
  <2>3. Unstaged(told.key)
    BY <1>1 DEF Tells, Unstaged
  <2>30. told.event.type # "STATE_TRANSITIONED"
    BY <1>1 DEF Tells
  <2>4. told.at \in Waits \ {"transition"} /\ KeyedJob(told) /\ Image(u, told)
    BY <2>2, <2>3, <2>30 DEF Waits, KeyedJob, Image
  <2>5. {p} \ {p} = {} /\ p \in {p} /\ p \in Chains
    BY DEF Others
  <2> QED
    BY <1>1, <2>1, <2>4, <2>5, AwaitFits
<1>2. ASSUME NEW x, v = Authorize(w, p, job, x, c)
      PROVE  Fits(v, {}, r) /\ Unsettled(v)
  BY <1>2, AuthorizeFits
<1> QED
  BY <1>1, <1>2, RealizeCases

\* The end of an utterance moves the round on, or writes memory down.
LEMMA CloseUtteranceFits ==
  ASSUME NEW w, Shaped(w), NEW p \in Others(Observer), NEW r, Fits(w, {p}, r),
         NEW u, NEW heard, NEW then, then \in {Done, Ready}, NEW c,
         NEW v, v = CloseUtterance(w, p, u, heard, then, c)
  PROVE  Fits(v, {}, r) /\ Unsettled(v)
<1>1. PICK m : m = [w.mem EXCEPT !.redeliver =
                      IF u.opening /\ heard THEN FALSE
                      ELSE @ \/ (/\ u.opening /\ ~heard
                                 /\ w.mem.redeliveries < MaxOpeningRedeliveries)]
  OBVIOUS
<1>2. PICK y, key, next : /\ y = WithMem(w, m) /\ key = <<"finished", u.id>>
                          /\ next = [do |-> "save", key |-> key, then |-> then]
  OBVIOUS
<1>3. \/ v = Advance(y, p, next, c)
      \/ v = Save(y, p, key, then)
  BY <1>1, <1>2 DEF CloseUtterance
<1>4. m = [f \in MemFields |-> m[f]] /\ m.stage = w.mem.stage
  BY <1>1 DEF Shaped, MemFields
<1>5. /\ Shaped(y) /\ y.proc = w.proc /\ y.lane = w.lane
      /\ y.mem.stage = w.mem.stage
  BY <1>2, <1>4, MemWorld
<1>6. Fits(y, {p}, r)
  BY <1>5, AlterFits
<1>7. Unstaged(key) /\ Continues(next) /\ Unstaged(next.key) /\ p \in Chains
  BY <1>2 DEF Parting, Continues, Unstaged, Others
<1> QED
  BY <1>3, <1>5, <1>6, <1>7, AdvanceFits, SaveFits

\* What the observation loop does after a checkpoint of its own: it rests,
\* moves the round on, or has more to do.
Passes(w, v) ==
  /\ \A q \in Others(Observer) : v.proc[q] = w.proc[q]
  /\ \/ Busy(v, Observer)
     \/ v.proc[Observer] = Idle /\ v.lane = w.lane /\ v.mem = w.mem
     \/ /\ v.proc[Observer].at = "transition" /\ v.lane = Append(w.lane, Observer)
        /\ v.mem = Staged(w.mem, v.proc[Observer].to)

\* The observation loop gets in line, or its chain comes to rest.
LEMMA ObserverFits ==
  ASSUME NEW w, Shaped(w), NEW r, Fits(w, {Observer}, r), NEW then,
         then.do = "pass", NEW c, NEW v, v = Advance(w, Observer, then, c)
  PROVE  Fits(v, {}, r) /\ Passes(w, v)
<1>1. /\ {Observer} \ {Observer} = {} /\ Observer \in {Observer}
      /\ Observer \in Chains
  BY DEF Chains
<1>2. ASSUME NEW to \in AllowedTransitions[w.mem.stage], NEW u, Reaches(w, u, to),
             v = Await(u, Observer, [at |-> "transition", from |-> w.mem.stage,
                                     to |-> to, then |-> then])
      PROVE  Fits(v, {}, r) /\ Passes(w, v)
  <2>1. PICK job : job = [at |-> "transition", from |-> w.mem.stage, to |-> to,
                          then |-> then]
    OBVIOUS
  <2>2. v = Await(u, Observer, job) /\ KeyedJob(job)
    BY <1>2, <2>1 DEF KeyedJob
  <2>3. /\ job.at = "transition" /\ job.from = w.mem.stage
        /\ job.to \in AllowedTransitions[w.mem.stage] /\ Reaches(w, u, job.to)
    BY <1>2, <2>1
  <2>4. Transits(w, v, {Observer}, Observer, r, job)
    BY <1>1, <2>2, <2>3, TransitFits
  <2> QED
    BY <1>1, <2>3, <2>4 DEF Transits, Passes
<1>3. CASE v = NextPass(w)
  <2>1. Passed(w, v)
    BY <1>3, NextPassWorld
  <2>2. Fits(v, {Observer} \ {Observer}, r)
    BY <1>1, <2>1, PassedFits
  <2>3. \/ v.proc[Observer] = Idle /\ v.lane = w.lane /\ v.mem = w.mem
        \/ Busy(v, Observer)
    BY <1>1, <2>1, PassedFits
  <2>4. \A q \in Others(Observer) : v.proc[q] = w.proc[q]
    BY <2>1 DEF Passed
  <2> QED
    BY <1>1, <2>2, <2>3, <2>4 DEF Passes
<1>4. then.do \notin {"judge", "save"}
  OBVIOUS
<1>5. \/ \E to \in AllowedTransitions[w.mem.stage] : \E u :
           /\ Reaches(w, u, to)
           /\ v = Await(u, Observer, [at |-> "transition", from |-> w.mem.stage,
                                      to |-> to, then |-> then])
      \/ v = NextPass(w)
  BY <1>4, AdvanceCases
<1> QED
  BY <1>2, <1>3, <1>5

\* An event is ingested up to the first await.
LEMMA ApplyFits ==
  ASSUME NEW w, Shaped(w), NEW r, Fits(w, {Dispatcher}, r), NEW e,
         e.type \in EventTypes, NEW c, NEW v, v = Apply(w, e, c)
  PROVE  Fits(v, {}, r) /\ Unsettled(v)
<1>1. /\ Dispatcher \in Others(Observer) /\ Dispatcher \in Chains
      /\ Observer \notin {Dispatcher} /\ Dispatcher \in {Dispatcher}
      /\ {Dispatcher} \ {Dispatcher} = {}
  BY DEF Dispatcher, Observer, Others, Chains
<1>2. ASSUME NEW y, Folded(w, y) PROVE Shaped(y) /\ Fits(y, {Dispatcher}, r)
  BY <1>2, AlterFits DEF Folded
<1>3. ASSUME NEW y, Shaped(y), Fits(y, {Dispatcher}, r), NEW then,
             then.do = "save", then.then = Deliver({}), Unstaged(then.key),
             v = Advance(y, Dispatcher, then, c)
      PROVE  Fits(v, {}, r) /\ Unsettled(v)
  <2>1. Continues(then)
    BY <1>3 DEF Continues, Parting, Deliver
  <2> QED
    BY <1>1, <1>3, <2>1, AdvanceFits
<1>4. Rested.do = "save" /\ Rested.then = Deliver({}) /\ Unstaged(Rested.key)
  BY DEF Rested, Unstaged
<1>5. CASE \E y : Folded(w, y) /\ v = Advance(y, Dispatcher, Rested, c)
  BY <1>2, <1>3, <1>4, <1>5
<1>6. ASSUME NEW y, NEW z, Folded(w, y), z = ScheduleObservation(y),
             v = Advance(z, Dispatcher, Rested, c)
      PROVE  Fits(v, {}, r) /\ Unsettled(v)
  <2>1. Shaped(z) /\ Fits(z, {Dispatcher}, r)
    BY <1>1, <1>2, <1>6, ScheduledFits
  <2> QED
    BY <1>3, <1>4, <1>6, <2>1
<1>7. ASSUME NEW y, NEW job, Folded(w, y), job = [at |-> "classify", turn |-> e.turn],
             v = Suspend(y, Dispatcher, job)
      PROVE  Fits(v, {}, r) /\ Unsettled(v)
  <2>1. /\ v.proc[Dispatcher] = job /\ v.lane = y.lane /\ v.mem = y.mem
        /\ \A q \in Others(Dispatcher) : v.proc[q] = y.proc[q]
    BY <1>1, <1>2, <1>7, SuspendWorld
  <2>2. v.proc[Dispatcher].at \notin Waits /\ Busy(v, Dispatcher)
    BY <1>7, <2>1 DEF Waits, Busy
  <2>3. Fits(v, {Dispatcher} \ {Dispatcher}, r)
    BY <1>1, <1>2, <1>7, <2>1, <2>2, LeaveFits
  <2> QED
    BY <1>1, <2>2, <2>3 DEF Unsettled
<1>8. ASSUME NEW then, then = [do |-> "save", key |-> <<"ready">>, then |-> Deliver({})],
             v = Advance(w, Dispatcher, then, c)
      PROVE  Fits(v, {}, r) /\ Unsettled(v)
  <2>1. then.do = "save" /\ then.then = Deliver({}) /\ Unstaged(then.key)
    BY <1>8 DEF Unstaged
  <2> QED
    BY <1>3, <1>8, <2>1
<1>9. ASSUME NEW job, NEW id, NEW d,
             job = [at |-> "opening", id |-> id, decision |-> d, cited |-> 0,
                    opener |-> TRUE],
             \E n : id = <<"opening", n>>, v = Await(w, Dispatcher, job)
      PROVE  Fits(v, {}, r) /\ Unsettled(v)
  <2>1. Unstaged(id)
    BY <1>9 DEF Unstaged
  <2>2. job.at \in Waits \ {"transition"} /\ KeyedJob(job) /\ Image(w, job)
    BY <1>9, <2>1 DEF Waits, KeyedJob, Image
  <2>3. Fits(v, {Dispatcher} \ {Dispatcher}, r) /\ Unsettled(v)
    BY <1>1, <1>9, <2>2, AwaitFits
  <2> QED
    BY <1>1, <2>3
<1>10. \/ \E y : Folded(w, y) /\ v = Advance(y, Dispatcher, Rested, c)
       \/ \E y, z : /\ Folded(w, y) /\ z = ScheduleObservation(y)
                    /\ v = Advance(z, Dispatcher, Rested, c)
       \/ \E y, job : /\ Folded(w, y) /\ job = [at |-> "classify", turn |-> e.turn]
                      /\ v = Suspend(y, Dispatcher, job)
       \/ \E then :
            /\ then = [do |-> "save", key |-> <<"ready">>, then |-> Deliver({})]
            /\ v = Advance(w, Dispatcher, then, c)
       \/ \E job, id, d : /\ job = [at |-> "opening", id |-> id, decision |-> d,
                                    cited |-> 0, opener |-> TRUE]
                          /\ \E n : id = <<"opening", n>>
                          /\ v = Await(w, Dispatcher, job)
  BY ApplyCases
<1> QED
  BY <1>5, <1>6, <1>7, <1>8, <1>9, <1>10

\* v is w with chain p answered, from the head of the line.
Answered(w, v, p, r) ==
  IF w.proc[p].at = "transition"
  THEN /\ r = w.proc[p].from /\ w.proc[p].to \in AllowedTransitions[r]
       /\ Fits(v, {p}, w.proc[p].to)
  ELSE /\ w.proc[p].at = "checkpoint" => w.proc[p].image.stage = r
       /\ Fits(v, {p}, r)

\* A chain that is answered leaves the head of the line.
LEMMA HeadFits ==
  ASSUME NEW w, NEW r, Fits(w, {}, r), NEW p \in Chains, Len(w.lane) # 0,
         p = w.lane[1], NEW v, v.proc = w.proc, v.mem = w.mem, v.lane = Tail(w.lane)
  PROVE  Answered(w, v, p, r)
<1> DEFINE n == Len(w.lane)
<1>1. /\ w.lane \in Seq(Chains) /\ n \in Nat /\ n > 0 /\ v.lane \in Seq(Chains)
      /\ Len(v.lane) = n - 1
      /\ \A i \in 1..(n - 1) : v.lane[i] = w.lane[i + 1] /\ i + 1 \in 1..n /\ i + 1 # 1
      /\ 1 \in 1..n
  BY DEF Fits, Lined
<1>2. \A i \in 1..(n - 1) : v.proc[v.lane[i]] = w.proc[w.lane[i + 1]]
  BY <1>1
<1>3. Lined(v, {p})
  <2>1. \A i \in 1..(n - 1) : v.lane[i] \notin {p} /\ v.proc[v.lane[i]].at \in Waits
    BY <1>1, <1>2 DEF Fits, Lined
  <2>2. \A i, j \in 1..(n - 1) : v.lane[i] = v.lane[j] => i = j
    BY <1>1 DEF Fits, Lined
  <2>3. ASSUME NEW q \in Chains, v.proc[q].at \in Waits, q \notin {p}
        PROVE  \E i \in 1..(n - 1) : v.lane[i] = q
    <3>1. PICK i \in 1..n : w.lane[i] = q
      BY <2>3 DEF Fits, Lined
    <3>2. i # 1
      BY <2>3, <3>1
    <3>3. i - 1 \in 1..(n - 1) /\ (i - 1) + 1 = i
      BY <1>1, <3>1, <3>2
    <3>4. v.lane[i - 1] = q
      BY <1>1, <3>1, <3>3
    <3> QED
      BY <3>3, <3>4
  <2> QED
    BY <1>1, <2>1, <2>2, <2>3 DEF Lined
<1>4. Keyed(v)
  BY DEF Fits, Keyed
<1>5. PICK f : Leads(w, r, f)
  BY DEF Fits, Path
<1>6. Link(w.proc[p], f[0], f[1]) /\ f[0] = r
  BY <1>1, <1>5 DEF Leads
<1> DEFINE g == [i \in 0..(n - 1) |-> f[i + 1]]
<1>7. /\ g[0] = f[1] /\ g[n - 1] = f[n]
      /\ \A i \in 1..(n - 1) : g[i] = f[i + 1] /\ g[i - 1] = f[(i + 1) - 1]
  BY <1>1
<1> HIDE DEF g
<1>8. \A i \in 1..(n - 1) : Link(v.proc[v.lane[i]], g[i - 1], g[i])
  BY <1>1, <1>2, <1>5, <1>7 DEF Leads
<1>9. Leads(v, f[1], g)
  BY <1>1, <1>5, <1>7, <1>8 DEF Leads
<1>10. Fits(v, {p}, f[1])
  BY <1>3, <1>4, <1>9 DEF Fits, Path
<1> QED
  BY <1>6, <1>10 DEF Link, Answered

\* w is the world once chain p, awaiting at, is answered.
Commits(w, p, at, r) ==
  /\ Shaped(w) /\ Known(w) /\ w.mem = mem /\ w.live = live /\ w.proc = proc
  /\ w.lane = Tail(lane) /\ w.queue = queue
  /\ lane \in Seq(Chains) /\ Len(lane) # 0 /\ p = lane[1]
  /\ at = "transition" =>
       /\ r = proc[p].from /\ proc[p].to \in AllowedTransitions[r]
       /\ Fits(w, {p}, proc[p].to)
  /\ at # "transition" => Fits(w, {p}, r)
  /\ at = "checkpoint" => proc[p].image.stage = r

\* What is committed first in line.
LEMMA CommittedFits ==
  ASSUME RuntimeTyped, NEW r, Fits(World, {}, r), NEW p \in Chains, Head(lane) = p,
         NEW at, MayCommit(p, at), NEW w, w = Committed(p)
  PROVE  Commits(w, p, at, r)
<1>1. World.lane = lane /\ World.proc = proc /\ World.mem = mem
  BY DEF World
<1>2. lane \in Seq(Chains)
  BY <1>1 DEF Fits, Lined
<1>3. Len(lane) # 0 /\ Head(lane) = p /\ Head(lane) = lane[1]
  BY <1>2 DEF MayCommit
<1>4. Known(World) /\ proc[p].at = at
  BY DEF RuntimeTyped, MayCommit
<1>5. /\ Shaped(w) /\ Known(w) /\ w.mem = mem /\ w.live = live /\ w.proc = proc
      /\ w.lane = Tail(lane) /\ w.queue = queue
  BY <1>3, <1>4, CommittedWorld
<1>6. PICK x : x = World
  OBVIOUS
<1>7. /\ Fits(x, {}, r) /\ Len(x.lane) # 0 /\ p = x.lane[1]
      /\ w.proc = x.proc /\ w.mem = x.mem /\ w.lane = Tail(x.lane)
  BY <1>1, <1>3, <1>5, <1>6
<1>8. Answered(x, w, p, r)
  BY <1>7, HeadFits
<1>9. x.proc = proc
  BY <1>1, <1>6
<1> QED
  BY <1>2, <1>3, <1>4, <1>5, <1>8, <1>9 DEF Answered, Commits

\* How far along a stage is.
Rank == [ORAL_PROBLEM_DELIVERY |-> 0, CLARIFICATION |-> 1,
         APPROACH_EXPLORATION |-> 2, IMPLEMENTATION |-> 3, TEST_AND_DEBUG |-> 4,
         FOLLOW_UP |-> 5, WRAP_UP |-> 6, EVALUATION |-> 7]

\* A stage that was entered is not beyond r.
Entered(ks, r) == \A s \in States : <<"stage", s>> \in ks => Rank[s] <= Rank[r]

\* A transition leads to a stage further along.
LEMMA RanksRise ==
  ASSUME NEW from \in States, NEW to \in AllowedTransitions[from]
  PROVE  to \in States /\ Rank[from] \in Nat /\ Rank[to] \in Nat
         /\ Rank[from] < Rank[to]
BY DEF States, AllowedTransitions, Rank

\* The row is as the log has it.
Kept == row \in States /\ disk.stage = row /\ Entered(keys, row)

\* Only transitions and checkpoints tell a stage.
LEMMA RestoredStage ==
  ASSUME NEW m, IsImage(m), NEW e,
         e.type \notin {"RUNTIME_CHECKPOINT", "STATE_TRANSITIONED"}
  PROVE  RestoreEvent(m, e).stage = m.stage
<1>1. \A f, x : f # "stage" => [m EXCEPT ![f] = x].stage = m.stage
  BY DEF IsImage, MemFields
<1> QED
  BY DEF RestoreEvent, IsImage, MemFields

\* An append of anything else leaves the row and the log together.
LEMMA PutKept ==
  ASSUME Kept, IsImage(disk), NEW e,
         e.type \notin {"RUNTIME_CHECKPOINT", "STATE_TRANSITIONED"}, NEW key,
         Unstaged(key), Put(e, key), row' = row
  PROVE  Kept'
<1>1. disk'.stage = disk.stage
  BY RestoredStage DEF Put
<1>2. \A s : <<"stage", s>> \in keys' => <<"stage", s>> \in keys
  <2> SUFFICES ASSUME NEW s, <<"stage", s>> \in keys', <<"stage", s>> \notin keys
               PROVE  FALSE
    OBVIOUS
  <2>1. key # <<>> /\ <<"stage", s>> = key
    BY DEF Put
  <2>2. key[1] = "stage"
    BY <2>1
  <2> QED
    BY <2>1, <2>2 DEF Unstaged
<1> QED
  BY <1>1, <1>2 DEF Kept, Entered

\* The last event of the tail is ingested, or nearly.
CaughtUp(w) ==
  IF w.proc[Dispatcher] = Idle THEN w.queue = <<>> ELSE Len(w.queue) = 1

\* Once what is in line is committed, the log comes to memory.
Synced(w, d) ==
  IF Len(w.lane) = 0 THEN w.mem = d
  ELSE LET job == w.proc[w.lane[Len(w.lane)]]
       IN  IF job.at = "checkpoint" THEN job.image = w.mem
           ELSE w.mem = Staged(IF Len(w.lane) = 1 THEN d
                               ELSE w.proc[w.lane[Len(w.lane) - 1]].image, job.to)

Sync(w, d) == CaughtUp(w) /\ (\A q \in Chains : ~Busy(w, q)) => Synced(w, d)

\* Nothing of a process that died is left, and what it will restore from is
\* of the row's stage.
Asleep ==
  /\ lane = <<>> /\ \A q \in Chains : proc[q] = Idle
  /\ live.authorized = {}
  /\ \A i \in 1..Len(queue) : \A m \in queue[i].before : m.stage = row

Exact ==
  /\ Kept
  /\ IF alive THEN Fits(World, {}, row) /\ Sync(World, disk) ELSE Asleep

\* While there is more to do the log need not be memory.
LEMMA UnsettledSync ==
  ASSUME NEW v, Unsettled(v), NEW d
  PROVE  Sync(v, d)
BY DEF Unsettled, Saved, Sync, Synced

\* A step to a world that fits the row and the log.
LEMMA BecomeExact ==
  ASSUME NEW v, Become(v), alive', Kept', Fits(v, {}, row'), Sync(v, disk')
  PROVE  Exact'
<1>1. PICK x, r, d : x = World' /\ r = row' /\ d = disk'
  OBVIOUS
<1>2. x.mem = v.mem /\ x.proc = v.proc /\ x.lane = v.lane /\ x.queue = v.queue
  BY <1>1 DEF World, Become
<1>3. Fits(x, {}, r)
  BY <1>1, <1>2, AlterFits
<1>4. Sync(x, d)
  BY <1>1, <1>2 DEF Sync, Synced, CaughtUp, Busy
<1> QED
  BY <1>1, <1>3, <1>4 DEF Exact

\* A process in which something goes on is alive.
LEMMA AliveExact ==
  ASSUME Exact, NEW p \in Chains, proc[p].at # "idle"
  PROVE  alive /\ Fits(World, {}, row) /\ Sync(World, disk) /\ Kept
         /\ KeyedJob(proc[p])
<1>1. alive
  BY DEF Exact, Asleep, Idle
<1>2. Fits(World, {}, row) /\ Sync(World, disk) /\ Kept
  BY <1>1 DEF Exact
<1>3. KeyedJob(World.proc[p]) /\ World.proc = proc
  BY <1>2 DEF Fits, Keyed, World
<1> QED
  BY <1>1, <1>2, <1>3

\* A reply's event commits, and the reply goes on.
LEMMA ReplyExact ==
  ASSUME RuntimeTyped, Exact, NEW p \in Chains, proc[p].at # "idle", Unmoved,
         NEW v, Become(v), Fits(v, {}, row), Unsettled(v),
         NEW e, NEW key, Put(e, key), Unstaged(key),
         e.type \notin {"RUNTIME_CHECKPOINT", "STATE_TRANSITIONED"}
  PROVE  Exact'
<1>1. alive' /\ row' = row /\ Kept
  BY AliveExact DEF Unmoved
<1>2. Kept'
  BY <1>1, PutKept DEF RuntimeTyped
<1>3. Sync(v, disk')
  BY UnsettledSync
<1> QED
  BY <1>1, <1>2, <1>3, BecomeExact

ReplyWaits == {"opening", "decided", "superseded", "realized", "elapsed", "outcome"}

\* What is known when a reply's chain is answered.
LEMMA ReplyAnswered ==
  ASSUME RuntimeTyped, Exact, NEW p \in Chains, Head(lane) = p,
         NEW at \in ReplyWaits, MayCommit(p, at), NEW w, w = Committed(p)
  PROVE  /\ p \in Others(Observer) /\ Shaped(w) /\ Known(w) /\ Fits(w, {p}, row)
         /\ KeyedJob(proc[p]) /\ ReplyJob(proc[p]) /\ proc[p].at = at
         /\ proc[p].at # "idle"
<1>1. proc[p].at = at /\ proc[p].at # "idle" /\ at # "transition"
  BY DEF MayCommit, ReplyWaits
<1>2. p \in Others(Observer) /\ ReplyJob(proc[p])
  BY <1>1, Replies DEF ReplyWaits
<1>3. Fits(World, {}, row) /\ KeyedJob(proc[p])
  BY <1>1, AliveExact
<1>4. PICK r : r = row
  OBVIOUS
<1>5. Commits(w, p, at, r)
  BY <1>3, <1>4, CommittedFits
<1>6. Shaped(w) /\ Known(w) /\ Fits(w, {p}, row)
  BY <1>1, <1>4, <1>5 DEF Commits
<1> QED
  BY <1>1, <1>2, <1>3, <1>6

\* The opening is decided, and said.
LEMMA OpenedExact ==
  ASSUME RuntimeTyped, Exact, NEW p \in Chains, Head(lane) = p, Opened(p)
  PROVE  Exact'
<1>1. MayCommit(p, "opening") /\ Unmoved /\ "opening" \in ReplyWaits
  BY DEF Opened, ReplyWaits
<1>2. PICK c \in Circumstances :
        Become(Realize(Committed(p), p, proc[p], proc[p].id, c))
  BY DEF Opened
<1>3. PICK w, v, id : /\ w = Committed(p) /\ id = proc[p].id
                      /\ v = Realize(w, p, proc[p], id, c)
  OBVIOUS
<1>4. /\ p \in Others(Observer) /\ Shaped(w) /\ Fits(w, {p}, row)
      /\ KeyedJob(proc[p]) /\ proc[p].at = "opening" /\ proc[p].at # "idle"
  BY <1>1, <1>3, ReplyAnswered
<1>5. Unstaged(id)
  BY <1>3, <1>4 DEF KeyedJob
<1>6. Fits(v, {}, row) /\ Unsettled(v)
  BY <1>3, <1>4, <1>5, RealizeFits
<1>7. PICK e : e.type = "ACTION_DECIDED" /\ Put(e, id)
  BY <1>3 DEF Opened
<1>8. e.type \notin {"RUNTIME_CHECKPOINT", "STATE_TRANSITIONED"} /\ Become(v)
  BY <1>2, <1>3, <1>7
<1> QED
  BY <1>1, <1>4, <1>5, <1>6, <1>7, <1>8, ReplyExact

\* A decision is on record: said, held, dropped or found stale.
LEMMA DecidedExact ==
  ASSUME RuntimeTyped, Exact, NEW p \in Chains, Head(lane) = p, Decided(p)
  PROVE  Exact'
<1>1. MayCommit(p, "decided") /\ Unmoved /\ "decided" \in ReplyWaits
  BY DEF Decided, ReplyWaits
<1>2. PICK w, job : w = Committed(p) /\ job = proc[p]
  OBVIOUS
<1>3. /\ p \in Others(Observer) /\ Shaped(w) /\ Fits(w, {p}, row)
      /\ KeyedJob(job) /\ job.at = "decided" /\ proc[p].at # "idle" /\ ReplyJob(job)
      /\ p \in Chains
  BY <1>1, <1>2, ReplyAnswered
<1>4. PICK c \in Circumstances : \E v :
        /\ Become(v)
        /\ v = IF job.decision = Silent
               THEN AfterJudge(StaySilent(w, job), p, job, {}, c)
               ELSE IF Stale(w, job.decision.grounded, job.cited, c.aged)
               THEN Await(w, p, [job EXCEPT !.at = "superseded"])
               ELSE Realize(w, p, job, <<"turn", job.turn.id>>, c)
  BY <1>2 DEF Decided
<1>5. PICK v :
        /\ Become(v)
        /\ v = IF job.decision = Silent
               THEN AfterJudge(StaySilent(w, job), p, job, {}, c)
               ELSE IF Stale(w, job.decision.grounded, job.cited, c.aged)
               THEN Await(w, p, [job EXCEPT !.at = "superseded"])
               ELSE Realize(w, p, job, <<"turn", job.turn.id>>, c)
  BY <1>4
<1>6. ASSUME v = AfterJudge(StaySilent(w, job), p, job, {}, c)
      PROVE  Fits(v, {}, row) /\ Unsettled(v)
  <2>1. PICK s, say : s = StaySilent(w, job) /\ say = {}
    OBVIOUS
  <2>2. Quieted(w, s, job)
    BY <1>3, <2>1, StaySilentWorld
  <2>3. /\ Shaped(s) /\ s.proc = w.proc /\ s.lane = w.lane
        /\ s.mem.stage = w.mem.stage
    BY <2>2 DEF Quieted, MemFields
  <2>4. Fits(s, {p}, row)
    BY <1>3, <2>3, AlterFits
  <2>5. v = AfterJudge(s, p, job, say, c) /\ say \subseteq {p}
    BY <1>6, <2>1
  <2> QED
    BY <1>3, <2>3, <2>4, <2>5, AfterJudgeFits
<1>7. ASSUME v = Await(w, p, [job EXCEPT !.at = "superseded"])
      PROVE  Fits(v, {}, row) /\ Unsettled(v)
  <2>1. PICK next : next = [job EXCEPT !.at = "superseded"]
    OBVIOUS
  <2>2. next.at = "superseded"
    BY <1>3, <2>1 DEF ReplyJob
  <2>3. next.at \in Waits \ {"transition"} /\ KeyedJob(next) /\ Image(w, next)
    BY <2>2 DEF Waits, KeyedJob, Image
  <2>4. v = Await(w, p, next) /\ p \in {p} /\ {p} \ {p} = {}
    BY <1>7, <2>1
  <2>5. Fits(v, {p} \ {p}, row) /\ Unsettled(v)
    BY <1>3, <2>3, <2>4, AwaitFits
  <2> QED
    BY <2>4, <2>5
<1>8. ASSUME v = Realize(w, p, job, <<"turn", job.turn.id>>, c)
      PROVE  Fits(v, {}, row) /\ Unsettled(v)
  <2>1. PICK id : id = <<"turn", job.turn.id>>
    OBVIOUS
  <2>2. Unstaged(id)
    BY <2>1 DEF Unstaged
  <2> QED
    BY <1>3, <1>8, <2>1, <2>2, RealizeFits
<1>9. Fits(v, {}, row) /\ Unsettled(v)
  BY <1>5, <1>6, <1>7, <1>8
<1>10. PICK e, key : e.type = "ACTION_DECIDED" /\ key = <<>> /\ Put(e, key)
  BY DEF Decided
<1>11. e.type \notin {"RUNTIME_CHECKPOINT", "STATE_TRANSITIONED"} /\ Unstaged(key)
  BY <1>10 DEF Unstaged
<1> QED
  BY <1>1, <1>3, <1>5, <1>9, <1>10, <1>11, ReplyExact

\* The freshness rejection is on record.
LEMMA SupersededExact ==
  ASSUME RuntimeTyped, Exact, NEW p \in Chains, Head(lane) = p, Superseded(p)
  PROVE  Exact'
<1>1. MayCommit(p, "superseded") /\ Unmoved /\ "superseded" \in ReplyWaits
  BY DEF Superseded, ReplyWaits
<1>2. PICK c \in Circumstances :
        Become(AfterJudge(HeardOut(Committed(p)), p, proc[p], {}, c))
  BY DEF Superseded
<1>3. PICK w, s, v, say : /\ w = Committed(p) /\ s = HeardOut(w) /\ say = {}
                          /\ v = AfterJudge(s, p, proc[p], say, c)
  OBVIOUS
<1>4. /\ p \in Others(Observer) /\ Shaped(w) /\ Fits(w, {p}, row)
      /\ proc[p].at # "idle"
  BY <1>1, <1>3, ReplyAnswered
<1>5. Shaped(s) /\ s.proc = w.proc /\ s.lane = w.lane /\ s.mem.stage = w.mem.stage
  BY <1>3, <1>4, HeardOutWorld DEF MemFields
<1>6. Fits(s, {p}, row) /\ say \subseteq {p}
  BY <1>3, <1>4, <1>5, AlterFits
<1>7. Fits(v, {}, row) /\ Unsettled(v)
  BY <1>3, <1>4, <1>5, <1>6, AfterJudgeFits
<1>8. PICK e, key : e.type = "ACTION_DECIDED" /\ key = <<>> /\ Put(e, key)
  BY DEF Superseded
<1>9. e.type \notin {"RUNTIME_CHECKPOINT", "STATE_TRANSITIONED"} /\ Unstaged(key)
      /\ Become(v)
  BY <1>2, <1>3, <1>8 DEF Unstaged
<1> QED
  BY <1>1, <1>4, <1>7, <1>8, <1>9, ReplyExact

\* The evidence of an utterance is on record.
LEMMA RealizedExact ==
  ASSUME RuntimeTyped, Exact, NEW p \in Chains, Head(lane) = p, Realized(p)
  PROVE  Exact'
<1>1. MayCommit(p, "realized") /\ Unmoved /\ "realized" \in ReplyWaits
  BY DEF Realized, ReplyWaits
<1>2. PICK c \in Circumstances :
        Become(Authorize(Committed(p), p, proc[p].of, proc[p].utterance, c))
  BY DEF Realized
<1>3. PICK w, job, u, v : /\ w = Committed(p) /\ job = proc[p].of
                          /\ u = proc[p].utterance /\ v = Authorize(w, p, job, u, c)
  OBVIOUS
<1>4. /\ p \in Others(Observer) /\ Shaped(w) /\ Fits(w, {p}, row)
      /\ KeyedJob(proc[p]) /\ ReplyJob(proc[p]) /\ proc[p].at = "realized"
      /\ proc[p].at # "idle"
  BY <1>1, <1>3, ReplyAnswered
<1>5. Fits(v, {}, row) /\ Unsettled(v)
  BY <1>3, <1>4, AuthorizeFits
<1>6. PICK e, key : e = proc[p].event /\ key = proc[p].key
  OBVIOUS
<1>7. /\ Put(e, key) /\ Unstaged(key) /\ Become(v)
      /\ e.type \notin {"RUNTIME_CHECKPOINT", "STATE_TRANSITIONED"}
  BY <1>2, <1>3, <1>4, <1>6 DEF Realized, KeyedJob, ReplyJob
<1> QED
  BY <1>1, <1>4, <1>5, <1>7, ReplyExact

\* A silence is on record, and the held turn judged.
LEMMA ElapsedExact ==
  ASSUME RuntimeTyped, Exact, NEW p \in Chains, Head(lane) = p, Elapsed(p)
  PROVE  Exact'
<1>1. MayCommit(p, "elapsed") /\ Unmoved /\ "elapsed" \in ReplyWaits
  BY DEF Elapsed, ReplyWaits
<1>2. PICK w, key : /\ w = Committed(p)
                    /\ key = <<"silence", proc[p].held.turn.id, proc[p].held.attempt>>
  OBVIOUS
<1>3. /\ p \in Others(Observer) /\ p \in Chains /\ Shaped(w) /\ Fits(w, {p}, row)
      /\ proc[p].at # "idle"
  BY <1>1, <1>2, ReplyAnswered
<1>4. \/ Become(Save(w, p, key, Deliver({})))
      \/ \E h, c, timed :
           Become(Judge(ClearHeldTurn(w), p, h.turn, h.attempt, timed, c))
  BY <1>2 DEF Elapsed
<1>5. ASSUME Become(Save(w, p, key, Deliver({})))
      PROVE  \E v : Become(v) /\ Fits(v, {}, row) /\ Unsettled(v)
  <2>1. PICK v, then : then = Deliver({}) /\ v = Save(w, p, key, then)
    OBVIOUS
  <2>2. Unstaged(key)
    BY <1>2 DEF Unstaged
  <2>3. Fits(v, {}, row) /\ Unsettled(v)
    BY <1>3, <2>1, <2>2, SaveFits
  <2> QED
    BY <1>5, <2>1, <2>3
<1>6. ASSUME NEW h, NEW c, NEW timed,
             Become(Judge(ClearHeldTurn(w), p, h.turn, h.attempt, timed, c))
      PROVE  \E v : Become(v) /\ Fits(v, {}, row) /\ Unsettled(v)
  <2>1. PICK s, v, turn, attempt :
          /\ s = ClearHeldTurn(w) /\ turn = h.turn /\ attempt = h.attempt
          /\ v = Judge(s, p, turn, attempt, timed, c)
    OBVIOUS
  <2>2. Shaped(s) /\ s.proc = w.proc /\ s.mem = w.mem /\ s.lane = w.lane
    BY <1>3, <2>1, ClearedWorld
  <2>3. Fits(s, {p}, row)
    BY <1>3, <2>2, AlterFits
  <2>4. Fits(v, {}, row) /\ Unsettled(v)
    BY <1>3, <2>1, <2>2, <2>3, JudgeFits
  <2> QED
    BY <1>6, <2>1, <2>4
<1>7. PICK v : Become(v) /\ Fits(v, {}, row) /\ Unsettled(v)
  BY <1>4, <1>5, <1>6
<1>8. PICK e, k : e.type = "SILENCE_ELAPSED" /\ k = <<>> /\ Put(e, k)
  BY DEF Elapsed
<1>9. e.type \notin {"RUNTIME_CHECKPOINT", "STATE_TRANSITIONED"} /\ Unstaged(k)
  BY <1>8 DEF Unstaged
<1> QED
  BY <1>1, <1>3, <1>7, <1>8, <1>9, ReplyExact

\* The end of an utterance is on record.
LEMMA OutcomeExact ==
  ASSUME RuntimeTyped, Exact, NEW p \in Chains, Head(lane) = p, OutcomeRecorded(p)
  PROVE  Exact'
<1>1. MayCommit(p, "outcome") /\ Unmoved /\ "outcome" \in ReplyWaits
  BY DEF OutcomeRecorded, ReplyWaits
<1>2. PICK w, u, heard, then, key :
        /\ w = Committed(p) /\ u = proc[p].utterance /\ heard = proc[p].heard
        /\ then = proc[p].then /\ key = <<"outcome", proc[p].utterance.id>>
  OBVIOUS
<1>3. PICK c \in Circumstances : Become(CloseUtterance(w, p, u, heard, then, c))
  BY <1>2 DEF OutcomeRecorded
<1>4. /\ p \in Others(Observer) /\ p \in Chains /\ Shaped(w) /\ Fits(w, {p}, row)
      /\ proc[p].at # "idle" /\ proc[p].at = "outcome" /\ ReplyJob(proc[p])
  BY <1>1, <1>2, ReplyAnswered
<1>5. PICK v : v = CloseUtterance(w, p, u, heard, then, c)
  OBVIOUS
<1>6. then \in {Done, Ready}
  BY <1>2, <1>4 DEF ReplyJob
<1>7. Fits(v, {}, row) /\ Unsettled(v)
  BY <1>4, <1>5, <1>6, CloseUtteranceFits
<1>8. PICK e : e.type = "UTTERANCE_OUTCOME" /\ Put(e, key)
  BY <1>2 DEF OutcomeRecorded
<1>9. e.type \notin {"RUNTIME_CHECKPOINT", "STATE_TRANSITIONED"} /\ Unstaged(key)
      /\ Become(v)
  BY <1>2, <1>3, <1>5, <1>8 DEF Unstaged
<1> QED
  BY <1>1, <1>4, <1>7, <1>8, <1>9, ReplyExact

\* A step of the process that leaves the log alone, and something under way.
LEMMA GoesOnExact ==
  ASSUME Exact, alive, alive', row' = row, disk' = disk, keys' = keys,
         NEW v, Become(v), Fits(v, {}, row), Unsettled(v)
  PROVE  Exact'
<1>1. Kept'
  BY DEF Exact, Kept
<1>2. Sync(v, disk')
  BY UnsettledSync
<1>3. Fits(v, {}, row')
  BY DEF Fits
<1> QED
  BY <1>1, <1>2, <1>3, BecomeExact

\* The next event of the tail is ingested.
LEMMA ServeExact ==
  ASSUME RuntimeTyped, Exact, Serve
  PROVE  Exact'
<1>1. PICK c \in Circumstances : Become(Apply(World, Head(queue).event, c))
  BY DEF Serve
<1>2. PICK x, e, r, v : /\ x = World /\ e = Head(queue).event /\ r = row
                        /\ v = Apply(x, e, c)
  OBVIOUS
<1>3. e.type \in EventTypes
  BY <1>2, HeadOK DEF Serve, RuntimeTyped
<1>4. /\ alive /\ alive' /\ row' = row /\ disk' = disk /\ keys' = keys
      /\ proc[Dispatcher] = Idle
  BY DEF Serve
<1>5. Shaped(x) /\ Fits(x, {}, r) /\ x.proc = proc
  BY <1>2, <1>4 DEF Exact, RuntimeTyped, Known, World
<1>6. x.proc[Dispatcher].at \notin Waits
  BY <1>4, <1>5 DEF Idle, Waits
<1>7. Fits(x, {} \cup {Dispatcher}, r)
  BY <1>5, <1>6, IdleFits
<1>8. {} \cup {Dispatcher} = {Dispatcher}
  OBVIOUS
<1>9. Fits(x, {Dispatcher}, r)
  BY <1>7, <1>8
<1>10. Fits(v, {}, r) /\ Unsettled(v)
  BY <1>2, <1>3, <1>5, <1>9, ApplyFits
<1> QED
  BY <1>1, <1>2, <1>4, <1>10, GoesOnExact

\* The classifier answered.
LEMMA ClassifiedExact ==
  ASSUME RuntimeTyped, Exact, Classified
  PROVE  Exact'
<1>1. /\ row' = row /\ disk' = disk /\ keys' = keys /\ alive' = alive
      /\ proc[Dispatcher].at = "classify" /\ Dispatcher \in Chains
  BY DEF Classified, Chains
<1>2. PICK turn, told, then :
        /\ turn = proc[Dispatcher].turn
        /\ told = [mem EXCEPT !.reasoning = IF turn.intent \in ReasoningIntents
                                            THEN Saturate(@ + 1) ELSE @,
                              !.approach = @ \/ turn.intent = "APPROACH_COMMITMENT"]
        /\ then = [do |-> "judge", turn |-> turn]
  OBVIOUS
<1>3. PICK c \in Circumstances :
        Become(Advance(WithMem(World, told), Dispatcher, then, c))
  BY <1>2 DEF Classified
<1>4. PICK x, r, y, v : /\ x = World /\ r = row /\ y = WithMem(x, told)
                        /\ v = Advance(y, Dispatcher, then, c)
  OBVIOUS
<1>5. alive /\ Fits(x, {}, r)
  <2>1. proc[Dispatcher].at # "idle"
    BY <1>1
  <2> QED
    BY <1>1, <1>4, <2>1, AliveExact
<1>6. Shaped(x) /\ x.mem = mem /\ x.proc = proc
  BY <1>4 DEF RuntimeTyped, Known, World
<1>7. x.proc[Dispatcher].at \notin Waits
  BY <1>1, <1>6 DEF Waits
<1>8. Fits(x, {} \cup {Dispatcher}, r) /\ {} \cup {Dispatcher} = {Dispatcher}
  BY <1>5, <1>7, IdleFits
<1>9. told = [f \in MemFields |-> told[f]] /\ told.stage = mem.stage
  BY <1>2, <1>6 DEF Shaped, MemFields
<1>10. Shaped(y) /\ y.mem = told /\ y.proc = x.proc /\ y.lane = x.lane
  BY <1>4, <1>6, <1>9, MemWorld
<1>11. Fits(y, {Dispatcher}, r)
  <2>1. Fits(x, {Dispatcher}, r) /\ y.mem.stage = x.mem.stage
    BY <1>6, <1>8, <1>9, <1>10
  <2> QED
    BY <1>10, <2>1, AlterFits
<1>12. /\ Continues(then) /\ (then.do = "save" => Unstaged(then.key))
       /\ Dispatcher \in Others(Observer)
  <2>1. then.do = "judge"
    BY <1>2
  <2> QED
    BY <1>1, <2>1 DEF Continues, Others, Dispatcher, Observer
<1>13. Fits(v, {}, r) /\ Unsettled(v)
  BY <1>4, <1>10, <1>11, <1>12, AdvanceFits
<1> QED
  BY <1>1, <1>3, <1>4, <1>5, <1>13, GoesOnExact

\* The parser answered.
LEMMA ParsedExact ==
  ASSUME RuntimeTyped, Exact, Parsed
  PROVE  Exact'
<1>1. /\ row' = row /\ disk' = disk /\ keys' = keys /\ alive' = alive
      /\ proc[Observer].at = "parsing" /\ Observer \in Chains
      /\ Become(Fold(World, proc[Observer]))
  BY DEF Parsed, Chains
<1>2. PICK x, r, job, v : /\ x = World /\ r = row /\ job = proc[Observer]
                          /\ v = Fold(x, job)
  OBVIOUS
<1>3. alive /\ Fits(x, {}, r)
  <2>1. proc[Observer].at # "idle"
    BY <1>1
  <2> QED
    BY <1>1, <1>2, <2>1, AliveExact
<1>4. Shaped(x) /\ x.proc = proc /\ x.lane \in Seq(Chains)
  BY <1>2, <1>3 DEF RuntimeTyped, Known, World, Fits, Lined
<1>5. Passed(x, v)
  BY <1>2, <1>4, FoldWorld
<1>6. x.proc[Observer].at \notin Waits
  BY <1>1, <1>4 DEF Waits
<1>7. Fits(x, {} \cup {Observer}, r) /\ {} \cup {Observer} = {Observer}
  BY <1>3, <1>6, IdleFits
<1>8. Fits(x, {Observer}, r) /\ Observer \in {Observer}
      /\ {Observer} \ {Observer} = {}
  BY <1>7
<1>9. /\ Fits(v, {}, r)
      /\ \/ v.proc[Observer] = Idle /\ v.lane = x.lane /\ v.mem = x.mem
         \/ Busy(v, Observer)
  BY <1>5, <1>8, PassedFits
<1>10. v.lane = Append(x.lane, Observer)
  <2>1. PICK m, y, next : y = WithMem(x, m) /\ v = Await(y, Observer, next)
    BY <1>2 DEF Fold
  <2>2. y.lane = x.lane
    BY <1>4, <2>1 DEF WithMem, Shaped
  <2>3. v.lane = Append(y.lane, Observer)
    BY <1>4, <2>1 DEF Await, WithMem, Shaped
  <2> QED
    BY <2>2, <2>3
<1>11. v.lane # x.lane
  <2>1. Len(Append(x.lane, Observer)) = Len(x.lane) + 1 /\ Len(x.lane) \in Nat
    BY <1>1, <1>4
  <2> QED
    BY <1>10, <2>1
<1>12. Unsettled(v)
  BY <1>1, <1>9, <1>11 DEF Unsettled
<1> QED
  BY <1>1, <1>2, <1>3, <1>9, <1>12, GoesOnExact

\* The observation loop's milestone, and what it observed, are on record.
LEMMA ObservedExact ==
  ASSUME RuntimeTyped, Exact, Head(lane) = Observer,
         MilestoneRecorded \/ StateRecorded
  PROVE  Exact'
<1>1. Unmoved /\ Observer \in Chains
  BY DEF MilestoneRecorded, StateRecorded, Chains
<1>2. PICK at : at \in {"milestone", "observed"} /\ MayCommit(Observer, at)
               /\ IF at = "milestone" THEN MilestoneRecorded ELSE StateRecorded
  BY DEF MilestoneRecorded, StateRecorded
<1>3. proc[Observer].at = at /\ proc[Observer].at # "idle" /\ at # "transition"
  BY <1>2 DEF MayCommit
<1>4. PICK w, r : w = Committed(Observer) /\ r = row
  OBVIOUS
<1>5. Fits(World, {}, r)
  BY <1>1, <1>3, <1>4, AliveExact
<1>6. Commits(w, Observer, at, r)
  BY <1>1, <1>2, <1>4, <1>5, CommittedFits
<1>7. Shaped(w) /\ Fits(w, {Observer}, r)
  BY <1>3, <1>6 DEF Commits
<1>8. {Observer} \ {Observer} = {} /\ Observer \in {Observer}
  OBVIOUS
<1>9. CASE at = "milestone"
  <2>1. PICK job, v, key : /\ job = [proc[Observer] EXCEPT !.at = "observed"]
                           /\ v = Await(w, Observer, job)
                           /\ key = <<"milestone", proc[Observer].pass>>
    OBVIOUS
  <2>2. Become(v)
    BY <1>2, <1>4, <1>9, <2>1 DEF MilestoneRecorded
  <2>3. ObserverJob(proc[Observer])
    BY <1>1 DEF RuntimeTyped, Known, JobOK, World
  <2>4. job.at = "observed"
    BY <1>3, <1>9, <2>1, <2>3 DEF ObserverJob
  <2>5. job.at \in Waits \ {"transition"} /\ KeyedJob(job) /\ Image(w, job)
    BY <2>4 DEF Waits, KeyedJob, Image
  <2>6. Fits(v, {Observer} \ {Observer}, r) /\ Unsettled(v)
    BY <1>1, <1>7, <1>8, <2>1, <2>5, AwaitFits
  <2>7. PICK e : e.type = "MILESTONE" /\ Put(e, key)
    BY <1>2, <1>9, <2>1 DEF MilestoneRecorded
  <2>8. e.type \notin {"RUNTIME_CHECKPOINT", "STATE_TRANSITIONED"} /\ Unstaged(key)
    BY <2>1, <2>7 DEF Unstaged
  <2> QED
    BY <1>1, <1>3, <1>4, <1>8, <2>2, <2>6, <2>7, <2>8, ReplyExact
<1>10. CASE at = "observed"
  <2>1. PICK v, k, key : /\ k = <<"pass", proc[Observer].pass>>
                         /\ v = Save(w, Observer, k, AdvanceNext)
                         /\ key = <<"observation", proc[Observer].pass>>
    OBVIOUS
  <2>2. Become(v)
    BY <1>2, <1>4, <1>10, <2>1 DEF StateRecorded
  <2>3. Unstaged(k) /\ Unstaged(key)
    BY <2>1 DEF Unstaged
  <2>4. Fits(v, {}, r) /\ Unsettled(v)
    BY <1>1, <1>7, <2>1, <2>3, SaveFits
  <2>5. PICK e : e.type = "CANDIDATE_STATE_UPDATED" /\ Put(e, key)
    BY <1>2, <1>10, <2>1 DEF StateRecorded
  <2>6. e.type \notin {"RUNTIME_CHECKPOINT", "STATE_TRANSITIONED"}
    BY <2>5
  <2> QED
    BY <1>1, <1>3, <1>4, <2>2, <2>3, <2>4, <2>5, <2>6, ReplyExact
<1> QED
  BY <1>2, <1>9, <1>10

\* The last two places of a line of n, and of its tail of m.
LEMMA Places ==
  ASSUME NEW n \in Nat, n > 0, n # 1, NEW m, m = n - 1
  PROVE  /\ n - 1 \in 1..(n - 1) /\ (n - 1) + 1 = n /\ m # 0 /\ n \in 1..n
         /\ n # 2 => /\ m # 1 /\ m - 1 = n - 2 /\ n - 2 \in 1..(n - 1)
                     /\ (n - 2) + 1 = n - 1
<1>1. n - 1 \in 1..(n - 1) /\ n \in 1..n
  OBVIOUS
<1>2. (n - 1) + 1 = n /\ m # 0
  OBVIOUS
<1>3. n # 2 => n - 2 \in 1..(n - 1)
  OBVIOUS
<1>4. n # 2 => m # 1 /\ m - 1 = n - 2 /\ (n - 2) + 1 = n - 1
  OBVIOUS
<1> QED
  BY <1>1, <1>2, <1>3, <1>4

\* What the log comes to once the head of the line is committed.
LEMMA HeadSynced ==
  ASSUME NEW w, Lined(w, {}), Len(w.lane) # 0, NEW d, Synced(w, d),
         \A q \in Chains : ~Busy(w, q), NEW p \in Chains, p = w.lane[1],
         NEW u, u.mem = w.mem, u.lane = Tail(w.lane), u.proc = w.proc, Lined(u, {p}),
         NEW e, w.proc[p].at \in {"checkpoint", "transition"},
         w.proc[p].at = "checkpoint" => e = w.proc[p].image,
         w.proc[p].at = "transition" => e = Staged(d, w.proc[p].to)
  PROVE  Synced(u, e)
<1> DEFINE n == Len(w.lane)
<1>1. /\ w.lane \in Seq(Chains) /\ n \in Nat /\ n > 0 /\ Len(u.lane) = n - 1
      /\ \A i \in 1..(n - 1) : u.lane[i] = w.lane[i + 1]
  BY DEF Lined
<1>2. CASE n = 1
  <2>1. w.lane[n] = p /\ Len(u.lane) = 0
    BY <1>1, <1>2
  <2>2. w.mem = e
    BY <1>1, <1>2, <2>1 DEF Synced
  <2> QED
    BY <2>1, <2>2 DEF Synced
<1>3. CASE n # 1
  <2>0. n \in Nat /\ n > 0 /\ n # 1 /\ Len(u.lane) = n - 1
    BY <1>1, <1>3
  <2>1. PICK q : q = w.lane[n]
    OBVIOUS
  <2>2. n - 1 \in 1..(n - 1) /\ (n - 1) + 1 = n /\ Len(u.lane) # 0 /\ n \in 1..n
    BY <2>0, Places
  <2>3. u.lane[Len(u.lane)] = q /\ q # p /\ q \in Chains /\ w.proc[q].at \in Waits
    BY <1>1, <2>1, <2>2 DEF Lined
  <2>4. CASE w.proc[q].at = "checkpoint"
    <3>1. w.proc[q].image = w.mem
      BY <1>1, <2>1, <2>4 DEF Synced
    <3> QED
      BY <2>2, <2>3, <2>4, <3>1 DEF Synced
  <2>5. CASE w.proc[q].at # "checkpoint"
    <3>1. w.mem = Staged(w.proc[w.lane[n - 1]].image, w.proc[q].to)
      BY <1>1, <1>3, <2>1, <2>5 DEF Synced
    <3>2. q = Observer /\ w.proc[q].at = "transition"
      BY <2>3, <2>5 DEF Busy, Waits
    <3>3. w.proc[p].at = "checkpoint"
      BY <2>3, <3>2 DEF Busy
    <3>4. CASE n = 2
      <4>1. w.lane[n - 1] = p /\ Len(u.lane) = 1
        BY <1>1, <3>4
      <4> QED
        BY <2>2, <2>3, <2>5, <3>1, <3>3, <4>1 DEF Synced
    <3>5. CASE n # 2
      <4>1. /\ Len(u.lane) # 1 /\ Len(u.lane) - 1 = n - 2
            /\ n - 2 \in 1..(n - 1) /\ (n - 2) + 1 = n - 1
        BY <2>0, <3>5, Places
      <4>2. u.lane[Len(u.lane) - 1] = w.lane[n - 1]
        BY <1>1, <4>1
      <4> QED
        BY <2>2, <2>3, <2>5, <3>1, <4>1, <4>2 DEF Synced
    <3> QED
      BY <3>4, <3>5
  <2> QED
    BY <2>4, <2>5
<1> QED
  BY <1>2, <1>3

\* The observation loop goes on once its checkpoint, or its transition, is
\* durable.
LEMMA PassesSync ==
  ASSUME NEW w, NEW v, Passes(w, v), Lined(w, {Observer}), Dispatches(w, v, Observer),
         NEW d, (CaughtUp(w) /\ \A q \in Others(Observer) : ~Busy(w, q)) => Synced(w, d)
  PROVE  Sync(v, d)
<1> SUFFICES ASSUME CaughtUp(v), \A q \in Chains : ~Busy(v, q)
             PROVE  Synced(v, d)
  BY DEF Sync
<1> DEFINE n == Len(w.lane)
<1>1. Observer \in Chains /\ Observer # Dispatcher
  BY DEF Chains, Observer, Dispatcher
<1>2. CaughtUp(w)
  BY <1>1 DEF Dispatches, CaughtUp
<1>3. \A q \in Others(Observer) : v.proc[q] = w.proc[q] /\ ~Busy(w, q)
  BY DEF Passes, Busy, Others
<1>4. Synced(w, d)
  BY <1>2, <1>3
<1>5. /\ w.lane \in Seq(Chains) /\ n \in Nat
      /\ \A i \in 1..n : w.lane[i] \in Others(Observer) /\ w.proc[w.lane[i]].at \in Waits
  BY DEF Lined, Others
<1>6. \A i \in 1..n : /\ w.proc[w.lane[i]].at = "checkpoint"
                      /\ v.proc[w.lane[i]] = w.proc[w.lane[i]]
  BY <1>3, <1>5 DEF Busy, Waits, Others
<1>7. n # 0 => n \in 1..n
  BY <1>5
<1>8. CASE v.proc[Observer] = Idle /\ v.lane = w.lane /\ v.mem = w.mem
  <2>1. CASE n = 0
    BY <1>4, <1>8, <2>1 DEF Synced
  <2>2. CASE n # 0
    <3>1. w.proc[w.lane[n]].image = w.mem
      BY <1>4, <1>6, <1>7, <2>2 DEF Synced
    <3> QED
      BY <1>6, <1>7, <1>8, <2>2, <3>1 DEF Synced
  <2> QED
    BY <2>1, <2>2
<1>9. CASE /\ v.proc[Observer].at = "transition" /\ v.lane = Append(w.lane, Observer)
           /\ v.mem = Staged(w.mem, v.proc[Observer].to)
  <2>1. /\ Len(v.lane) = n + 1 /\ v.lane[n + 1] = Observer /\ n + 1 # 0
        /\ (n + 1) - 1 = n /\ \A i \in 1..n : v.lane[i] = w.lane[i]
    BY <1>1, <1>5, <1>9
  <2>2. v.proc[Observer].at # "checkpoint"
    BY <1>9
  <2>3. CASE n = 0
    <3>1. w.mem = d /\ Len(v.lane) = 1
      BY <1>4, <2>1, <2>3 DEF Synced
    <3> QED
      BY <1>9, <2>1, <2>2, <3>1 DEF Synced
  <2>4. CASE n # 0
    <3>1. w.proc[w.lane[n]].image = w.mem
      BY <1>4, <1>6, <1>7, <2>4 DEF Synced
    <3>2. /\ v.proc[v.lane[Len(v.lane) - 1]].image = w.mem /\ Len(v.lane) # 1
          /\ Len(v.lane) # 0 /\ v.lane[Len(v.lane)] = Observer
      BY <1>5, <1>6, <1>7, <2>1, <2>4, <3>1
    <3> QED
      BY <1>9, <2>2, <3>2 DEF Synced
  <2> QED
    BY <2>3, <2>4
<1>10. ~Busy(v, Observer)
  BY <1>1
<1> QED
  BY <1>8, <1>9, <1>10 DEF Passes

\* The row and its event are of the new stage.
LEMMA TransitionKept ==
  ASSUME Kept, IsImage(disk), NEW to \in AllowedTransitions[row], row' = to,
         NEW e, e = [type |-> "STATE_TRANSITIONED", to |-> to],
         NEW key, key = <<"stage", to>>, Put(e, key)
  PROVE  Kept' /\ disk' = Staged(disk, to)
<1>1. row \in States /\ Entered(keys, row)
  BY DEF Kept
<1>2. to \in States /\ Rank[row] \in Nat /\ Rank[to] \in Nat /\ Rank[row] < Rank[to]
  BY <1>1, RanksRise
<1>3. key \notin keys
  BY <1>1, <1>2 DEF Entered
<1>4. disk' = RestoreEvent(disk, e) /\ keys' = keys \cup {key}
  BY <1>3 DEF Put
<1>5. e.type = "STATE_TRANSITIONED" /\ e.to = to
  OBVIOUS
<1>6. disk' = Staged(disk, to)
  BY <1>4, <1>5 DEF RestoreEvent, Staged
<1>7. disk'.stage = to
  BY <1>6 DEF Staged, IsImage, MemFields
<1>8. ASSUME NEW s \in States, <<"stage", s>> \in keys' PROVE Rank[s] <= Rank[to]
  <2>1. CASE <<"stage", s>> \in keys
    <3>1. Rank[s] <= Rank[row] /\ Rank[s] \in Nat
      BY <1>1, <2>1 DEF Entered, Rank, States
    <3> QED
      BY <1>2, <3>1
  <2>2. CASE <<"stage", s>> = key
    <3>1. s = to
      BY <2>2
    <3> QED
      BY <1>2, <3>1
  <2> QED
    BY <1>4, <1>8, <2>1, <2>2
<1> QED
  BY <1>2, <1>6, <1>7, <1>8 DEF Kept, Entered

\* Of the world before a chain is answered, and the one it leaves.
LEMMA AnsweredSync ==
  ASSUME RuntimeTyped, Exact, alive, NEW p \in Chains,
         proc[p].at = "checkpoint" \/ (proc[p].at = "transition" /\ p = Observer),
         lane \in Seq(Chains), Len(lane) # 0, p = lane[1],
         NEW w, w.mem = mem, w.proc = proc, w.lane = Tail(lane), w.queue = queue,
         Lined(w, {p}), NEW e,
         proc[p].at = "checkpoint" => e = proc[p].image,
         proc[p].at = "transition" => e = Staged(disk, proc[p].to),
         CaughtUp(World), \A q \in Others(p) : ~Busy(w, q)
  PROVE  Synced(w, e)
<1>1. PICK x, d : x = World /\ d = disk
  OBVIOUS
<1>2. x.mem = mem /\ x.proc = proc /\ x.lane = lane
  BY <1>1 DEF World
<1>3. ~Busy(x, p)
  BY <1>2 DEF Busy
<1>4. \A q \in Chains : ~Busy(x, q)
  BY <1>2, <1>3 DEF Busy, Others
<1>5. Sync(x, d) /\ Lined(x, {})
  BY <1>1 DEF Exact, Fits
<1>6. Synced(x, d)
  BY <1>1, <1>4, <1>5 DEF Sync
<1>7. /\ Len(x.lane) # 0 /\ p = x.lane[1] /\ w.mem = x.mem /\ w.proc = x.proc
      /\ w.lane = Tail(x.lane)
      /\ x.proc[p].at \in {"checkpoint", "transition"}
      /\ x.proc[p].at = "checkpoint" => e = x.proc[p].image
      /\ x.proc[p].at = "transition" => e = Staged(d, x.proc[p].to)
  BY <1>1, <1>2
<1> QED
  BY <1>4, <1>5, <1>6, <1>7, HeadSynced

\* What the observation loop does next, where the log came to this far.
LEMMA PassedExact ==
  ASSUME RuntimeTyped, Exact, alive, alive', NEW at,
         at \in {"checkpoint", "transition"}, NEW w, NEW r, NEW s,
         Commits(w, Observer, at, r), proc[Observer].at = at, NEW e, disk' = e, Kept',
         at = "checkpoint" => e = proc[Observer].image,
         at = "transition" => e = Staged(disk, proc[Observer].to),
         NEW then, then.do = "pass", NEW c, NEW v, v = Advance(w, Observer, then, c),
         Become(v), Fits(w, {Observer}, s), row' = s
  PROVE  Exact'
<1>1. /\ Shaped(w) /\ Known(w) /\ w.mem = mem /\ w.proc = proc
      /\ w.lane = Tail(lane) /\ w.queue = queue
      /\ lane \in Seq(Chains) /\ Len(lane) # 0 /\ Observer = lane[1]
      /\ Observer \in Chains /\ Observer # Dispatcher
  BY DEF Commits, Chains, Observer, Dispatcher
<1>2. Fits(v, {}, s) /\ Passes(w, v)
  BY <1>1, ObserverFits
<1>3. Dispatches(w, v, Observer)
  BY <1>1, AdvanceObserver DEF Carrying
<1>4. Lined(w, {Observer})
  BY DEF Fits
<1>5. ASSUME CaughtUp(w), \A q \in Others(Observer) : ~Busy(w, q)
      PROVE  Synced(w, e)
  <2>1. CaughtUp(World)
    BY <1>1, <1>5 DEF CaughtUp, World
  <2> QED
    BY <1>1, <1>4, <1>5, <2>1, AnsweredSync
<1>6. Sync(v, e)
  BY <1>2, <1>3, <1>4, <1>5, PassesSync
<1>7. Fits(v, {}, row') /\ Sync(v, disk')
  BY <1>2, <1>6
<1> QED
  BY <1>7, BecomeExact

\* The row moves with its event, and the chain goes on.
LEMMA TransitionedExact ==
  ASSUME RuntimeTyped, Exact, NEW p \in Chains, Head(lane) = p, Transitioned(p)
  PROVE  Exact'
<1>1. /\ MayCommit(p, "transition") /\ proc[p].at = "transition" /\ alive' = alive
      /\ proc[p].at # "idle"
  BY DEF Transitioned, MayCommit
<1>2. PICK w, r, at, job, to : /\ w = Committed(p) /\ r = row /\ at = "transition"
                               /\ job = proc[p] /\ to = proc[p].to
  OBVIOUS
<1>3. alive /\ Fits(World, {}, r) /\ Kept /\ KeyedJob(job)
  BY <1>1, <1>2, AliveExact
<1>4. Commits(w, p, at, r)
  BY <1>1, <1>2, <1>3, CommittedFits
<1>5. row = job.from /\ to \in AllowedTransitions[row] /\ Fits(w, {p}, to) /\ Shaped(w)
  BY <1>2, <1>4 DEF Commits
<1>6. PICK e, key, then :
        /\ e = [type |-> "STATE_TRANSITIONED", to |-> to] /\ key = <<"stage", to>>
        /\ then = job.then
  OBVIOUS
<1>7. PICK c \in Circumstances :
        Become(Advance(w, p, then, c)) /\ Put(e, key) /\ row' = to
  BY <1>2, <1>5, <1>6 DEF Transitioned
<1>8. IsImage(disk) /\ JobOK(p, job)
  BY <1>2 DEF RuntimeTyped, Known, World
<1>9. Kept' /\ disk' = Staged(disk, to)
  BY <1>3, <1>5, <1>6, <1>7, <1>8, TransitionKept
<1>10. PICK v, d : v = Advance(w, p, then, c) /\ d = disk'
  OBVIOUS
<1>11. Become(v)
  BY <1>7, <1>10
<1>12. CASE p = Observer
  <2>1. then.do = "pass"
    BY <1>1, <1>2, <1>6, <1>8, <1>12 DEF JobOK, ObserverJob
  <2>2. /\ at \in {"checkpoint", "transition"} /\ proc[Observer].at = at
        /\ Commits(w, Observer, at, r) /\ Fits(w, {Observer}, to)
        /\ at = "checkpoint" => d = proc[Observer].image
        /\ at = "transition" => d = Staged(disk, proc[Observer].to)
        /\ v = Advance(w, Observer, then, c)
    BY <1>1, <1>2, <1>4, <1>5, <1>9, <1>10, <1>12
  <2> QED
    BY <1>1, <1>3, <1>7, <1>9, <1>10, <1>11, <2>1, <2>2, PassedExact
<1>13. CASE p # Observer
  <2>1. /\ Continues(then) /\ (then.do = "save" => Unstaged(then.key))
        /\ p \in Others(Observer)
    BY <1>1, <1>2, <1>3, <1>6, <1>8, <1>13 DEF JobOK, ReplyJob, KeyedJob, Others
  <2>2. Fits(v, {}, to) /\ Unsettled(v)
    BY <1>5, <1>10, <2>1, AdvanceFits
  <2>3. Sync(v, disk')
    BY <2>2, UnsettledSync
  <2> QED
    BY <1>1, <1>3, <1>7, <1>9, <1>11, <2>2, <2>3, BecomeExact
<1> QED
  BY <1>12, <1>13

\* A checkpoint of its own is what the log comes to.
LEMMA CheckpointKept ==
  ASSUME Kept, NEW image, image.stage = row, NEW key, Unstaged(key), key \notin keys,
         NEW e, e = [type |-> "RUNTIME_CHECKPOINT", image |-> image], Put(e, key),
         row' = row
  PROVE  Kept' /\ disk' = image
<1>1. disk' = RestoreEvent(disk, e)
  BY DEF Put
<1>2. e.type = "RUNTIME_CHECKPOINT" /\ e.image = image
  OBVIOUS
<1>3. disk' = image
  BY <1>1, <1>2 DEF RestoreEvent
<1>4. ASSUME NEW s, <<"stage", s>> \in keys' PROVE <<"stage", s>> \in keys
  <2> SUFFICES ASSUME <<"stage", s>> \notin keys
               PROVE  FALSE
    OBVIOUS
  <2>1. key # <<>> /\ <<"stage", s>> = key
    BY <1>4 DEF Put
  <2>2. key[1] = "stage"
    BY <2>1
  <2> QED
    BY <2>1, <2>2 DEF Unstaged
<1> QED
  BY <1>3, <1>4 DEF Kept, Entered

\* A tail of one event, its first taken off.
LEMMA LastServed ==
  ASSUME NEW q, IsSeq(q), q # <<>>, Tail(q) = <<>>
  PROVE  Len(q) = 1
<1>1. PICK S : q \in Seq(S)
  BY DEF IsSeq
<1>2. Len(q) \in Nat /\ Len(q) # 0 /\ Len(Tail(q)) = Len(q) - 1
  BY <1>1
<1>3. Len(Tail(q)) = 0
  OBVIOUS
<1> QED
  BY <1>2, <1>3

\* v stands in a log of image d, as the process at rest or at work would.
Stands(v, d) == Shaped(v) /\ Known(v) /\ Fits(v, {}, row) /\ Sync(v, d)

\* A chain is done with its checkpoint.
LEMMA FinishStands ==
  ASSUME RuntimeTyped, Exact, alive, NEW p \in Chains, proc[p].at = "checkpoint",
         NEW w, NEW r, r = row, NEW at, at = "checkpoint", Commits(w, p, at, r),
         NEW d, d = proc[p].image, NEW f, f = Finish(w, p)
  PROVE  Stands(f, d)
<1>1. /\ Shaped(w) /\ Known(w) /\ w.mem = mem /\ w.proc = proc
      /\ w.lane = Tail(lane) /\ w.queue = queue
      /\ lane \in Seq(Chains) /\ Len(lane) # 0 /\ p = lane[1] /\ Fits(w, {p}, r)
  BY DEF Commits
<1>2. /\ Shaped(f) /\ f.mem = w.mem /\ f.lane = w.lane /\ f.proc[p] = Idle
      /\ f.queue = IF p = Dispatcher THEN Tail(w.queue) ELSE w.queue
      /\ \A q \in Others(p) : f.proc[q] = w.proc[q]
  <2>1. Shaped(w)
    BY <1>1
  <2> QED
    BY <2>1, FinishWorld
<1>3. Fits(f, {}, row)
  <2>1. f.proc[p].at \notin Waits /\ p \in {p} /\ {p} \ {p} = {}
    BY <1>2 DEF Idle, Waits
  <2>2. Fits(w, {p}, r) /\ f.mem.stage = w.mem.stage /\ f.lane = w.lane
    BY <1>1, <1>2
  <2>3. Fits(f, {p} \ {p}, r)
    BY <1>2, <2>1, <2>2, LeaveFits
  <2> QED
    BY <2>1, <2>3
<1>4. Known(f)
  BY <1>1, FinishCarrying DEF Carrying
<1>5. ASSUME CaughtUp(f), \A q \in Chains : ~Busy(f, q)
      PROVE  Synced(f, d)
  <2>1. CaughtUp(World)
    <3>1. World.proc = proc /\ World.queue = queue /\ Dispatcher \in Chains
      BY DEF World, Chains
    <3>2. CASE p = Dispatcher
      <4>1. Tail(queue) = <<>> /\ proc[Dispatcher] # Idle
        BY <1>1, <1>2, <1>5, <3>2 DEF CaughtUp, Idle
      <4>2. Len(queue) = 1
        BY <4>1, LastServed DEF RuntimeTyped, QueueOK
      <4> QED
        BY <3>1, <4>1, <4>2 DEF CaughtUp
    <3>3. CASE p # Dispatcher
      <4>1. f.queue = queue /\ f.proc[Dispatcher] = proc[Dispatcher]
        BY <1>1, <1>2, <3>1, <3>3 DEF Others
      <4> QED
        BY <1>5, <3>1, <4>1 DEF CaughtUp
    <3> QED
      BY <3>2, <3>3
  <2>2. \A q \in Others(p) : ~Busy(w, q)
    BY <1>2, <1>5 DEF Busy, Others
  <2>3. Lined(w, {p})
    BY <1>1 DEF Fits
  <2>4. Synced(w, d)
    BY <1>1, <2>1, <2>2, <2>3, AnsweredSync
  <2>5. \A i \in 1..Len(w.lane) : f.proc[w.lane[i]] = w.proc[w.lane[i]]
    BY <1>2, <2>3 DEF Lined, Others
  <2>6. PICK n : n = Len(w.lane) /\ n \in Nat
    BY <2>3 DEF Lined
  <2>7. /\ n # 0 => n \in 1..n
        /\ n # 0 /\ n # 1 => n - 1 \in 1..n
    <3>1. n \in Nat
      BY <2>6
    <3>2. n # 0 => n \in 1..n
      BY <3>1
    <3>3. n # 0 /\ n # 1 => n - 1 \in 1..n
      BY <3>1
    <3> QED
      BY <3>2, <3>3
  <2> QED
    BY <1>2, <2>4, <2>5, <2>6, <2>7 DEF Synced
<1>6. Sync(f, d)
  BY <1>5 DEF Sync
<1> QED
  BY <1>2, <1>3, <1>4, <1>6 DEF Stands

\* What stands in the log is exact.
LEMMA StandsExact ==
  ASSUME NEW v, NEW d, Stands(v, d), d = disk', Become(v), alive', Kept', row' = row
  PROVE  Exact'
<1>1. Fits(v, {}, row') /\ Sync(v, disk')
  BY DEF Stands
<1> QED
  BY <1>1, BecomeExact

\* Fields other than memory, the chains and the tail make no difference.
LEMMA AlterStands ==
  ASSUME NEW f, NEW d, Stands(f, d), NEW v, Shaped(v), v.mem = f.mem,
         v.proc = f.proc, v.lane = f.lane, v.queue = f.queue
  PROVE  Stands(v, d)
<1>1. Fits(v, {}, row)
  BY AlterFits DEF Stands
<1>2. Sync(v, d)
  BY DEF Stands, Sync, Synced, CaughtUp, Busy
<1>3. Known(v)
  BY DEF Stands, Known
<1> QED
  BY <1>1, <1>2, <1>3 DEF Stands

\* The utterance is handed over, or closed when nobody is there.
LEMMA HandedExact ==
  ASSUME NEW f, NEW d, Stands(f, d), d = disk', alive', Kept', row' = row,
         NEW say, NEW c, Handed(f, say, c)
  PROVE  Exact'
<1>1. PICK z : z = Unauthorize(f)
  OBVIOUS
<1>2. \/ Become(f)
      \/ Become(z)
      \/ f.proc[Undelivered] = Idle
         /\ \E u : Become(CloseUtterance(z, Undelivered, u, TRUE, Done, c))
  BY <1>1 DEF Handed
<1>3. /\ Shaped(z) /\ z.mem = f.mem /\ z.proc = f.proc /\ z.lane = f.lane
      /\ z.queue = f.queue
  BY <1>1, UnauthorizedWorld DEF Stands
<1>4. Stands(z, d)
  BY <1>3, AlterStands
<1>5. ASSUME NEW u, f.proc[Undelivered] = Idle,
             Become(CloseUtterance(z, Undelivered, u, TRUE, Done, c))
      PROVE  Exact'
  <2>1. PICK heard, then, v, r :
          /\ heard = TRUE /\ then = Done /\ r = row
          /\ v = CloseUtterance(z, Undelivered, u, heard, then, c)
    OBVIOUS
  <2>2. Undelivered \in Others(Observer) /\ then \in {Done, Ready}
    BY <2>1 DEF Undelivered, Observer, Others, Chains
  <2>3. z.proc[Undelivered].at \notin Waits /\ Fits(z, {}, r)
    BY <1>3, <1>4, <1>5, <2>1 DEF Idle, Waits, Stands
  <2>4. Fits(z, {} \cup {Undelivered}, r) /\ {} \cup {Undelivered} = {Undelivered}
    BY <2>3, IdleFits
  <2>5. Fits(z, {Undelivered}, r)
    BY <2>4
  <2>6. Fits(v, {}, r) /\ Unsettled(v)
    BY <1>3, <2>1, <2>2, <2>5, CloseUtteranceFits
  <2>7. Sync(v, disk') /\ Become(v) /\ Fits(v, {}, row')
    BY <1>5, <2>1, <2>6, UnsettledSync
  <2> QED
    BY <2>7, BecomeExact
<1>6. CASE Become(f)
  BY <1>6, StandsExact
<1>7. CASE Become(z)
  BY <1>4, <1>7, StandsExact
<1> QED
  BY <1>2, <1>5, <1>6, <1>7

\* With one more event on it, the tail is not caught up with.
LEMMA Lengthened ==
  ASSUME NEW q, IsSeq(q), NEW x
  PROVE  /\ Append(q, x) # <<>>
         /\ q # <<>> => Len(Append(q, x)) # 1
<1>1. PICK S : q \in Seq(S)
  BY DEF IsSeq
<1>2. PICK T : T = S \cup {x}
  OBVIOUS
<1>3. q \in Seq(T) /\ x \in T
  BY <1>1, <1>2
<1>4. Len(Append(q, x)) = Len(q) + 1 /\ Len(q) \in Nat /\ (q # <<>> => Len(q) # 0)
  BY <1>3
<1>5. Append(q, x) # <<>>
  BY <1>3, <1>4
<1> QED
  BY <1>4, <1>5

\* The readiness request leaves the dispatch chain with something to do.
LEMMA EnqueuedLate ==
  ASSUME NEW f, Shaped(f), QueueOK(f.queue),
         f.proc[Dispatcher] # Idle => f.queue # <<>>,
         NEW v, v = EnqueueStart(f)
  PROVE  ~CaughtUp(v)
<1>1. PICK x : x = [event |-> [type |-> "SESSION_STARTED"], before |-> {}]
  OBVIOUS
<1>2. v = [f EXCEPT !.queue = Append(f.queue, x)]
  BY <1>1 DEF EnqueueStart
<1>3. v.queue = Append(f.queue, x) /\ v.proc = f.proc
  BY <1>2 DEF Shaped
<1>4. v.queue # <<>> /\ (f.queue # <<>> => Len(v.queue) # 1)
  BY <1>3, Lengthened DEF QueueOK
<1> QED
  BY <1>3, <1>4 DEF CaughtUp

\* A checkpoint is durable, and its chain goes on.
LEMMA CheckpointedExact ==
  ASSUME RuntimeTyped, Exact, NEW p \in Chains, Head(lane) = p, Checkpointed(p),
         proc[p].key \notin keys
  PROVE  Exact'
<1>1. /\ MayCommit(p, "checkpoint") /\ proc[p].at = "checkpoint" /\ alive' = alive
      /\ proc[p].at # "idle" /\ row' = row /\ proc[p] # Idle
  BY DEF Checkpointed, MayCommit, Idle
<1>2. PICK w, f, r, at, job, d, e, key :
        /\ w = Committed(p) /\ f = Finish(w, p) /\ r = row /\ at = "checkpoint"
        /\ job = proc[p] /\ d = job.image /\ key = job.key
        /\ e = [type |-> "RUNTIME_CHECKPOINT", image |-> d]
  OBVIOUS
<1>3. alive /\ Fits(World, {}, r) /\ Kept /\ KeyedJob(job)
  BY <1>1, <1>2, AliveExact
<1>4. Commits(w, p, at, r)
  BY <1>1, <1>2, <1>3, CommittedFits
<1>5. d.stage = row /\ Fits(w, {p}, r) /\ Known(w)
  BY <1>2, <1>4 DEF Commits
<1>6. PICK then, c : /\ then = job.then
        /\ Put(e, key)
        /\ CASE then.do = "deliver" -> Handed(f, then.say, c)
             [] then.do = "advance" ->
                  Become(Advance(w, p, [do |-> "pass"], c)) /\ page' = page
             [] then.do = "ready" -> Become(EnqueueStart(f)) /\ page' = page
             [] OTHER -> Become(f) /\ page' = page
  BY <1>2 DEF Checkpointed
<1>7. Unstaged(key) /\ key \notin keys
  BY <1>1, <1>2, <1>3 DEF KeyedJob
<1>8. Kept' /\ disk' = d
  BY <1>1, <1>2, <1>3, <1>5, <1>6, <1>7, CheckpointKept
<1>9. Stands(f, d)
  BY <1>1, <1>2, <1>3, <1>4, FinishStands
<1>10. CASE then.do = "deliver"
  <2>1. PICK say : say = then.say
    OBVIOUS
  <2>2. Handed(f, say, c)
    BY <1>6, <1>10, <2>1
  <2> QED
    BY <1>1, <1>3, <1>8, <1>9, <2>2, HandedExact
<1>11. CASE then.do = "advance"
  <2>1. p = Observer
    <3>1. JobOK(p, job)
      BY <1>2 DEF RuntimeTyped, Known, World
    <3>2. ~Parting(then)
      BY <1>11 DEF Parting, Done, Ready
    <3> QED
      BY <1>1, <1>2, <1>6, <3>1, <3>2 DEF JobOK, ReplyJob
  <2>2. PICK go, v : go = [do |-> "pass"] /\ v = Advance(w, p, go, c)
    OBVIOUS
  <2>3. Become(v) /\ go.do = "pass"
    BY <1>6, <1>11, <2>2
  <2>4. /\ at \in {"checkpoint", "transition"} /\ proc[Observer].at = at
        /\ Commits(w, Observer, at, r) /\ Fits(w, {Observer}, r) /\ row' = r
        /\ at = "checkpoint" => d = proc[Observer].image
        /\ at = "transition" => d = Staged(disk, proc[Observer].to)
        /\ v = Advance(w, Observer, go, c)
    BY <1>1, <1>2, <1>4, <1>5, <2>1, <2>2
  <2> QED
    BY <1>1, <1>3, <1>8, <2>3, <2>4, PassedExact
<1>12. CASE then.do = "ready"
  <2>1. PICK v : v = EnqueueStart(f)
    OBVIOUS
  <2>2. Become(v)
    BY <1>6, <1>12, <2>1
  <2>3. Known(f) /\ QueueOK(f.queue) /\ (f.proc[Dispatcher] # Idle => f.queue # <<>>)
    BY <1>1, <1>2, FinishedWorld
  <2>4. /\ Known(v) /\ v.mem = f.mem /\ v.proc = f.proc /\ v.lane = f.lane
    BY <2>1, <2>3, EnqueuedWorld
  <2>5. ~CaughtUp(v)
    BY <1>9, <2>1, <2>3, EnqueuedLate DEF Stands
  <2>6. Fits(f, {}, row) /\ v.mem.stage = f.mem.stage
    BY <1>9, <2>4 DEF Stands
  <2>7. Fits(v, {}, row')
    BY <1>1, <2>4, <2>6, AlterFits
  <2>8. Sync(v, disk')
    BY <2>5 DEF Sync
  <2> QED
    BY <1>1, <1>3, <1>8, <2>2, <2>7, <2>8, BecomeExact
<1>13. CASE then.do \notin {"deliver", "advance", "ready"}
  <2>1. Become(f)
    BY <1>6, <1>13
  <2> QED
    BY <1>1, <1>3, <1>8, <1>9, <2>1, StandsExact
<1> QED
  BY <1>10, <1>11, <1>12, <1>13

-----------------------------------------------------------------------------
(* Steps of the environment.                                               *)

\* A process with nothing under way is in nobody's way.
LEMMA RestingFits ==
  ASSUME NEW w, NEW r, w.lane = <<>>, \A q \in Chains : w.proc[q] = Idle,
         w.mem.stage = r
  PROVE  Fits(w, {}, r)
<1>1. Len(w.lane) = 0 /\ w.lane \in Seq(Chains) /\ 1..Len(w.lane) = {}
  OBVIOUS
<1>2. Idle.at \notin Waits /\ KeyedJob(Idle)
  BY DEF Idle, Waits, KeyedJob
<1>3. Lined(w, {}) /\ Keyed(w)
  BY <1>1, <1>2 DEF Lined, Keyed
<1> DEFINE g == [i \in {0} |-> r]
<1>4. Leads(w, r, g)
  BY <1>1 DEF Leads
<1> QED
  BY <1>3, <1>4 DEF Fits, Path

\* The process as it is stands in the log as it is.
LEMMA ExactStands ==
  ASSUME RuntimeTyped, Exact, alive
  PROVE  Stands(World, disk)
BY DEF RuntimeTyped, Known, Exact, Stands

\* A step that touches neither the log, the row nor the process, but for
\* fields that make no difference.
LEMMA QuietExact ==
  ASSUME RuntimeTyped, Exact, alive, alive', row' = row, disk' = disk, keys' = keys,
         NEW v, Become(v), Shaped(v), v.mem = mem, v.proc = proc, v.lane = lane,
         v.queue = queue
  PROVE  Exact'
<1>1. PICK x, d : x = World /\ d = disk
  OBVIOUS
<1>2. Stands(x, d) /\ x.mem = mem /\ x.proc = proc /\ x.lane = lane /\ x.queue = queue
  BY <1>1, ExactStands DEF World
<1>3. Stands(v, d)
  BY <1>2, AlterStands
<1>4. Kept'
  BY DEF Exact, Kept
<1>5. d = disk'
  BY <1>1
<1> QED
  BY <1>3, <1>4, <1>5, StandsExact

\* An event arrives: the tail is not caught up with, or it waits for a process
\* to take it up from the log before it.
LEMMA ArriveExact ==
  ASSUME RuntimeTyped, Exact, NEW e, e.type \in EventTypes, Arrive(e)
  PROVE  Exact'
<1>1. PICK x, key : /\ x = [event |-> e, before |-> IF alive THEN {} ELSE {disk}]
                    /\ queue' = Append(queue, x) /\ key = <<>> /\ Put(e, key)
                    /\ alive' = alive /\ mem' = mem /\ live' = live /\ proc' = proc
                    /\ lane' = lane /\ row' = row
  BY DEF Arrive
<1>2. Kept /\ IsImage(disk) /\ IsSeq(queue)
  BY DEF Exact, RuntimeTyped, QueueOK
<1>3. Kept'
  <2>1. /\ e.type \notin {"RUNTIME_CHECKPOINT", "STATE_TRANSITIONED"}
        /\ Unstaged(key)
    BY <1>1 DEF EventTypes, Unstaged
  <2> QED
    BY <1>1, <1>2, <2>1, PutKept
<1>4. CASE alive
  <2>1. PICK w, v, r, d : w = World /\ v = World' /\ r = row /\ d = disk'
    OBVIOUS
  <2>2. /\ Fits(w, {}, r) /\ v.proc = w.proc /\ v.mem = w.mem /\ v.lane = w.lane
        /\ v.queue = queue' /\ v.proc = proc
    BY <1>1, <1>4, <2>1 DEF Exact, World
  <2>3. Fits(v, {}, r)
    BY <2>2, AlterFits
  <2>4. queue' # <<>> /\ (queue # <<>> => Len(queue') # 1)
    BY <1>1, <1>2, Lengthened
  <2>5. ~CaughtUp(v)
    BY <2>2, <2>4 DEF CaughtUp, RuntimeTyped
  <2>6. Sync(v, d)
    BY <2>5 DEF Sync
  <2> QED
    BY <1>1, <1>3, <1>4, <2>1, <2>3, <2>6 DEF Exact
<1>5. CASE ~alive
  <2>1. Asleep
    BY <1>5 DEF Exact
  <2>2. ASSUME NEW i \in 1..Len(queue'), NEW m \in queue'[i].before
        PROVE  m.stage = row
    <3>1. \/ i \in 1..Len(queue) /\ queue'[i] = queue[i]
          \/ queue'[i] = x
      <4>1. PICK S : queue \in Seq(S)
        BY <1>2 DEF IsSeq
      <4>2. PICK T : T = S \cup {x}
        OBVIOUS
      <4>3. queue \in Seq(T) /\ x \in T
        BY <4>1, <4>2
      <4>4. /\ Len(queue') = Len(queue) + 1 /\ Len(queue) \in Nat
            /\ \A k \in 1..(Len(queue) + 1) :
                 queue'[k] = IF k <= Len(queue) THEN queue[k] ELSE x
        BY <1>1, <4>3
      <4> QED
        BY <2>2, <4>4
    <3>2. CASE i \in 1..Len(queue) /\ queue'[i] = queue[i]
      BY <2>1, <2>2, <3>2 DEF Asleep
    <3>3. CASE queue'[i] = x
      <4>1. m = disk
        BY <1>1, <1>5, <2>2, <3>3
      <4> QED
        BY <1>2, <4>1 DEF Kept
    <3> QED
      BY <3>1, <3>2, <3>3
  <2>3. Asleep'
    BY <1>1, <2>1, <2>2 DEF Asleep
  <2> QED
    BY <1>1, <1>3, <1>5, <2>3 DEF Exact
<1> QED
  BY <1>4, <1>5

\* What the candidate does.
LEMMA CandidateExact ==
  ASSUME RuntimeTyped, Exact, Candidate
  PROVE  Exact'
<1>1. PICK e : e.type \in EventTypes /\ Arrive(e)
  <2>1. CASE CompleteRun
    <3>1. PICK e : e.type = "RUN_COMPLETED" /\ Arrive(e)
      BY <2>1 DEF CompleteRun
    <3> QED
      BY <3>1 DEF EventTypes
  <2>2. CASE \E e, cost : e.type \in EventTypes /\ Frame(e, cost)
    BY <2>2 DEF Frame
  <2> QED
    BY <2>1, <2>2, CandidateCases
<1> QED
  BY <1>1, ArriveExact

\* The clock.
LEMMA ClockExact ==
  ASSUME Exact, ClockRuns
  PROVE  Exact'
<1>1. /\ alive' = alive /\ row' = row /\ disk' = disk /\ keys' = keys
      /\ lane' = lane /\ proc' = proc /\ live' = live /\ queue' = queue
      /\ World' = World
  BY DEF ClockRuns, runtime, World
<1>2. Kept' /\ (Asleep => Asleep')
  BY <1>1 DEF Exact, Kept, Asleep
<1>3. PICK x, r, d : x = World /\ r = row /\ d = disk
  OBVIOUS
<1>4. x = World' /\ r = row' /\ d = disk'
  BY <1>1, <1>3
<1>5. alive => Fits(x, {}, r) /\ Sync(x, d)
  BY <1>3 DEF Exact
<1> QED
  BY <1>1, <1>2, <1>4, <1>5 DEF Exact

\* A process takes the session up from the log before the first event it finds.
LEMMA CreateExact ==
  ASSUME RuntimeTyped, Exact, CreateForDispatch
  PROVE  Exact'
<1>1. /\ ~alive /\ alive' /\ queue # <<>> /\ lane' = lane /\ proc' = proc
      /\ queue' = queue /\ row' = row /\ disk' = disk /\ keys' = keys
  BY DEF CreateForDispatch
<1>2. PICK image \in Head(queue).before : mem' = image
  BY DEF CreateForDispatch
<1>3. Asleep /\ Kept'
  BY <1>1 DEF Exact, Kept
<1>4. image.stage = row
  <2>1. PICK S : queue \in Seq(S)
    BY DEF RuntimeTyped, QueueOK, IsSeq
  <2>2. Head(queue) = queue[1] /\ 1 \in 1..Len(queue)
    BY <1>1, <2>1
  <2> QED
    BY <1>2, <1>3, <2>2 DEF Asleep
<1>5. PICK v, r, d : v = World' /\ r = row' /\ d = disk'
  OBVIOUS
<1>6. /\ v.lane = <<>> /\ \A q \in Chains : v.proc[q] = Idle
      /\ v.mem.stage = r /\ v.queue # <<>> /\ Dispatcher \in Chains
  BY <1>1, <1>2, <1>3, <1>4, <1>5 DEF World, Asleep, Chains
<1>7. Fits(v, {}, r)
  BY <1>6, RestingFits
<1>8. Sync(v, d)
  BY <1>6 DEF Sync, CaughtUp
<1> QED
  BY <1>1, <1>3, <1>5, <1>7, <1>8 DEF Exact

\* The process dies.
LEMMA CrashExact ==
  ASSUME Kept, Crash
  PROVE  Exact'
<1>1. /\ ~alive' /\ row' = row /\ disk' = disk /\ keys' = keys
      /\ live' = Fresh /\ lane' = <<>> /\ queue' = <<>>
      /\ proc' = [q \in Chains |-> Idle]
  BY DEF Crash
<1>2. Kept'
  BY <1>1 DEF Kept
<1>3. live'.authorized = {} /\ 1..Len(queue') = {}
  BY <1>1 DEF Fresh
<1>4. Asleep'
  BY <1>1, <1>3 DEF Asleep
<1> QED
  BY <1>1, <1>2, <1>4 DEF Exact

\* A chain that was at rest awaits the database, and the log is as it was.
LEMMA AwakenedExact ==
  ASSUME RuntimeTyped, Exact, alive, alive', row' = row, disk' = disk, keys' = keys,
         NEW p \in Chains, proc[p] = Idle, NEW w, Shaped(w), w.mem = mem,
         w.proc = proc, w.lane = lane, NEW job, job.at \in {"elapsed", "outcome"},
         NEW v, v = Await(w, p, job), Become(v)
  PROVE  Exact'
<1>1. PICK x, r : x = World /\ r = row
  OBVIOUS
<1>2. x.mem = mem /\ x.proc = proc /\ x.lane = lane /\ Fits(x, {}, r)
  BY <1>1 DEF World, Exact
<1>3. Fits(w, {}, r)
  BY <1>2, AlterFits
<1>4. w.proc[p].at \notin Waits
  BY DEF Idle, Waits
<1>5. Fits(w, {} \cup {p}, r) /\ {} \cup {p} = {p} /\ {p} \ {p} = {} /\ p \in {p}
  BY <1>3, <1>4, IdleFits
<1>6. Fits(w, {p}, r)
  BY <1>5
<1>7. job.at \in Waits \ {"transition"} /\ KeyedJob(job) /\ Image(w, job)
  BY DEF Waits, KeyedJob, Image
<1>8. Fits(v, {p} \ {p}, r) /\ Unsettled(v)
  BY <1>5, <1>6, <1>7, AwaitFits
<1>9. Fits(v, {}, row)
  BY <1>1, <1>5, <1>8
<1> QED
  BY <1>8, <1>9, GoesOnExact

\* A silence timer fires.
LEMMA TimerExact ==
  ASSUME RuntimeTyped, Exact, NEW p \in Timers, TimerFires(p)
  PROVE  Exact'
<1>1. /\ alive /\ alive' = alive /\ row' = row /\ disk' = disk /\ keys' = keys
      /\ proc[p] = Idle /\ p \in Chains
  BY DEF TimerFires, Chains
<1>2. PICK l :
        /\ \/ l = [live EXCEPT !.handle = FALSE]
           \/ l = [live EXCEPT !.leaked = live.leaked - 1]
        /\ \/ Become(WithLive(World, l))
           \/ \E h, timed, enough :
                Become(Await(WithLive(World, l), p,
                             [at |-> "elapsed", held |-> h, timed |-> timed,
                              enough |-> enough]))
  <2>1. PICK own \in BOOLEAN, enough \in BOOLEAN :
          LET l == IF own THEN [live EXCEPT !.handle = FALSE]
                          ELSE [live EXCEPT !.leaked = live.leaked - 1]
          IN  IF live.held = {} THEN ~enough /\ Become(WithLive(World, l))
              ELSE \E h \in live.held :
                     Become(Await(WithLive(World, l), p,
                                  [at |-> "elapsed", held |-> h,
                                   timed |-> live.timed, enough |-> enough]))
    BY DEF TimerFires
  <2>2. PICK l : l = IF own THEN [live EXCEPT !.handle = FALSE]
                            ELSE [live EXCEPT !.leaked = live.leaked - 1]
    OBVIOUS
  <2> QED
    BY <2>1, <2>2
<1>3. PICK x, fired : x = World /\ fired = WithLive(x, l)
  OBVIOUS
<1>4. /\ Shaped(x) /\ x.live = live /\ x.proc = proc /\ x.mem = mem
      /\ x.lane = lane /\ x.queue = queue
  BY <1>3 DEF RuntimeTyped, Known, World
<1>5. l = [f \in LiveFields |-> l[f]]
  BY <1>2, <1>4 DEF Shaped, LiveFields
<1>6. /\ Shaped(fired) /\ fired.proc = proc /\ fired.mem = mem
      /\ fired.lane = lane /\ fired.queue = queue
  BY <1>3, <1>4, <1>5, LiveWorld
<1>7. CASE Become(fired)
  BY <1>1, <1>6, <1>7, QuietExact
<1>8. ASSUME NEW h, NEW timed, NEW enough,
             Become(Await(fired, p, [at |-> "elapsed", held |-> h,
                                     timed |-> timed, enough |-> enough]))
      PROVE  Exact'
  <2>1. PICK job, v : /\ job = [at |-> "elapsed", held |-> h, timed |-> timed,
                                enough |-> enough]
                      /\ v = Await(fired, p, job)
    OBVIOUS
  <2>2. job.at \in {"elapsed", "outcome"} /\ Become(v)
    BY <1>8, <2>1
  <2> QED
    BY <1>1, <1>6, <2>1, <2>2, AwakenedExact
<1> QED
  BY <1>2, <1>3, <1>7, <1>8

\* A report of how an utterance ended awaits the database.
LEMMA ReportExact ==
  ASSUME RuntimeTyped, Exact, alive, alive', row' = row, disk' = disk, keys' = keys,
         NEW p \in Chains, proc[p] = Idle, NEW w, Shaped(w), w.mem = mem,
         w.proc = proc, w.lane = lane, NEW u, NEW heard, NEW then,
         NEW v, v = ReportOutcome(w, p, u, heard, then), Become(v)
  PROVE  Exact'
<1>1. PICK z, job : /\ z = Unauthorize(w)
                    /\ job = [at |-> "outcome", utterance |-> u, heard |-> heard,
                              then |-> then]
                    /\ v = Await(z, p, job)
  BY DEF ReportOutcome
<1>2. Shaped(z) /\ z.mem = mem /\ z.proc = proc /\ z.lane = lane
  BY <1>1, UnauthorizedWorld
<1>3. job.at \in {"elapsed", "outcome"}
  BY <1>1
<1> QED
  BY <1>1, <1>2, <1>3, AwakenedExact

\* The browser is done with its utterance.
LEMMA CompleteExact ==
  ASSUME RuntimeTyped, Exact, NEW p \in Requests, UtteranceComplete(p)
  PROVE  Exact'
<1>1. /\ alive' = alive /\ row' = row /\ disk' = disk /\ keys' = keys
      /\ proc[p] = Idle /\ p \in Chains
  BY DEF UtteranceComplete, Chains
<1>2. PICK u, heard, aged :
        Become(IF \E open \in VoiceContext(World, aged).live.authorized :
                        open.id = u.id
                  THEN ReportOutcome(VoiceContext(World, aged), p,
                         CHOOSE open \in VoiceContext(World, aged).live.authorized : TRUE,
                         heard, Done)
                  ELSE VoiceContext(World, aged))
  BY DEF UtteranceComplete
<1>3. PICK x, w : x = World /\ w = VoiceContext(x, aged)
  OBVIOUS
<1>4. /\ Shaped(x) /\ x.live = live /\ x.proc = proc /\ x.mem = mem
      /\ x.lane = lane /\ x.queue = queue
  BY <1>3 DEF RuntimeTyped, Known, World
<1>5. /\ Shaped(w) /\ w.proc = proc /\ w.mem = mem /\ w.lane = lane
      /\ w.queue = queue /\ w.live.authorized \subseteq live.authorized
  BY <1>3, <1>4, VoiceContextWorld
<1>6. \/ w.live.authorized # {}
         /\ \E open, v : v = ReportOutcome(w, p, open, heard, Done) /\ Become(v)
      \/ Become(w)
  BY <1>2, <1>3
<1>7. CASE alive
  <2>1. ASSUME NEW open, NEW v, v = ReportOutcome(w, p, open, heard, Done), Become(v)
        PROVE  Exact'
    <3>1. PICK then : then = Done
      OBVIOUS
    <3>2. v = ReportOutcome(w, p, open, heard, then)
      BY <2>1, <3>1
    <3> QED
      BY <1>1, <1>5, <1>7, <2>1, <3>2, ReportExact
  <2>2. CASE Become(w)
    BY <1>1, <1>5, <1>7, <2>2, QuietExact
  <2> QED
    BY <1>6, <2>1, <2>2
<1>8. CASE ~alive
  <2>1. Asleep /\ Kept
    BY <1>8 DEF Exact
  <2>2. Become(w)
    BY <1>5, <1>6, <2>1 DEF Asleep
  <2>3. /\ lane' = lane /\ proc' = proc /\ queue' = queue
        /\ live'.authorized \subseteq live.authorized
    BY <1>5, <2>2 DEF Become
  <2>4. Asleep' /\ Kept'
    BY <1>1, <2>1, <2>3 DEF Asleep, Kept
  <2> QED
    BY <1>1, <1>8, <2>4 DEF Exact
<1> QED
  BY <1>7, <1>8

\* A page reports that it is ready.
LEMMA ReadyExact ==
  ASSUME RuntimeTyped, Exact, NEW p \in Requests, VoiceReady(p)
  PROVE  Exact'
<1>1. /\ alive' /\ row' = row /\ disk' = disk /\ keys' = keys
      /\ proc[p] = Idle /\ p \in Chains
  BY DEF VoiceReady, Chains
<1>2. PICK w, held :
        /\ w = IF alive THEN World ELSE WithMem(World, disk)
        /\ IF Orphaned(w, held) # {}
           THEN Become(ReportOutcome(w, p, CHOOSE u \in Orphaned(w, held) : TRUE,
                                     FALSE, Ready))
           ELSE Become(EnqueueStart(w))
  <2>1. \E held \in {page, {}} :
          LET w      == IF alive THEN World ELSE WithMem(World, disk)
              orphan == Orphaned(w, held)
          IN  /\ page' = held
              /\ IF orphan # {}
                 THEN Become(ReportOutcome(w, p, CHOOSE u \in orphan : TRUE,
                                           FALSE, Ready))
                 ELSE Become(EnqueueStart(w))
    BY DEF VoiceReady
  <2>2. PICK held \in {page, {}} :
          LET w == IF alive THEN World ELSE WithMem(World, disk)
          IN  IF Orphaned(w, held) # {}
              THEN Become(ReportOutcome(w, p, CHOOSE u \in Orphaned(w, held) : TRUE,
                                        FALSE, Ready))
              ELSE Become(EnqueueStart(w))
    BY <2>1
  <2>3. PICK w : w = IF alive THEN World ELSE WithMem(World, disk)
    OBVIOUS
  <2>4. IF Orphaned(w, held) # {}
        THEN Become(ReportOutcome(w, p, CHOOSE u \in Orphaned(w, held) : TRUE,
                                  FALSE, Ready))
        ELSE Become(EnqueueStart(w))
    BY <2>2, <2>3
  <2> QED
    BY <2>3, <2>4
<1>3. PICK x, r, d : x = World /\ r = row /\ d = disk
  OBVIOUS
<1>4. /\ Known(x) /\ Shaped(x) /\ x.live = live /\ x.proc = proc /\ x.mem = mem
      /\ x.lane = lane /\ x.queue = queue
  BY <1>3 DEF RuntimeTyped, Known, World
<1>5. /\ Shaped(w) /\ w.live = live /\ w.proc = proc /\ w.lane = lane
      /\ w.queue = queue /\ w.mem = IF alive THEN mem ELSE disk
  <2>1. CASE alive
    BY <1>2, <1>3, <1>4, <2>1
  <2>2. CASE ~alive
    <3>1. w = WithMem(x, d) /\ d = [f \in MemFields |-> d[f]]
      BY <1>2, <1>3, <2>2 DEF RuntimeTyped, IsImage
    <3>2. /\ Shaped(w) /\ w.mem = d /\ w.live = x.live /\ w.proc = x.proc
          /\ w.lane = x.lane /\ w.queue = x.queue
      BY <1>4, <3>1, MemWorld
    <3> QED
      BY <1>3, <1>4, <2>2, <3>2
  <2> QED
    BY <2>1, <2>2
<1>6. Known(w)
  BY <1>4, <1>5 DEF Known
<1>7. Kept' /\ QueueOK(queue) /\ (proc[Dispatcher] # Idle => queue # <<>>)
  BY <1>1 DEF Exact, Kept, RuntimeTyped
<1>8. Fits(w, {}, r)
  <2>1. CASE alive
    <3>1. Fits(x, {}, r) /\ w.mem.stage = x.mem.stage
      BY <1>3, <1>4, <1>5, <2>1 DEF Exact
    <3> QED
      BY <1>4, <1>5, <3>1, AlterFits
  <2>2. CASE ~alive
    <3>1. /\ w.lane = <<>> /\ (\A q \in Chains : w.proc[q] = Idle)
          /\ w.mem.stage = r
      BY <1>3, <1>5, <2>2 DEF Exact, Asleep, Kept
    <3> QED
      BY <3>1, RestingFits
  <2> QED
    BY <2>1, <2>2
<1>9. CASE Orphaned(w, held) # {}
  <2>1. PICK u, heard, then, v :
          v = ReportOutcome(w, p, u, heard, then) /\ Become(v)
    BY <1>2, <1>9
  <2>2. alive
    <3>1. w.live.authorized # {}
      BY <1>9 DEF Orphaned
    <3> QED
      BY <1>5, <3>1 DEF Exact, Asleep
  <2> QED
    BY <1>1, <1>5, <2>1, <2>2, ReportExact
<1>10. CASE Orphaned(w, held) = {}
  <2>1. PICK v : v = EnqueueStart(w) /\ Become(v)
    BY <1>2, <1>10
  <2>2. /\ v.mem = w.mem /\ v.proc = w.proc /\ v.lane = w.lane
    BY <1>5, <1>6, <1>7, <2>1, EnqueuedWorld
  <2>3. ~CaughtUp(v)
    BY <1>5, <1>7, <2>1, EnqueuedLate
  <2>4. Fits(v, {}, r)
    BY <1>8, <2>2, AlterFits
  <2>5. Sync(v, disk') /\ Fits(v, {}, row')
    BY <1>1, <1>3, <2>3, <2>4 DEF Sync
  <2> QED
    BY <1>1, <1>7, <2>1, <2>5, BecomeExact
<1> QED
  BY <1>9, <1>10

-----------------------------------------------------------------------------
(* Every step.                                                             *)

\* What gets memory and the log apart: a commit overtakes one issued before it;
\* a checkpoint is swallowed, its key being on record; an operation fails.
Commit(p) == Run(p) \/ (p = Observer /\ (MilestoneRecorded \/ StateRecorded))

Overtakes == \E p \in Chains : Commit(p) /\ Head(lane) # p

Swallows == \E p \in Chains : Checkpointed(p) /\ proc[p].key \in keys

Fails == \E p \in Chains : Fault(p)

\* No other step gets memory and the log apart.
LEMMA ExactStep ==
  ASSUME RuntimeTyped, Exact, Next, ~Overtakes, ~Swallows, ~Fails
  PROVE  Exact'
<1>1. CASE Candidate
  BY <1>1, CandidateExact
<1>2. CASE ClockRuns
  BY <1>2, ClockExact
<1>3. CASE Crash
  BY <1>3, CrashExact DEF Exact
<1>4. CASE CreateForDispatch
  BY <1>4, CreateExact
<1>5. CASE Serve
  BY <1>5, ServeExact
<1>6. CASE Classified
  BY <1>6, ClassifiedExact
<1>7. CASE Observe
  <2>1. ASSUME MilestoneRecorded \/ StateRecorded PROVE Head(lane) = Observer
    BY <2>1 DEF Overtakes, Commit, Chains
  <2> QED
    BY <1>7, <2>1, ParsedExact, ObservedExact DEF Observe
<1>8. ASSUME NEW p \in Chains, Run(p)
      PROVE  Exact'
  <2>0. Head(lane) = p
    BY <1>8 DEF Overtakes, Commit
  <2>1. CASE Transitioned(p)
    BY <2>0, <2>1, TransitionedExact
  <2>2. CASE Opened(p)
    BY <2>0, <2>2, OpenedExact
  <2>3. CASE Decided(p)
    BY <2>0, <2>3, DecidedExact
  <2>4. CASE Superseded(p)
    BY <2>0, <2>4, SupersededExact
  <2>5. CASE Realized(p)
    BY <2>0, <2>5, RealizedExact
  <2>6. CASE Checkpointed(p)
    BY <2>0, <2>6, CheckpointedExact DEF Swallows
  <2>7. CASE Elapsed(p)
    BY <2>0, <2>7, ElapsedExact
  <2>8. CASE OutcomeRecorded(p)
    BY <2>0, <2>8, OutcomeExact
  <2> QED
    BY <1>8, <2>1, <2>2, <2>3, <2>4, <2>5, <2>6, <2>7, <2>8 DEF Run
<1>9. CASE \E p \in Timers : TimerFires(p)
  BY <1>9, TimerExact
<1>10. CASE \E p \in Requests : UtteranceComplete(p)
  BY <1>10, CompleteExact
<1>11. CASE \E p \in Requests : VoiceReady(p)
  BY <1>11, ReadyExact
<1> QED
  BY <1>1, <1>2, <1>3, <1>4, <1>5, <1>6, <1>7, <1>8, <1>9, <1>10, <1>11
    DEF Next, Fails

\* A session starts from what its log holds: nothing.
LEMMA InitExact ==
  ASSUME Init
  PROVE  Exact
<1>1. PICK n \in SettingNames :
        left = [kind \in Kinds \cup {"setting"} |->
                  IF kind = "setting" THEN n ELSE SettingOf(n).limits[kind]]
  BY DEF Init
<1>2. left.setting = n /\ Start = SettingOf(n).start
  BY <1>1 DEF Start, Setting
<1>3. SettingOf(n).start \in Images
  BY RuntimeAssumption
<1>4. Start.stage \in States
  BY <1>2, <1>3 DEF Images
<1>5. Kept
  BY <1>4 DEF Init, Kept, Entered
<1>6. Asleep /\ ~alive
  BY DEF Init, Asleep, Fresh
<1> QED
  BY <1>5, <1>6 DEF Exact

\* While memory and the log are together, one that takes over from a process
\* with nothing in flight rebuilds the very state it holds.  They are together
\* from the start, and get apart in three kinds of step only, whatever the
\* candidate, crashes, restarts, timers and sockets do and however chains
\* interleave; and they come together again when the process dies at a moment
\* at which the log's stage is the row's.  A failed operation is one of the
\* three, so the exactness needs no exception for an earlier one (checkpoint,
\* restore, restoreEvent, persistCheckpoint, transitionWithEvent).
THEOREM RecoveryIsExactHolds ==
  Spec => /\ Exact
          /\ [][Exact \/ (Kept /\ Crash) =>
                  Exact' \/ Overtakes \/ Swallows \/ Fails]_vars
          /\ [](Exact => RecoveryIsExact)
<1>1. Init => RuntimeTyped /\ OnePage /\ Exact
  BY InitTyped, InitExact DEF Window, OnePage
<1>2. ASSUME RuntimeTyped, OnePage, [Next]_vars
      PROVE  /\ RuntimeTyped' /\ OnePage'
             /\ [Exact \/ (Kept /\ Crash) =>
                   Exact' \/ Overtakes \/ Swallows \/ Fails]_vars
  <2>1. RuntimeTyped' /\ OnePage'
    BY <1>2, PageStep
  <2>2. ASSUME Exact, Next, ~Overtakes, ~Swallows, ~Fails PROVE Exact'
    BY <1>2, <2>2, ExactStep
  <2>3. ASSUME Kept, Crash PROVE Exact'
    BY <2>3, CrashExact
  <2> QED
    BY <1>2, <2>1, <2>2, <2>3
<1>3. ASSUME Exact PROVE RecoveryIsExact
  <2> SUFFICES ASSUME Quiescent PROVE disk = mem
    BY DEF RecoveryIsExact
  <2>1. Fits(World, {}, row) /\ Sync(World, disk)
    BY <1>3 DEF Exact, Quiescent
  <2>2. PICK w, d : w = World /\ d = disk
    OBVIOUS
  <2>3. /\ Fits(w, {}, row) /\ Sync(w, d) /\ w.queue = <<>> /\ w.mem = mem
        /\ \A q \in Chains : w.proc[q] = Idle
    BY <1>3, <2>1, <2>2 DEF Quiescent, World
  <2>4. w.lane \in Seq(Chains) /\ Len(w.lane) \in Nat
    BY <2>3 DEF Fits, Lined
  <2>5. Len(w.lane) = 0
    <3>1. ASSUME Len(w.lane) # 0 PROVE FALSE
      <4>1. 1 \in 1..Len(w.lane) /\ w.lane[1] \in Chains
        BY <2>4, <3>1
      <4>2. w.proc[w.lane[1]].at \in Waits /\ w.proc[w.lane[1]] = Idle
        BY <2>3, <4>1 DEF Fits, Lined
      <4> QED
        BY <4>2 DEF Idle, Waits
    <3> QED
      BY <3>1
  <2>6. CaughtUp(w) /\ \A q \in Chains : ~Busy(w, q)
    BY <2>3 DEF CaughtUp, Busy, Idle, Chains
  <2> QED
    BY <2>2, <2>3, <2>5, <2>6 DEF Sync, Synced
<1> QED
  BY <1>1, <1>2, <1>3, PTL DEF Spec

-----------------------------------------------------------------------------
(* One reply per turn.                                                     *)

Turned(turn) == <<"turn", turn.id>>

\* The keys of the replies that a chain may still give.
Owes(job) ==
  IF job.at = "realized" THEN {job.key}
  ELSE IF job.at \in {"classify", "decided"} THEN {Turned(job.turn)}
  ELSE IF job.at = "transition" /\ job.then.do = "judge" THEN {Turned(job.then.turn)}
  ELSE {}

\* The keys of the replies to turns that are held.
Parked(l) ==
  {Turned(h.turn) : h \in l.held} \cup {Turned(t) : t \in l.speakingHeld}

\* Not the key of a reply.
Foreign(key) ==
  \A k : key \notin {<<"turn", k>>, <<"brief", k>>, <<"redeliver", k>>}

\* Replies have keys of their own, and an opening delivers the brief.
Proper(job) ==
  /\ job.at = "opening" => /\ Foreign(job.id)
                           /\ job.decision.action = "DELIVER_BRIEF"
  /\ job.at = "checkpoint" => Foreign(job.key)
  /\ job.at = "transition" => (job.then.do = "save" => Foreign(job.then.key))

\* A key that was handed out: counted in memory, or of a turn past n.
Issued(t, m, n) ==
  /\ \A k : t = <<"brief", k>> => k \in Nat /\ k <= m.briefs
  /\ \A k : t = <<"redeliver", k>> => k \in Nat /\ k <= m.redeliveries
  /\ \A k : t = <<"turn", k>> => k \in Nat /\ n < k

\* A key of a reply that was handed out and not used.
Due(t, m, K, n) == ~Foreign(t) /\ t \notin K /\ Issued(t, m, n)

\* Every key of a reply is owed in one place: by one chain, or by a held turn.
\* In the place of what chain p owes stands T.
Owing(w, p, T, K, n) ==
  /\ w.mem.briefs \in Nat /\ w.mem.redeliveries \in Nat
  /\ \A q \in Others(p) : Proper(w.proc[q])
  /\ \A q \in Others(p) : \A t \in Owes(w.proc[q]) :
       /\ Due(t, w.mem, K, n) /\ t \notin T /\ t \notin Parked(w.live)
       /\ \A s \in Others(p) : t \in Owes(w.proc[s]) => s = q
  /\ \A t \in T : Due(t, w.mem, K, n) /\ t \notin Parked(w.live)
  /\ \A t \in Parked(w.live) : Due(t, w.mem, K, n)
  /\ \A t \in K : Issued(t, w.mem, n)

Whole(w, K, n) ==
  /\ w.mem.briefs \in Nat /\ w.mem.redeliveries \in Nat
  /\ \A q \in Chains : Proper(w.proc[q])
  /\ \A q \in Chains : \A t \in Owes(w.proc[q]) :
       /\ Due(t, w.mem, K, n) /\ t \notin Parked(w.live)
       /\ \A s \in Chains : t \in Owes(w.proc[s]) => s = q
  /\ \A t \in Parked(w.live) : Due(t, w.mem, K, n)
  /\ \A t \in K : Issued(t, w.mem, n)

\* What the observation loop awaits while it owes no transition.
Watching == {"idle", "parsing", "milestone", "observed"}

\* Nothing about replies differs but what chain p owes.
Alike(w, v, p) ==
  /\ v.mem.briefs = w.mem.briefs /\ v.mem.redeliveries = w.mem.redeliveries
  /\ v.live.held = w.live.held /\ v.live.speakingHeld = w.live.speakingHeld
  /\ \A q \in Others(p) : v.proc[q] = w.proc[q] \/ v.proc[q].at \in Watching

Leaves(w, v, p, T) ==
  Alike(w, v, p) /\ Proper(v.proc[p]) /\ Owes(v.proc[p]) \subseteq T

\* A chain is taken on.
LEMMA TakenOn ==
  ASSUME NEW w, NEW K, NEW n, Whole(w, K, n), NEW p \in Chains,
         NEW T, T \subseteq Owes(w.proc[p])
  PROVE  Owing(w, p, T, K, n) /\ Proper(w.proc[p])
BY DEF Whole, Owing, Others

\* It owes less than it did.
LEMMA OwesLess ==
  ASSUME NEW w, NEW p, NEW T, NEW K, NEW n, Owing(w, p, T, K, n),
         NEW S, S \subseteq T
  PROVE  Owing(w, p, S, K, n)
BY DEF Owing

\* What watches owes nothing.
LEMMA WatchingOwes ==
  ASSUME NEW job, job.at \in Watching
  PROVE  Owes(job) = {} /\ Proper(job)
BY DEF Watching, Owes, Proper

\* Elsewhere nothing differs.
LEMMA AlikeOwing ==
  ASSUME NEW w, NEW p, NEW T, NEW K, NEW n, Owing(w, p, T, K, n),
         NEW v, Alike(w, v, p)
  PROVE  Owing(v, p, T, K, n)
<1>1. Parked(v.live) = Parked(w.live)
  BY DEF Alike, Parked
<1>2. \A t : Due(t, w.mem, K, n) => Due(t, v.mem, K, n)
  BY DEF Alike, Due, Issued
<1>3. \A t : Issued(t, w.mem, n) => Issued(t, v.mem, n)
  BY DEF Alike, Issued
<1>4. \A q \in Others(p) : /\ Owes(v.proc[q]) \subseteq Owes(w.proc[q])
                           /\ Proper(w.proc[q]) => Proper(v.proc[q])
  BY WatchingOwes DEF Alike
<1>5. v.mem.briefs \in Nat /\ v.mem.redeliveries \in Nat
  BY DEF Alike, Owing
<1> QED
  BY <1>1, <1>2, <1>3, <1>4, <1>5 DEF Owing

\* The chain is left again.
LEMMA LeftAgain ==
  ASSUME NEW w, NEW p \in Chains, NEW T, NEW K, NEW n, Owing(w, p, T, K, n),
         NEW v, Leaves(w, v, p, T)
  PROVE  Whole(v, K, n)
<1>1. Owing(v, p, T, K, n)
  BY AlikeOwing DEF Leaves
<1>2. Proper(v.proc[p]) /\ Owes(v.proc[p]) \subseteq T
  BY DEF Leaves
<1>3. \A q \in Chains : q = p \/ q \in Others(p)
  BY DEF Others
<1>4. ASSUME NEW q \in Chains, NEW t \in Owes(v.proc[q])
      PROVE  /\ Due(t, v.mem, K, n) /\ t \notin Parked(v.live)
             /\ \A s \in Chains : t \in Owes(v.proc[s]) => s = q
  BY <1>1, <1>2, <1>3, <1>4 DEF Owing
<1>5. \A q \in Chains : Proper(v.proc[q])
  BY <1>1, <1>2, <1>3 DEF Owing
<1> QED
  BY <1>1, <1>4, <1>5 DEF Owing, Whole

\* One thing after another.
LEMMA AlikeLeaves ==
  ASSUME NEW w, NEW u, NEW p, NEW T, Alike(w, u, p), NEW v, Leaves(u, v, p, T)
  PROVE  Leaves(w, v, p, T)
BY DEF Alike, Leaves

\* A key that is none of a reply is used.
LEMMA ForeignOwing ==
  ASSUME NEW w, NEW p, NEW T, NEW K, NEW n, Owing(w, p, T, K, n),
         NEW key, Foreign(key)
  PROVE  Owing(w, p, T, K \cup {key}, n)
<1>1. \A t : Due(t, w.mem, K, n) => Due(t, w.mem, K \cup {key}, n)
  BY DEF Due
<1>2. Issued(key, w.mem, n)
  BY DEF Foreign, Issued
<1> QED
  BY <1>1, <1>2 DEF Owing

\* The key of a reply is used.
LEMMA SpokenOwing ==
  ASSUME NEW w, NEW p, NEW K, NEW n, NEW key, Owing(w, p, {key}, K, n)
  PROVE  Owing(w, p, {}, K \cup {key}, n)
<1>1. \A t : Due(t, w.mem, K, n) /\ t # key => Due(t, w.mem, K \cup {key}, n)
  BY DEF Due
<1>2. Issued(key, w.mem, n) /\ key \notin Parked(w.live)
  BY DEF Owing, Due
<1> QED
  BY <1>1, <1>2 DEF Owing

\* A held turn is taken up: none is held then.
LEMMA UnparkedOwing ==
  ASSUME NEW w, NEW p, NEW K, NEW n, Owing(w, p, {}, K, n),
         NEW key \in Parked(w.live), NEW v, v.mem = w.mem, v.proc = w.proc,
         v.live.held = {}, v.live.speakingHeld = {}
  PROVE  Owing(v, p, {key}, K, n)
<1>1. Parked(v.live) = {}
  BY DEF Parked
<1> QED
  BY <1>1 DEF Owing

\* A turn is held: its chain owes no reply to it any more.
LEMMA ParkedOwing ==
  ASSUME NEW w, NEW p, NEW K, NEW n, NEW key, Owing(w, p, {key}, K, n), NEW v,
         v.mem.briefs = w.mem.briefs, v.mem.redeliveries = w.mem.redeliveries,
         v.proc = w.proc, Parked(v.live) \subseteq Parked(w.live) \cup {key}
  PROVE  Owing(v, p, {}, K, n)
<1>1. \A t : Due(t, w.mem, K, n) => Due(t, v.mem, K, n)
  BY DEF Due, Issued
<1>2. \A t : Issued(t, w.mem, n) => Issued(t, v.mem, n)
  BY DEF Issued
<1> QED
  BY <1>1, <1>2 DEF Owing

\* The brief is delivered once more: under a key that nobody has.
LEMMA MintedOwing ==
  ASSUME NEW w, NEW p, NEW T, NEW K, NEW n, Owing(w, p, T, K, n),
         NEW v, v.live = w.live, v.proc = w.proc, NEW key,
         \/ /\ key = <<"brief", w.mem.briefs + 1>>
            /\ v.mem.briefs = w.mem.briefs + 1
            /\ v.mem.redeliveries = w.mem.redeliveries
         \/ /\ key = <<"redeliver", w.mem.redeliveries + 1>>
            /\ v.mem.briefs = w.mem.briefs
            /\ v.mem.redeliveries = w.mem.redeliveries + 1
  PROVE  Owing(v, p, {key}, K, n)
<1>1. /\ w.mem.briefs \in Nat /\ w.mem.redeliveries \in Nat
      /\ v.mem.briefs \in Nat /\ v.mem.redeliveries \in Nat
  BY DEF Owing
<1>2. ~Issued(key, w.mem, n)
  <2>1. CASE key = <<"brief", w.mem.briefs + 1>>
    <3>1. ~(w.mem.briefs + 1 <= w.mem.briefs)
      BY <1>1
    <3> QED
      BY <2>1, <3>1 DEF Issued
  <2>2. CASE key = <<"redeliver", w.mem.redeliveries + 1>>
    <3>1. ~(w.mem.redeliveries + 1 <= w.mem.redeliveries)
      BY <1>1
    <3> QED
      BY <2>2, <3>1 DEF Issued
  <2> QED
    BY <2>1, <2>2
<1>3. \A t : Issued(t, w.mem, n) => Issued(t, v.mem, n)
  BY <1>1 DEF Issued
<1>4. Issued(key, v.mem, n) /\ ~Foreign(key)
  BY <1>1 DEF Issued, Foreign
<1>5. key \notin K /\ key \notin Parked(w.live)
  BY <1>2 DEF Owing, Due
<1>6. \A t : Due(t, w.mem, K, n) => Due(t, v.mem, K, n) /\ t # key
  BY <1>2, <1>3 DEF Due
<1>7. Due(key, v.mem, K, n)
  BY <1>4, <1>5 DEF Due
<1> QED
  BY <1>1, <1>3, <1>5, <1>6, <1>7 DEF Owing

\* A turn that waited is taken up: the ones that still wait come below it.
LEMMA ServedOwing ==
  ASSUME NEW w, NEW p, NEW K, NEW n \in Nat, Owing(w, p, {}, K, n),
         NEW id \in Nat, id <= n, NEW k \in Nat, k < id
  PROVE  Owing(w, p, {<<"turn", id>>}, K, k)
<1>1. \A t : Issued(t, w.mem, n) => Issued(t, w.mem, k) /\ t # <<"turn", id>>
  <2>1. \A i \in Nat : n < i => k < i /\ i # id
    OBVIOUS
  <2> QED
    BY <2>1 DEF Issued
<1>2. \A t : Due(t, w.mem, K, n) => Due(t, w.mem, K, k) /\ t # <<"turn", id>>
  BY <1>1 DEF Due
<1>3. Issued(<<"turn", id>>, w.mem, k) /\ ~Foreign(<<"turn", id>>)
  BY DEF Issued, Foreign
<1>4. <<"turn", id>> \notin K /\ <<"turn", id>> \notin Parked(w.live)
  BY <1>1, <1>2 DEF Owing
<1>5. Due(<<"turn", id>>, w.mem, K, k)
  BY <1>3, <1>4 DEF Due
<1> QED
  BY <1>1, <1>2, <1>4, <1>5 DEF Owing

\* A chain goes on to await the database.
LEMMA AwaitLeaves ==
  ASSUME NEW w, Shaped(w), NEW p \in Chains, NEW job, Proper(job),
         NEW T, Owes(job) \subseteq T, NEW v, v = Await(w, p, job)
  PROVE  Leaves(w, v, p, T)
<1>1. Awaits(w, v, p, job)
  BY AwaitWorld
<1> QED
  BY <1>1 DEF Awaits, Leaves, Alike

\* Judging owes the reply to the turn.
LEMMA JudgeLeaves ==
  ASSUME NEW w, Shaped(w), NEW p \in Chains, NEW turn, NEW attempt, NEW timed,
         NEW c, NEW T, Turned(turn) \in T, NEW v,
         v = Judge(w, p, turn, attempt, timed, c)
  PROVE  Leaves(w, v, p, T)
<1>1. PICK job : /\ v = Await(w, p, job)
                 /\ \E decision, short :
                      job = [at |-> "decided", opener |-> FALSE, turn |-> turn,
                             attempt |-> attempt, decision |-> decision,
                             cited |-> w.mem.seen, short |-> short]
  BY DEF Judge
<1>2. job.at = "decided" /\ job.turn = turn
  BY <1>1
<1>3. Proper(job) /\ Owes(job) \subseteq T
  BY <1>2 DEF Proper, Owes
<1> QED
  BY <1>1, <1>3, AwaitLeaves

\* A checkpoint owes nothing.
LEMMA SaveLeaves ==
  ASSUME NEW w, Shaped(w), NEW p \in Chains, NEW key, Foreign(key), NEW then,
         NEW T, NEW v, v = Save(w, p, key, then)
  PROVE  Leaves(w, v, p, T)
<1>1. PICK job : job = [at |-> "checkpoint", image |-> w.mem, key |-> key,
                        then |-> then]
  OBVIOUS
<1>2. job.at = "checkpoint" /\ job.key = key
  BY <1>1
<1>3. Proper(job) /\ Owes(job) \subseteq T
  BY <1>2 DEF Proper, Owes
<1> QED
  BY <1>1, <1>3, AwaitLeaves DEF Save

\* The observation loop watches when it has done its part.
LEMMA PassedWatches ==
  ASSUME NEW w, NEW v, Passed(w, v)
  PROVE  v.proc[Observer].at \in Watching
<1>1. CASE v.proc[Observer] = Idle
  BY <1>1 DEF Watching, Idle
<1>2. CASE v.proc[Observer].at = "parsing"
  BY <1>2 DEF Watching
<1>3. ASSUME NEW n, NEW at \in {"milestone", "observed"},
             v.proc[Observer] = [at |-> at, pass |-> n]
      PROVE  v.proc[Observer].at \in Watching
  BY <1>3 DEF Watching
<1> QED
  BY <1>1, <1>2, <1>3 DEF Passed

\* The observation loop owes nothing.
LEMMA PassedAlike ==
  ASSUME NEW w, NEW v, Passed(w, v) \/ Marked(w, v), NEW p \in Others(Observer)
  PROVE  Alike(w, v, p)
<1>1. v.mem.briefs = w.mem.briefs /\ v.mem.redeliveries = w.mem.redeliveries
  BY DEF Passed, Marked, Told, MemFields
<1>2. v.live.held = w.live.held /\ v.live.speakingHeld = w.live.speakingHeld
  BY DEF Passed, Marked, Heard, LiveFields
<1>3. Passed(w, v) => v.proc[Observer].at \in Watching
  BY PassedWatches
<1>4. \A q \in Others(p) : v.proc[q] = w.proc[q] \/ v.proc[q].at \in Watching
  BY <1>3 DEF Passed, Marked, Others
<1> QED
  BY <1>1, <1>2, <1>4 DEF Alike

\* The same of the observer's own chain.
LEMMA PassedLeaves ==
  ASSUME NEW w, NEW v, Passed(w, v), NEW T
  PROVE  Leaves(w, v, Observer, T)
<1>1. v.mem.briefs = w.mem.briefs /\ v.mem.redeliveries = w.mem.redeliveries
  BY DEF Passed, Told, MemFields
<1>2. v.live.held = w.live.held /\ v.live.speakingHeld = w.live.speakingHeld
  BY DEF Passed, Heard, LiveFields
<1>3. v.proc[Observer].at \in Watching
  BY PassedWatches
<1>4. Alike(w, v, Observer)
  BY <1>1, <1>2 DEF Passed, Alike
<1> QED
  BY <1>3, <1>4, WatchingOwes DEF Leaves

\* What a continuation may still have to say.
Resumes(p, then, T) ==
  /\ then.do = "judge" => Turned(then.turn) \in T
  /\ then.do = "save" => Foreign(then.key)
  /\ p # Observer => then.do \in {"judge", "save"}

\* advanceStages owes what its continuation does.
LEMMA AdvanceLeaves ==
  ASSUME NEW w, Shaped(w), NEW p \in Chains, NEW then, NEW T, Resumes(p, then, T),
         NEW c, NEW v, v = Advance(w, p, then, c)
  PROVE  Leaves(w, v, p, T)
<1>1. ASSUME NEW to, NEW u, Reaches(w, u, to), NEW job,
             job = [at |-> "transition", from |-> w.mem.stage, to |-> to,
                    then |-> then],
             v = Await(u, p, job)
      PROVE  Leaves(w, v, p, T)
  <2>1. u.mem = Staged(w.mem, to) /\ Shaped(u)
    BY <1>1 DEF Reaches
  <2>2. u.mem.briefs = w.mem.briefs /\ u.mem.redeliveries = w.mem.redeliveries
    BY <2>1 DEF Shaped, MemFields, Staged
  <2>3. Alike(w, u, p)
    BY <1>1, <2>2 DEF Reaches, Alike
  <2>4. job.at = "transition" /\ job.then = then
    BY <1>1
  <2>5. Proper(job) /\ Owes(job) \subseteq T
    BY <2>4 DEF Proper, Owes, Resumes
  <2>6. Leaves(u, v, p, T)
    BY <1>1, <2>1, <2>5, AwaitLeaves
  <2> QED
    BY <2>3, <2>6, AlikeLeaves
<1>2. ASSUME then.do = "judge", v = Judge(w, p, then.turn, 0, w.live.timed, c)
      PROVE  Leaves(w, v, p, T)
  <2>1. Turned(then.turn) \in T
    BY <1>2 DEF Resumes
  <2> QED
    BY <1>2, <2>1, JudgeLeaves
<1>3. ASSUME then.do = "save", v = Save(w, p, then.key, then.then)
      PROVE  Leaves(w, v, p, T)
  <2>1. Foreign(then.key)
    BY <1>3 DEF Resumes
  <2> QED
    BY <1>3, <2>1, SaveLeaves
<1>4. ASSUME then.do \notin {"judge", "save"}, v = NextPass(w)
      PROVE  Leaves(w, v, p, T)
  <2>1. p = Observer
    BY <1>4 DEF Resumes
  <2> QED
    BY <1>4, <2>1, NextPassWorld, PassedLeaves
<1>5. CASE \E to, u : /\ Reaches(w, u, to)
                     /\ v = Await(u, p, [at |-> "transition", from |-> w.mem.stage,
                                         to |-> to, then |-> then])
  <2>1. PICK to, u : /\ Reaches(w, u, to)
                     /\ v = Await(u, p, [at |-> "transition", from |-> w.mem.stage,
                                         to |-> to, then |-> then])
    BY <1>5
  <2>2. PICK job : job = [at |-> "transition", from |-> w.mem.stage, to |-> to,
                          then |-> then]
    OBVIOUS
  <2> QED
    BY <1>1, <2>1, <2>2
<1>6. \/ \E to, u : /\ Reaches(w, u, to)
                   /\ v = Await(u, p, [at |-> "transition", from |-> w.mem.stage,
                                       to |-> to, then |-> then])
      \/ then.do = "judge" /\ v = Judge(w, p, then.turn, 0, w.live.timed, c)
      \/ then.do = "save" /\ v = Save(w, p, then.key, then.then)
      \/ then.do \notin {"judge", "save"} /\ v = NextPass(w)
  BY AdvanceCases
<1> QED
  BY <1>2, <1>3, <1>4, <1>5, <1>6

\* The keys of checkpoints are none of a reply's.
LEMMA CheckpointKeys ==
  ASSUME NEW x, NEW y
  PROVE  /\ Foreign(<<>>) /\ Foreign(<<"ready">>) /\ Foreign(<<"finished", x>>)
         /\ Foreign(<<"silence", x, y>>) /\ Foreign(<<"pass", x>>)
         /\ Foreign(<<"opening", x>>) /\ Foreign(<<"outcome", x>>)
         /\ Foreign(<<"stage", x>>) /\ Foreign(<<"milestone", x>>)
         /\ Foreign(<<"observation", x>>)
<1>1. Foreign(<<>>) /\ Foreign(<<"ready">>)
  BY DEF Foreign
<1>2. Foreign(<<"silence", x, y>>)
  BY DEF Foreign
<1>3. Foreign(<<"finished", x>>) /\ Foreign(<<"pass", x>>)
  BY DEF Foreign
<1>4. Foreign(<<"opening", x>>) /\ Foreign(<<"outcome", x>>)
  BY DEF Foreign
<1>5. Foreign(<<"stage", x>>) /\ Foreign(<<"milestone", x>>)
  BY DEF Foreign
<1>6. Foreign(<<"observation", x>>)
  BY DEF Foreign
<1> QED
  BY <1>1, <1>2, <1>3, <1>4, <1>5, <1>6

\* What follows a judgement owes nothing.
LEMMA AfterJudgeLeaves ==
  ASSUME NEW w, Shaped(w), NEW p \in Others(Observer), NEW job, NEW say,
         NEW T, NEW c, NEW v, v = AfterJudge(w, p, job, say, c)
  PROVE  Leaves(w, v, p, T)
<1>0. p \in Chains
  BY DEF Others
<1>1. CASE p # Dispatcher
  <2>1. PICK key, then : /\ key = <<"silence", job.turn.id, job.attempt>>
                         /\ then = Deliver(say)
    OBVIOUS
  <2>2. v = Save(w, p, key, then)
    BY <1>1, <2>1 DEF AfterJudge
  <2>3. Foreign(key)
    BY <2>1, CheckpointKeys
  <2> QED
    BY <1>0, <2>2, <2>3, SaveLeaves
<1>2. CASE p = Dispatcher
  <2>1. PICK l, u, s, then :
          /\ l = [w.live EXCEPT !.names = @ \/ job.turn.names]
          /\ u = WithLive(w, l)
          /\ s = ScheduleObservation(u)
          /\ then = [do |-> "save", key |-> <<>>, then |-> Deliver(say)]
    OBVIOUS
  <2>2. v = Advance(s, p, then, c)
    BY <1>2, <2>1 DEF AfterJudge
  <2>3. /\ l = [f \in LiveFields |-> l[f]] /\ l.held = w.live.held
        /\ l.speakingHeld = w.live.speakingHeld
    BY <2>1 DEF Shaped, LiveFields
  <2>4. u = WithLive(w, l) /\ s = ScheduleObservation(u)
    BY <2>1
  <2>5. Shaped(u) /\ u.live = l /\ u.proc = w.proc /\ u.mem = w.mem
    BY <2>3, <2>4, LiveWorld
  <2>6. Alike(w, u, p)
    BY <2>3, <2>5 DEF Alike
  <2>7. Passed(u, s) \/ Marked(u, s)
    BY <2>4, <2>5, ScheduledWorld
  <2>8. Alike(u, s, p) /\ Shaped(s)
    BY <2>7, PassedAlike DEF Passed, Marked
  <2>9. then.do = "save" /\ then.key = <<>>
    BY <2>1
  <2>10. Resumes(p, then, T)
    BY <2>9, CheckpointKeys DEF Resumes
  <2>11. Leaves(s, v, p, T)
    BY <1>0, <2>2, <2>8, <2>10, AdvanceLeaves
  <2>12. Leaves(u, v, p, T)
    BY <2>8, <2>11, AlikeLeaves
  <2> QED
    BY <2>6, <2>12, AlikeLeaves
<1> QED
  BY <1>1, <1>2

\* Authorizing an utterance owes nothing more.
LEMMA AuthorizeLeaves ==
  ASSUME NEW w, Shaped(w), NEW p \in Others(Observer), NEW job, NEW u, NEW T,
         NEW c, NEW v, v = Authorize(w, p, job, u, c)
  PROVE  Leaves(w, v, p, T)
<1>0. p \in Chains
  BY DEF Others
<1>1. PICK l, open : /\ l = [w.live EXCEPT !.authorized = {u}, !.speaking = TRUE]
                     /\ open = WithLive(w, l)
  OBVIOUS
<1>2. /\ l = [f \in LiveFields |-> l[f]] /\ l.held = w.live.held
      /\ l.speakingHeld = w.live.speakingHeld
  BY <1>1 DEF Shaped, LiveFields
<1>3. open = WithLive(w, l)
  BY <1>1
<1>4. Shaped(open) /\ open.live = l /\ open.proc = w.proc /\ open.mem = w.mem
  BY <1>2, <1>3, LiveWorld
<1>5. Alike(w, open, p)
  BY <1>2, <1>4 DEF Alike
<1>6. CASE job.opener
  <2>1. PICK then : then = [do |-> "save", key |-> <<"ready">>,
                            then |-> Deliver({u})]
    OBVIOUS
  <2>2. v = Advance(open, p, then, c)
    BY <1>1, <1>6, <2>1 DEF Authorize
  <2>3. then.do = "save" /\ then.key = <<"ready">>
    BY <2>1
  <2>4. Resumes(p, then, T)
    BY <2>3, CheckpointKeys DEF Resumes
  <2>5. Leaves(open, v, p, T)
    BY <1>0, <1>4, <2>2, <2>4, AdvanceLeaves
  <2> QED
    BY <1>5, <2>5, AlikeLeaves
<1>7. CASE ~job.opener
  <2>1. PICK y, k, z : /\ y = HeardOut(open)
                       /\ k = [open.live EXCEPT !.timed = FALSE]
                       /\ z = WithLive(y, k)
    OBVIOUS
  <2>2. v = AfterJudge(z, p, job, {u}, c)
    BY <1>1, <1>7, <2>1 DEF Authorize
  <2>3. /\ k = [f \in LiveFields |-> k[f]] /\ k.held = w.live.held
        /\ k.speakingHeld = w.live.speakingHeld
    BY <1>2, <1>4, <2>1 DEF Shaped, LiveFields
  <2>4. y = HeardOut(open) /\ z = WithLive(y, k)
    BY <2>1
  <2>5. /\ Shaped(y) /\ y.proc = w.proc
        /\ \A f \in MemFields \ {"speechStarted"} : y.mem[f] = w.mem[f]
    BY <1>4, <2>4, HeardOutWorld
  <2>6. Shaped(z) /\ z.live = k /\ z.proc = w.proc /\ z.mem = y.mem
    BY <2>3, <2>4, <2>5, LiveWorld
  <2>7. y.mem.briefs = w.mem.briefs /\ y.mem.redeliveries = w.mem.redeliveries
    BY <2>5 DEF MemFields
  <2>8. Alike(w, z, p)
    BY <2>3, <2>6, <2>7 DEF Alike
  <2>9. Leaves(z, v, p, T)
    BY <2>2, <2>6, AfterJudgeLeaves
  <2> QED
    BY <2>8, <2>9, AlikeLeaves
<1> QED
  BY <1>6, <1>7

\* Closing an utterance owes nothing.
LEMMA CloseUtteranceLeaves ==
  ASSUME NEW w, Shaped(w), NEW p \in Others(Observer), NEW u, NEW heard,
         NEW then, NEW T, NEW c, NEW v, v = CloseUtterance(w, p, u, heard, then, c)
  PROVE  Leaves(w, v, p, T)
<1>0. p \in Chains
  BY DEF Others
<1>1. PICK m : m = [w.mem EXCEPT !.redeliver =
                      IF u.opening /\ heard THEN FALSE
                      ELSE @ \/ (/\ u.opening /\ ~heard
                                 /\ w.mem.redeliveries < MaxOpeningRedeliveries)]
  OBVIOUS
<1>2. PICK y, next, key : /\ y = WithMem(w, m) /\ key = <<"finished", u.id>>
                          /\ next = [do |-> "save", key |-> <<"finished", u.id>>,
                                     then |-> then]
  OBVIOUS
<1>3. \/ v = Advance(y, p, next, c)
      \/ v = Save(y, p, key, then)
  BY <1>1, <1>2 DEF CloseUtterance
<1>4. /\ m = [f \in MemFields |-> m[f]] /\ m.briefs = w.mem.briefs
      /\ m.redeliveries = w.mem.redeliveries
  BY <1>1 DEF Shaped, MemFields
<1>5. Shaped(y) /\ y.mem = m /\ y.live = w.live /\ y.proc = w.proc
  BY <1>2, <1>4, MemWorld
<1>6. Alike(w, y, p)
  BY <1>4, <1>5 DEF Alike
<1>7. next.do = "save" /\ next.key = key /\ Foreign(key)
  BY <1>2, CheckpointKeys
<1>8. Resumes(p, next, T)
  BY <1>7 DEF Resumes
<1>9. CASE v = Advance(y, p, next, c)
  <2>1. Leaves(y, v, p, T)
    BY <1>0, <1>5, <1>8, <1>9, AdvanceLeaves
  <2> QED
    BY <1>6, <2>1, AlikeLeaves
<1>10. CASE v = Save(y, p, key, then)
  <2>1. Leaves(y, v, p, T)
    BY <1>0, <1>5, <1>7, <1>10, SaveLeaves
  <2> QED
    BY <1>6, <2>1, AlikeLeaves
<1> QED
  BY <1>3, <1>9, <1>10

\* Nor does reporting how one ended.
LEMMA ReportOutcomeLeaves ==
  ASSUME NEW w, Shaped(w), NEW p \in Chains, NEW u, NEW heard, NEW then, NEW T,
         NEW v, v = ReportOutcome(w, p, u, heard, then)
  PROVE  Leaves(w, v, p, T)
<1>1. PICK z, job : /\ z = Unauthorize(w)
                    /\ job = [at |-> "outcome", utterance |-> u, heard |-> heard,
                              then |-> then]
                    /\ v = Await(z, p, job)
  BY DEF ReportOutcome
<1>10. z = Unauthorize(w)
  BY <1>1
<1>11. /\ Shaped(z) /\ z.proc = w.proc /\ z.mem = w.mem
       /\ \A f \in LiveFields \ {"speaking", "authorized"} :
            z.live[f] = w.live[f]
  BY ZenonT(30), <1>10, UnauthorizedWorld
<1>2. /\ Shaped(z) /\ z.proc = w.proc /\ z.mem = w.mem
      /\ z.live.held = w.live.held /\ z.live.speakingHeld = w.live.speakingHeld
  BY <1>11 DEF LiveFields
<1>3. Alike(w, z, p)
  BY <1>2 DEF Alike
<1>4. job.at = "outcome"
  BY <1>1
<1>5. Proper(job) /\ Owes(job) \subseteq T
  BY <1>4 DEF Proper, Owes
<1>6. Leaves(z, v, p, T)
  BY <1>1, <1>2, <1>5, AwaitLeaves
<1> QED
  BY <1>3, <1>6, AlikeLeaves

\* A chain that is done owes nothing.
LEMMA FinishLeaves ==
  ASSUME NEW w, Shaped(w), NEW p \in Chains, NEW T, NEW v, v = Finish(w, p)
  PROVE  Leaves(w, v, p, T)
<1>1. /\ v.mem = w.mem /\ v.live = w.live /\ v.proc[p] = Idle
      /\ \A q \in Others(p) : v.proc[q] = w.proc[q]
  BY FinishWorld
<1>2. Idle.at \in Watching
  BY DEF Watching, Idle
<1> QED
  BY <1>1, <1>2, WatchingOwes DEF Leaves, Alike

\* realize() hands out a key, uses its turn's, or owes nothing more.
LEMMA RealizeWhole ==
  ASSUME NEW w, Shaped(w), NEW p \in Others(Observer), NEW T, NEW K, NEW n,
         Owing(w, p, T, K, n), NEW job, NEW id,
         job.decision.action # "DELIVER_BRIEF" => id \in T,
         NEW c, NEW v, v = Realize(w, p, job, id, c)
  PROVE  Whole(v, K, n)
<1>0. p \in Chains
  BY DEF Others
<1>1. ASSUME NEW u, NEW told, Tells(w, u, job, id, told), v = Await(u, p, told)
      PROVE  Whole(v, K, n)
  <2>1. told.at = "realized"
    <3>1. told = [at |-> "realized", of |-> job, event |-> told.event,
                  key |-> told.key, utterance |-> told.utterance]
      BY <1>1 DEF Tells
    <3> QED
      BY <3>1
  <2>2. Shaped(u) /\ u.live = w.live /\ u.proc = w.proc
    BY <1>1 DEF Tells
  <2>3. PICK key : key = told.key
    OBVIOUS
  <2>4. Owing(u, p, {key}, K, n)
    <3>1. CASE /\ told.key = <<"redeliver", w.mem.redeliveries + 1>>
               /\ u.mem.redeliveries = w.mem.redeliveries + 1
               /\ u.mem.briefs = w.mem.briefs
      BY <2>2, <2>3, <3>1, MintedOwing
    <3>2. CASE /\ told.key = <<"brief", w.mem.briefs + 1>>
               /\ u.mem.redeliveries = w.mem.redeliveries
               /\ u.mem.briefs = w.mem.briefs + 1
      BY <2>2, <2>3, <3>2, MintedOwing
    <3>3. CASE /\ told.key = id
               /\ job.decision.action # "DELIVER_BRIEF"
               /\ u.mem.redeliveries = w.mem.redeliveries
               /\ u.mem.briefs = w.mem.briefs
      <4>1. {key} \subseteq T
        BY <2>3, <3>3
      <4>2. Owing(w, p, {key}, K, n)
        BY <4>1, OwesLess
      <4>3. Alike(w, u, p)
        BY <2>2, <3>3 DEF Alike
      <4> QED
        BY <4>2, <4>3, AlikeOwing
    <3> QED
      BY <1>1, <3>1, <3>2, <3>3 DEF Tells
  <2>5. Proper(told) /\ Owes(told) \subseteq {key}
    BY <2>1, <2>3 DEF Proper, Owes
  <2>6. Leaves(u, v, p, {key})
    BY <1>0, <1>1, <2>2, <2>5, AwaitLeaves
  <2> QED
    BY <1>0, <2>4, <2>6, LeftAgain
<1>2. ASSUME NEW x, v = Authorize(w, p, job, x, c)
      PROVE  Whole(v, K, n)
  <2>1. Leaves(w, v, p, T)
    BY <1>2, AuthorizeLeaves
  <2> QED
    BY <1>0, <2>1, LeftAgain
<1>3. \/ \E u, told : Tells(w, u, job, id, told) /\ v = Await(u, p, told)
      \/ \E x : v = Authorize(w, p, job, x, c)
  BY RealizeCases
<1> QED
  BY <1>1, <1>2, <1>3

\* Fewer turns are held, and nothing else differs.
LEMMA UnheldWhole ==
  ASSUME NEW w, NEW K, NEW n, Whole(w, K, n), NEW v, v.proc = w.proc,
         v.mem.briefs = w.mem.briefs, v.mem.redeliveries = w.mem.redeliveries,
         Parked(v.live) \subseteq Parked(w.live)
  PROVE  Whole(v, K, n)
<1>1. \A t : Due(t, w.mem, K, n) => Due(t, v.mem, K, n)
  BY DEF Due, Issued
<1>2. \A t : Issued(t, w.mem, n) => Issued(t, v.mem, n)
  BY DEF Issued
<1> QED
  BY <1>1, <1>2 DEF Whole

\* A chain that fails owes nothing.
LEMMA AbortWhole ==
  ASSUME NEW w, Shaped(w), NEW K, NEW n, Whole(w, K, n), NEW p \in Chains,
         NEW v, v = Abort(w, p)
  PROVE  Whole(v, K, n)
<1>0. Owing(w, p, {}, K, n)
  BY TakenOn
<1>1. PICK u, d : u = [w EXCEPT !.lane = RemoveFirst(w.lane, p)] /\ d = Finish(u, p)
  OBVIOUS
<1>2. v = IF p \in Timers THEN ClearHeldTurn(d)
          ELSE IF p = Observer THEN NextPass(d) ELSE d
  BY <1>1 DEF Abort
<1>3. Shaped(u) /\ u.mem = w.mem /\ u.live = w.live /\ u.proc = w.proc
  BY <1>1 DEF Shaped
<1>4. Alike(w, u, p)
  BY <1>3 DEF Alike
<1>5. d = Finish(u, p)
  BY <1>1
<1>6. Leaves(u, d, p, {}) /\ Shaped(d)
  BY <1>3, <1>5, FinishLeaves, FinishWorld
<1>7. Leaves(w, d, p, {})
  BY <1>4, <1>6, AlikeLeaves
<1>8. Whole(d, K, n)
  BY <1>0, <1>7, LeftAgain
<1>9. CASE p \in Timers
  <2>1. v = ClearHeldTurn(d)
    BY <1>2, <1>9
  <2>2. /\ v.mem = d.mem /\ v.proc = d.proc /\ v.live.held = {}
        /\ v.live.speakingHeld = {}
    BY <1>6, <2>1, ClearedWorld
  <2>3. Parked(v.live) \subseteq Parked(d.live)
    BY <2>2 DEF Parked
  <2> QED
    BY <1>8, <2>2, <2>3, UnheldWhole
<1>10. CASE p \notin Timers /\ p = Observer
  <2>1. v = NextPass(d)
    BY <1>2, <1>10
  <2>2. Passed(d, v)
    BY <1>6, <2>1, NextPassWorld
  <2>3. Leaves(d, v, p, {})
    BY <1>10, <2>2, PassedLeaves
  <2>4. Leaves(w, v, p, {})
    BY <1>7, <2>3, AlikeLeaves DEF Leaves
  <2> QED
    BY <1>0, <2>4, LeftAgain
<1>11. CASE p \notin Timers /\ p # Observer
  BY <1>2, <1>8, <1>11
<1> QED
  BY <1>9, <1>10, <1>11

\* A silent judgement may hold its turn.
LEMMA QuietedOwing ==
  ASSUME NEW w, NEW p, NEW K, NEW n, NEW job,
         Owing(w, p, {Turned(job.turn)}, K, n), NEW v, Quieted(w, v, job)
  PROVE  Owing(v, p, {}, K, n)
<1>1. /\ v.mem.briefs = w.mem.briefs /\ v.mem.redeliveries = w.mem.redeliveries
      /\ v.proc = w.proc
  BY DEF Quieted, MemFields
<1>2. Parked(v.live) \subseteq Parked(w.live) \cup {Turned(job.turn)}
  BY DEF Quieted, Parked
<1> QED
  BY <1>1, <1>2, ParkedOwing

\* With no turn to answer, the gate speaks only to deliver the brief.
LEMMA OpeningDecision ==
  ASSUME NEW w, NEW c, NEW d, d = Decide(Context(w, NoTurn, c)), d # Silent
  PROVE  d.action = "DELIVER_BRIEF"
<1>1. PICK x : x = Context(w, NoTurn, c)
  OBVIOUS
<1>2. x.turn = NoTurn
  BY <1>1 DEF Context
<1>3. ~x.turn.present
  BY <1>2 DEF NoTurn
<1>4. Wanted(x) \in {Say("DELIVER_BRIEF"), Silent}
  BY <1>3 DEF Wanted, TurnOver
<1>5. d \in {Say("DELIVER_BRIEF"), Silent}
  BY <1>1, <1>4 DEF Decide
<1>6. Say("DELIVER_BRIEF").action = "DELIVER_BRIEF"
  BY DEF Say
<1> QED
  BY <1>5, <1>6

\* An event is folded in: no more turns are held than were.
LEMMA FoldedWhole ==
  ASSUME NEW w, NEW K, NEW n, Whole(w, K, n), NEW y, Folded(w, y)
  PROVE  Whole(y, K, n)
<1>1. Parked(y.live) \subseteq Parked(w.live)
  <2>1. CASE /\ y.live.held \subseteq w.live.held
             /\ y.live.speakingHeld \subseteq w.live.speakingHeld
    BY <2>1 DEF Parked
  <2>2. ASSUME NEW h, h.turn \in w.live.speakingHeld, y.live.held = {h},
               y.live.speakingHeld = {}
        PROVE  Parked(y.live) \subseteq Parked(w.live)
    BY <2>2 DEF Parked
  <2> QED
    BY <2>1, <2>2 DEF Folded, Reheld
<1> QED
  BY <1>1, UnheldWhole DEF Folded

\* Fewer turns wait.
LEMMA LowerWhole ==
  ASSUME NEW w, NEW K, NEW n \in Nat, Whole(w, K, n), NEW k \in Nat, k <= n
  PROVE  Whole(w, K, k)
<1>1. \A i \in Nat : n < i => k < i
  OBVIOUS
<1>2. \A t : Issued(t, w.mem, n) => Issued(t, w.mem, k)
  BY <1>1 DEF Issued
<1>3. \A t : Due(t, w.mem, K, n) => Due(t, w.mem, K, k)
  BY <1>2 DEF Due
<1> QED
  BY <1>2, <1>3 DEF Whole

\* An event is ingested: a finished turn's reply is owed from now on.
LEMMA ApplyWhole ==
  ASSUME NEW w, Shaped(w), NEW K, NEW n \in Nat, Whole(w, K, n),
         NEW e, e.type \in EventTypes, NEW k \in Nat, k <= n,
         e.type = "SPEECH_FINAL" =>
           e.turn.id \in Nat /\ e.turn.id <= n /\ k < e.turn.id,
         NEW c, NEW v, v = Apply(w, e, c)
  PROVE  Whole(v, K, k)
<1>0. Dispatcher \in Chains /\ Dispatcher \in Others(Observer)
  BY DEF Chains, Others, Dispatcher, Observer
<1>1. Whole(w, K, k)
  BY LowerWhole
<1>2. ASSUME NEW y, Shaped(y), NEW z, Whole(z, K, k), Alike(z, y, Dispatcher),
             NEW then, Resumes(Dispatcher, then, {}),
             v = Advance(y, Dispatcher, then, c)
      PROVE  Whole(v, K, k)
  <2>1. Owing(z, Dispatcher, {}, K, k)
    BY <1>0, <1>2, TakenOn
  <2>2. Leaves(y, v, Dispatcher, {})
    BY <1>0, <1>2, AdvanceLeaves
  <2>3. Leaves(z, v, Dispatcher, {})
    BY <1>2, <2>2, AlikeLeaves
  <2> QED
    BY <1>0, <2>1, <2>3, LeftAgain
<1>3. \A y : Alike(y, y, Dispatcher)
  BY DEF Alike
<1>4. Resumes(Dispatcher, Rested, {})
  <2>1. Rested.do = "save" /\ Rested.key = <<>>
    BY DEF Rested
  <2> QED
    BY <2>1, CheckpointKeys DEF Resumes
<1>5. ASSUME NEW y, Folded(w, y), v = Advance(y, Dispatcher, Rested, c)
      PROVE  Whole(v, K, k)
  <2>1. Whole(y, K, k) /\ Shaped(y)
    BY <1>1, <1>5, FoldedWhole DEF Folded
  <2> QED
    BY <1>2, <1>3, <1>4, <1>5, <2>1
<1>6. ASSUME NEW y, NEW z, Folded(w, y), z = ScheduleObservation(y),
             v = Advance(z, Dispatcher, Rested, c)
      PROVE  Whole(v, K, k)
  <2>1. Whole(y, K, k) /\ Shaped(y)
    BY <1>1, <1>6, FoldedWhole DEF Folded
  <2>2. Passed(y, z) \/ Marked(y, z)
    BY <1>6, <2>1, ScheduledWorld
  <2>3. Alike(y, z, Dispatcher) /\ Shaped(z)
    BY <1>0, <2>2, PassedAlike DEF Passed, Marked
  <2> QED
    BY <1>2, <1>4, <1>6, <2>1, <2>3
<1>7. ASSUME e.type = "SPEECH_FINAL", NEW y, NEW job, Folded(w, y),
             job = [at |-> "classify", turn |-> e.turn],
             v = Suspend(y, Dispatcher, job)
      PROVE  Whole(v, K, k)
  <2>1. PICK id \in Nat : id = e.turn.id /\ id <= n /\ k < id
    BY <1>7
  <2>2. Whole(y, K, n) /\ Shaped(y)
    BY <1>7, FoldedWhole DEF Folded
  <2>3. Owing(y, Dispatcher, {}, K, n)
    BY <1>0, <2>2, TakenOn
  <2>4. Owing(y, Dispatcher, {<<"turn", id>>}, K, k)
    BY <2>1, <2>3, ServedOwing
  <2>5. job.at = "classify" /\ Turned(job.turn) = <<"turn", id>>
    BY <1>7, <2>1 DEF Turned
  <2>6. Proper(job) /\ Owes(job) \subseteq {<<"turn", id>>}
    BY <2>5 DEF Proper, Owes
  <2>7. /\ v.mem = y.mem /\ v.live = y.live /\ v.proc[Dispatcher] = job
        /\ \A q \in Others(Dispatcher) : v.proc[q] = y.proc[q]
    BY <1>0, <1>7, <2>2, SuspendWorld
  <2>8. Leaves(y, v, Dispatcher, {<<"turn", id>>})
    BY <2>6, <2>7 DEF Leaves, Alike
  <2> QED
    BY <1>0, <2>4, <2>8, LeftAgain
<1>8. ASSUME NEW then,
             then = [do |-> "save", key |-> <<"ready">>, then |-> Deliver({})],
             v = Advance(w, Dispatcher, then, c)
      PROVE  Whole(v, K, k)
  <2>1. then.do = "save" /\ then.key = <<"ready">>
    BY <1>8
  <2>2. Resumes(Dispatcher, then, {})
    BY <2>1, CheckpointKeys DEF Resumes
  <2> QED
    BY <1>1, <1>2, <1>3, <1>8, <2>2
<1>9. ASSUME NEW job, NEW id, NEW d, d = Decide(Context(w, NoTurn, c)), d # Silent,
             job = [at |-> "opening", id |-> id, decision |-> d, cited |-> 0,
                    opener |-> TRUE],
             NEW i, id = <<"opening", i>>, v = Await(w, Dispatcher, job)
      PROVE  Whole(v, K, k)
  <2>1. d.action = "DELIVER_BRIEF"
    BY <1>9, OpeningDecision
  <2>2. job.at = "opening" /\ job.id = id /\ job.decision = d
    BY <1>9
  <2>3. Foreign(id)
    BY <1>9, CheckpointKeys
  <2>4. Proper(job) /\ Owes(job) \subseteq {}
    BY <2>1, <2>2, <2>3 DEF Proper, Owes
  <2>5. Owing(w, Dispatcher, {}, K, k)
    BY <1>0, <1>1, TakenOn
  <2>6. Leaves(w, v, Dispatcher, {})
    BY <1>0, <1>9, <2>4, AwaitLeaves
  <2> QED
    BY <1>0, <2>5, <2>6, LeftAgain
<1>10. \/ \E y : Folded(w, y) /\ v = Advance(y, Dispatcher, Rested, c)
       \/ \E y, z : /\ Folded(w, y) /\ z = ScheduleObservation(y)
                    /\ v = Advance(z, Dispatcher, Rested, c)
       \/ \E y, job : /\ e.type = "SPEECH_FINAL"
                      /\ Folded(w, y) /\ job = [at |-> "classify", turn |-> e.turn]
                      /\ y.live.held = {} /\ y.live.speakingHeld = {}
                      /\ v = Suspend(y, Dispatcher, job)
       \/ e.type = "SESSION_STARTED" /\ \E then :
            /\ then = [do |-> "save", key |-> <<"ready">>, then |-> Deliver({})]
            /\ v = Advance(w, Dispatcher, then, c)
       \/ e.type = "SESSION_STARTED" /\ \E job :
            /\ \E id, d : /\ d = Decide(Context(w, NoTurn, c)) /\ d # Silent
                          /\ job = [at |-> "opening", id |-> id, decision |-> d,
                                    cited |-> 0, opener |-> TRUE]
                          /\ \E i : id = <<"opening", i>>
            /\ v = Await(w, Dispatcher, job)
  BY SMTT(60), ApplyCases
<1> QED
  BY <1>5, <1>6, <1>7, <1>8, <1>9, <1>10

\* The finished turns on the tail that are yet to be ingested.
Ahead(w) ==
  {i \in 1..Len(w.queue) : /\ w.queue[i].event.type = "SPEECH_FINAL"
                           /\ i = 1 => w.proc[Dispatcher] = Idle}

TurnAt(w, i) == w.queue[i].event.turn.id

\* They are numbered downwards from n, and the turns to come below them.
Lines(w, t, n) ==
  /\ t \in Nat /\ n \in Nat /\ t <= n
  /\ \A i \in Ahead(w) : TurnAt(w, i) \in Nat /\ t < TurnAt(w, i) /\ TurnAt(w, i) <= n
  /\ \A i, j \in Ahead(w) : i < j => TurnAt(w, j) < TurnAt(w, i)

\* The tail is the same, and its first event no less ingested.
LEMMA LinesSame ==
  ASSUME NEW w, NEW t, NEW n, Lines(w, t, n), NEW v, v.queue = w.queue,
         v.proc[Dispatcher] = Idle => w.proc[Dispatcher] = Idle
  PROVE  Lines(v, t, n)
<1>1. Ahead(v) \subseteq Ahead(w)
  BY DEF Ahead
<1>2. \A i : TurnAt(v, i) = TurnAt(w, i)
  BY DEF TurnAt
<1> QED
  BY <1>1, <1>2 DEF Lines

\* The first event of the tail was ingested.
LEMMA LinesTail ==
  ASSUME NEW w, NEW t, NEW n, Lines(w, t, n), QueueOK(w.queue), w.queue # <<>>,
         NEW v, v.queue = Tail(w.queue)
  PROVE  Lines(v, t, n)
<1>1. PICK S : w.queue \in Seq(S)
  BY DEF QueueOK, IsSeq
<1>2. PICK q : q = w.queue
  OBVIOUS
<1>3. Tail(q) \in Seq(S) /\ Len(Tail(q)) = Len(q) - 1 /\ Len(q) \in Nat
  BY <1>1, <1>2
<1>4. ASSUME NEW i \in 1..Len(Tail(q))
      PROVE  Tail(q)[i] = q[i + 1] /\ i + 1 \in 1..Len(q) /\ i + 1 # 1
  BY <1>1, <1>2, <1>3
<1>5. ASSUME NEW i \in Ahead(v)
      PROVE  i + 1 \in Ahead(w) /\ TurnAt(v, i) = TurnAt(w, i + 1) /\ i \in Nat
  <2>1. i \in 1..Len(Tail(q)) /\ v.queue[i].event.type = "SPEECH_FINAL"
    BY <1>2 DEF Ahead
  <2>2. v.queue[i] = w.queue[i + 1] /\ i + 1 \in 1..Len(w.queue) /\ i + 1 # 1
    BY <1>2, <1>4, <2>1
  <2>3. i \in Nat
    BY <1>3, <2>1
  <2> QED
    BY <2>1, <2>2, <2>3 DEF Ahead, TurnAt
<1>6. ASSUME NEW i \in Ahead(v), NEW j \in Ahead(v), i < j
      PROVE  TurnAt(v, j) < TurnAt(v, i)
  <2>1. i + 1 < j + 1
    BY <1>5, <1>6
  <2>2. TurnAt(w, j + 1) < TurnAt(w, i + 1)
    BY <1>5, <2>1 DEF Lines
  <2> QED
    BY <1>5, <2>2
<1> QED
  BY <1>5, <1>6 DEF Lines

\* A chain was taken on: whatever it does, it appends nothing to the tail.
LEMMA LinesDispatched ==
  ASSUME NEW w, NEW t, NEW n, Lines(w, t, n), QueueOK(w.queue), NEW p,
         p = Dispatcher => w.queue # <<>>, NEW v, Dispatches(w, v, p)
  PROVE  Lines(v, t, n)
<1>1. CASE v.queue = w.queue /\ (v.proc[Dispatcher] = Idle => w.proc[Dispatcher] = Idle)
  BY <1>1, LinesSame
<1>2. CASE p = Dispatcher /\ v.queue = Tail(w.queue)
  BY <1>2, LinesTail
<1> QED
  BY <1>1, <1>2 DEF Dispatches

\* An event is put on the tail.
LEMMA AheadAppended ==
  ASSUME NEW w, QueueOK(w.queue), NEW v, NEW x, v.queue = Append(w.queue, x),
         v.proc[Dispatcher] = Idle => w.proc[Dispatcher] = Idle, NEW i \in Ahead(v)
  PROVE  /\ i \in Nat /\ i <= Len(w.queue) + 1 /\ Len(w.queue) \in Nat
         /\ \/ i \in Ahead(w) /\ TurnAt(v, i) = TurnAt(w, i) /\ i <= Len(w.queue)
            \/ /\ i = Len(w.queue) + 1 /\ x.event.type = "SPEECH_FINAL"
               /\ TurnAt(v, i) = x.event.turn.id
<1>1. PICK S : w.queue \in Seq(S)
  BY DEF QueueOK, IsSeq
<1>2. PICK q, T : q = w.queue /\ T = S \cup {x}
  OBVIOUS
<1>3. q \in Seq(T) /\ x \in T
  BY <1>1, <1>2
<1>4. Len(Append(q, x)) = Len(q) + 1 /\ Len(q) \in Nat
  BY <1>3
<1>5. i \in 1..Len(Append(q, x))
  BY <1>2 DEF Ahead
<1>6. IF i = Len(q) + 1 THEN Append(q, x)[i] = x
      ELSE Append(q, x)[i] = q[i] /\ i \in 1..Len(q)
  BY <1>3, <1>4, <1>5
<1>7. i \in Nat /\ i <= Len(q) + 1
  BY <1>4, <1>5
<1>8. CASE i = Len(q) + 1
  <2>1. v.queue[i] = x
    BY <1>2, <1>6, <1>8
  <2>2. x.event.type = "SPEECH_FINAL" /\ TurnAt(v, i) = x.event.turn.id
    BY <2>1 DEF Ahead, TurnAt
  <2> QED
    BY <1>2, <1>4, <1>7, <1>8, <2>2
<1>9. CASE i # Len(q) + 1
  <2>1. v.queue[i] = w.queue[i] /\ i \in 1..Len(w.queue)
    BY <1>2, <1>6, <1>9
  <2>2. i \in Ahead(w) /\ TurnAt(v, i) = TurnAt(w, i)
    BY <2>1 DEF Ahead, TurnAt
  <2>3. i <= Len(q)
    BY <1>2, <1>4, <2>1
  <2> QED
    BY <1>2, <1>4, <1>7, <2>2, <2>3
<1> QED
  BY <1>8, <1>9

\* One that is not a finished turn.
LEMMA LinesAppended ==
  ASSUME NEW w, NEW t, NEW n, Lines(w, t, n), QueueOK(w.queue), NEW v, NEW x,
         v.queue = Append(w.queue, x), x.event.type # "SPEECH_FINAL",
         v.proc[Dispatcher] = Idle => w.proc[Dispatcher] = Idle
  PROVE  Lines(v, t, n)
<1>1. \A i \in Ahead(v) : i \in Ahead(w) /\ TurnAt(v, i) = TurnAt(w, i)
  BY AheadAppended
<1> QED
  BY <1>1 DEF Lines

\* A finished turn, numbered below every other.
LEMMA LinesTurned ==
  ASSUME NEW w, NEW t, NEW n, Lines(w, t, n), QueueOK(w.queue), NEW v, NEW x,
         v.queue = Append(w.queue, x), t > 0,
         x.event.type = "SPEECH_FINAL" => x.event.turn.id = t,
         v.proc[Dispatcher] = Idle => w.proc[Dispatcher] = Idle
  PROVE  Lines(v, t - 1, n)
<1>0. t \in Nat /\ n \in Nat /\ t <= n /\ t - 1 \in Nat /\ t - 1 < t /\ t - 1 <= n
  BY DEF Lines
<1>1. ASSUME NEW i \in Ahead(v)
      PROVE  TurnAt(v, i) \in Nat /\ t - 1 < TurnAt(v, i) /\ TurnAt(v, i) <= n
  <2>1. CASE i \in Ahead(w) /\ TurnAt(v, i) = TurnAt(w, i)
    <3>1. TurnAt(w, i) \in Nat /\ t < TurnAt(w, i) /\ TurnAt(w, i) <= n
      BY <2>1 DEF Lines
    <3> QED
      BY <1>0, <2>1, <3>1
  <2>2. CASE TurnAt(v, i) = t
    BY <1>0, <2>2
  <2> QED
    BY <2>1, <2>2, AheadAppended
<1>2. ASSUME NEW i \in Ahead(v), NEW j \in Ahead(v), i < j
      PROVE  TurnAt(v, j) < TurnAt(v, i)
  <2>1. /\ i \in Nat /\ j \in Nat /\ j <= Len(w.queue) + 1 /\ Len(w.queue) \in Nat
    BY AheadAppended
  <2>2. i # Len(w.queue) + 1
    BY <1>2, <2>1
  <2>3. i \in Ahead(w) /\ TurnAt(v, i) = TurnAt(w, i)
    BY <2>2, AheadAppended
  <2>4. CASE j \in Ahead(w) /\ TurnAt(v, j) = TurnAt(w, j)
    BY <1>2, <2>3, <2>4 DEF Lines
  <2>5. CASE TurnAt(v, j) = t
    <3>1. t < TurnAt(w, i)
      BY <2>3 DEF Lines
    <3> QED
      BY <2>3, <2>5, <3>1
  <2>6. \/ j \in Ahead(w) /\ TurnAt(v, j) = TurnAt(w, j)
        \/ TurnAt(v, j) = t
    BY AheadAppended
  <2> QED
    BY <2>4, <2>5, <2>6
<1> QED
  BY <1>0, <1>1, <1>2 DEF Lines

\* The first of the tail is a finished turn, and it is taken up.
LEMMA LinesServed ==
  ASSUME NEW w, NEW t, NEW n, Lines(w, t, n), QueueOK(w.queue), w.queue # <<>>,
         w.proc[Dispatcher] = Idle, NEW e, e = Head(w.queue).event,
         e.type = "SPEECH_FINAL"
  PROVE  /\ e.turn.id \in Nat /\ e.turn.id <= n
         /\ e.turn.id - 1 \in Nat /\ e.turn.id - 1 <= n /\ e.turn.id - 1 < e.turn.id
         /\ \A v : v.queue = w.queue /\ v.proc[Dispatcher] # Idle
                     => Lines(v, t, e.turn.id - 1)
<1>1. PICK S : w.queue \in Seq(S)
  BY DEF QueueOK, IsSeq
<1>2. Head(w.queue) = w.queue[1] /\ 1 \in 1..Len(w.queue)
  BY <1>1
<1>3. 1 \in Ahead(w) /\ TurnAt(w, 1) = e.turn.id
  BY <1>2 DEF Ahead, TurnAt
<1>4. PICK id : id = e.turn.id
  OBVIOUS
<1>5. id \in Nat /\ t < id /\ id <= n /\ t \in Nat /\ n \in Nat
  BY <1>3, <1>4 DEF Lines
<1>6. id - 1 \in Nat /\ id - 1 <= n /\ id - 1 < id /\ t <= id - 1
  BY <1>5
<1>7. ASSUME NEW v, v.queue = w.queue, v.proc[Dispatcher] # Idle
      PROVE  Lines(v, t, id - 1)
  <2>1. ASSUME NEW i \in Ahead(v)
        PROVE  i \in Ahead(w) /\ 1 < i /\ TurnAt(v, i) = TurnAt(w, i)
    <3>1. i \in Ahead(w) /\ i # 1 /\ TurnAt(v, i) = TurnAt(w, i)
      BY <1>7 DEF Ahead, TurnAt
    <3>2. i \in 1..Len(w.queue) /\ Len(w.queue) \in Nat
      BY <1>1, <3>1 DEF Ahead
    <3>3. 1 < i
      BY <3>1, <3>2
    <3> QED
      BY <3>1, <3>3
  <2>2. ASSUME NEW i \in Ahead(v)
        PROVE  TurnAt(v, i) \in Nat /\ t < TurnAt(v, i) /\ TurnAt(v, i) <= id - 1
    <3>1. TurnAt(w, i) \in Nat /\ t < TurnAt(w, i) /\ TurnAt(w, i) < id
      BY <1>3, <1>4, <2>1 DEF Lines
    <3> QED
      BY <1>5, <2>1, <3>1
  <2>3. \A i, j \in Ahead(v) : i < j => TurnAt(v, j) < TurnAt(v, i)
    BY <2>1 DEF Lines
  <2> QED
    BY <1>5, <1>6, <2>2, <2>3 DEF Lines
<1> QED
  BY <1>4, <1>5, <1>6, <1>7

\* What an action made of the world is what the keys are about.
LEMMA BecomeWhole ==
  ASSUME NEW v, Become(v), NEW K, NEW n, Whole(v, K, n)
  PROVE  Whole(World', K, n)
<1>1. World'.mem = v.mem /\ World'.proc = v.proc /\ World'.live = v.live
  BY DEF Become, World
<1> QED
  BY <1>1, UnheldWhole

\* A key that is none of a reply is used for an append.
LEMMA PutWhole ==
  ASSUME NEW w, NEW n, Whole(w, keys, n), NEW e, NEW key, Foreign(key), Put(e, key)
  PROVE  Whole(w, keys', n)
<1>1. keys' = keys \/ keys' = keys \cup {key}
  BY DEF Put
<1>2. \A t : Due(t, w.mem, keys, n) => Due(t, w.mem, keys \cup {key}, n)
  BY DEF Due
<1>3. Issued(key, w.mem, n)
  BY DEF Foreign, Issued
<1>4. Whole(w, keys \cup {key}, n)
  BY <1>2, <1>3 DEF Whole
<1> QED
  BY <1>1, <1>4

\* A chain's operation is committed, and the chain taken on.
LEMMA CommittedOwing ==
  ASSUME RuntimeTyped, NEW n, Whole(World, keys, n), NEW p \in Chains,
         NEW e, NEW key, Foreign(key), Put(e, key), NEW w, w = Committed(p),
         NEW T, T \subseteq Owes(proc[p])
  PROVE  Shaped(w) /\ Owing(w, p, T, keys', n)
<1>1. Known(World) /\ World.mem = mem /\ World.live = live /\ World.proc = proc
  BY DEF RuntimeTyped, World
<1>2. Shaped(w) /\ w.mem = mem /\ w.live = live /\ w.proc = proc
  BY <1>1, CommittedWorld
<1>3. Whole(w, keys, n)
  BY <1>1, <1>2, UnheldWhole
<1>4. Whole(w, keys', n)
  BY <1>3, PutWhole
<1> QED
  BY <1>2, <1>4, TakenOn

\* What a chain awaits has the keys it should.
LEMMA ProperAt ==
  ASSUME NEW n, Whole(World, keys, n), NEW p \in Chains
  PROVE  Proper(proc[p]) /\ World.proc[p] = proc[p]
BY DEF Whole, World

\* The opening's decision is on record.
LEMMA OpenedWhole ==
  ASSUME RuntimeTyped, NEW n, Whole(World, keys, n), NEW p \in Chains, Opened(p)
  PROVE  Whole(World', keys', n)
<1>1. proc[p].at = "opening"
  BY DEF Opened, MayCommit
<1>2. PICK c \in Circumstances :
        Become(Realize(Committed(p), p, proc[p], proc[p].id, c))
  BY DEF Opened
<1>3. PICK w, v : w = Committed(p) /\ v = Realize(w, p, proc[p], proc[p].id, c)
  OBVIOUS
<1>4. PICK e : Put(e, proc[p].id)
  BY DEF Opened
<1>5. Foreign(proc[p].id) /\ proc[p].decision.action = "DELIVER_BRIEF"
  BY <1>1, ProperAt DEF Proper
<1>6. Shaped(w) /\ Owing(w, p, {}, keys', n)
  BY <1>3, <1>4, <1>5, CommittedOwing
<1>7. p \in Others(Observer)
  BY <1>1, Replies
<1>8. PICK job : job = proc[p]
  OBVIOUS
<1>9. Whole(v, keys', n)
  BY <1>3, <1>5, <1>6, <1>7, <1>8, RealizeWhole
<1> QED
  BY <1>2, <1>3, <1>9, BecomeWhole

\* A judgement is on record.
LEMMA DecidedWhole ==
  ASSUME RuntimeTyped, NEW n, Whole(World, keys, n), NEW p \in Chains, Decided(p)
  PROVE  Whole(World', keys', n)
<1>1. PICK job : job = proc[p]
  OBVIOUS
<1>2. job.at = "decided"
  BY <1>1 DEF Decided, MayCommit
<1>3. PICK w : w = Committed(p)
  OBVIOUS
<1>4. PICK c \in Circumstances :
        Become(IF job.decision = Silent
               THEN AfterJudge(StaySilent(w, job), p, job, {}, c)
               ELSE IF Stale(w, job.decision.grounded, job.cited, c.aged)
               THEN Await(w, p, [job EXCEPT !.at = "superseded"])
               ELSE Realize(w, p, job, <<"turn", job.turn.id>>, c))
  BY <1>1, <1>3 DEF Decided
<1>5. PICK e : Put(e, <<>>)
  BY DEF Decided
<1>6. PICK key : key = Turned(job.turn)
  OBVIOUS
<1>7. {key} \subseteq Owes(proc[p])
  BY <1>1, <1>2, <1>6 DEF Owes
<1>8. Foreign(<<>>)
  BY CheckpointKeys
<1>9. Shaped(w) /\ Owing(w, p, {key}, keys', n)
  BY <1>3, <1>5, <1>7, <1>8, CommittedOwing
<1>10. p \in Others(Observer) /\ ReplyJob(job)
  BY <1>1, <1>2, Replies
<1>11. CASE job.decision = Silent
  <2>1. PICK s, v : s = StaySilent(w, job) /\ v = AfterJudge(s, p, job, {}, c)
    OBVIOUS
  <2>2. Become(v)
    BY <1>4, <1>11, <2>1
  <2>3. Quieted(w, s, job)
    BY <1>9, <2>1, StaySilentWorld
  <2>4. Shaped(s) /\ Owing(s, p, {}, keys', n)
    BY <1>6, <1>9, <2>3, QuietedOwing DEF Quieted
  <2>5. Leaves(s, v, p, {})
    BY <1>10, <2>1, <2>4, AfterJudgeLeaves
  <2>6. Whole(v, keys', n)
    BY <2>4, <2>5, LeftAgain
  <2> QED
    BY <2>2, <2>6, BecomeWhole
<1>12. CASE /\ job.decision # Silent
            /\ Stale(w, job.decision.grounded, job.cited, c.aged)
  <2>1. PICK next, v : /\ next = [job EXCEPT !.at = "superseded"]
                       /\ v = Await(w, p, next)
    OBVIOUS
  <2>2. Become(v)
    BY <1>4, <1>12, <2>1
  <2>3. next.at = "superseded"
    BY <1>2, <1>10, <2>1 DEF ReplyJob
  <2>4. Proper(next) /\ Owes(next) \subseteq {key}
    BY <2>3 DEF Proper, Owes
  <2>5. Leaves(w, v, p, {key})
    BY <1>9, <2>1, <2>4, AwaitLeaves
  <2>6. Whole(v, keys', n)
    BY <1>9, <2>5, LeftAgain
  <2> QED
    BY <2>2, <2>6, BecomeWhole
<1>13. CASE /\ job.decision # Silent
            /\ ~Stale(w, job.decision.grounded, job.cited, c.aged)
  <2>1. PICK v : v = Realize(w, p, job, key, c)
    OBVIOUS
  <2>2. Become(v)
    BY <1>4, <1>6, <1>13, <2>1 DEF Turned
  <2>3. Whole(v, keys', n)
    BY <1>9, <1>10, <2>1, RealizeWhole
  <2> QED
    BY <2>2, <2>3, BecomeWhole
<1> QED
  BY <1>11, <1>12, <1>13

\* A freshness rejection is on record.
LEMMA SupersededWhole ==
  ASSUME RuntimeTyped, NEW n, Whole(World, keys, n), NEW p \in Chains, Superseded(p)
  PROVE  Whole(World', keys', n)
<1>1. PICK job : job = proc[p]
  OBVIOUS
<1>2. job.at = "superseded"
  BY <1>1 DEF Superseded, MayCommit
<1>3. PICK c \in Circumstances :
        Become(AfterJudge(HeardOut(Committed(p)), p, job, {}, c))
  BY <1>1 DEF Superseded
<1>4. PICK w, s, v : /\ w = Committed(p) /\ s = HeardOut(w)
                     /\ v = AfterJudge(s, p, job, {}, c)
  OBVIOUS
<1>5. PICK e : Put(e, <<>>)
  BY DEF Superseded
<1>6. Foreign(<<>>) /\ w = Committed(p)
  BY <1>4, CheckpointKeys
<1>7. Shaped(w) /\ Owing(w, p, {}, keys', n)
  BY <1>5, <1>6, CommittedOwing
<1>8. p \in Others(Observer)
  BY <1>1, <1>2, Replies
<1>9. s = HeardOut(w)
  BY <1>4
<1>10. /\ Shaped(s) /\ s.live = w.live /\ s.proc = w.proc
       /\ \A f \in MemFields \ {"speechStarted"} : s.mem[f] = w.mem[f]
  BY <1>7, <1>9, HeardOutWorld
<1>11. Alike(w, s, p)
  BY <1>10 DEF Alike, MemFields
<1>12. Leaves(s, v, p, {})
  BY <1>4, <1>8, <1>10, AfterJudgeLeaves
<1>13. Leaves(w, v, p, {})
  BY <1>11, <1>12, AlikeLeaves
<1>14. Whole(v, keys', n)
  BY <1>7, <1>13, LeftAgain
<1> QED
  BY <1>3, <1>4, <1>14, BecomeWhole

\* A commit leaves all keys as they were owed.
LEMMA CommittedWhole ==
  ASSUME RuntimeTyped, NEW K, NEW n, Whole(World, K, n), NEW p \in Chains,
         NEW w, w = Committed(p)
  PROVE  /\ Shaped(w) /\ Whole(w, K, n) /\ w.mem = mem /\ w.live = live
         /\ w.proc = proc
<1>1. Known(World) /\ World.mem = mem /\ World.live = live /\ World.proc = proc
  BY DEF RuntimeTyped, World
<1>2. Shaped(w) /\ w.mem = mem /\ w.live = live /\ w.proc = proc
  BY <1>1, CommittedWorld
<1> QED
  BY <1>1, <1>2, UnheldWhole

\* The evidence of a reply is on record: its key is used, once.
LEMMA RealizedWhole ==
  ASSUME RuntimeTyped, NEW n, Whole(World, keys, n), NEW p \in Chains, Realized(p)
  PROVE  Whole(World', keys', n)
<1>1. PICK job, key : job = proc[p] /\ key = job.key
  OBVIOUS
<1>2. job.at = "realized" /\ Put(job.event, key)
  BY <1>1 DEF Realized, MayCommit
<1>3. PICK c \in Circumstances :
        Become(Authorize(Committed(p), p, job.of, job.utterance, c))
  BY <1>1 DEF Realized
<1>4. PICK w, v : w = Committed(p) /\ v = Authorize(w, p, job.of, job.utterance, c)
  OBVIOUS
<1>5. w = Committed(p)
  BY <1>4
<1>6. Shaped(w) /\ Whole(w, keys, n) /\ w.proc = proc
  BY <1>5, CommittedWhole
<1>7. {key} \subseteq Owes(w.proc[p])
  BY <1>1, <1>2, <1>6 DEF Owes
<1>8. Owing(w, p, {key}, keys, n)
  BY <1>6, <1>7, TakenOn
<1>9. ~Foreign(key) /\ key \notin keys
  BY <1>8 DEF Owing, Due
<1>10. key # <<>>
  BY <1>9, CheckpointKeys
<1>11. keys' = keys \cup {key}
  BY <1>2, <1>9, <1>10 DEF Put
<1>12. Owing(w, p, {}, keys', n)
  BY <1>8, <1>11, SpokenOwing
<1>13. p \in Others(Observer)
  BY <1>1, <1>2, Replies
<1>14. Leaves(w, v, p, {})
  BY <1>4, <1>6, <1>13, AuthorizeLeaves
<1>15. Whole(v, keys', n)
  BY <1>12, <1>14, LeftAgain
<1> QED
  BY <1>3, <1>4, <1>15, BecomeWhole

\* The silence was recorded: the reply to the turn held by now is owed by the
\* timer's chain.
LEMMA ElapsedWhole ==
  ASSUME RuntimeTyped, NEW n, Whole(World, keys, n), NEW p \in Chains, Elapsed(p)
  PROVE  Whole(World', keys', n)
<1>1. proc[p].at = "elapsed"
  BY DEF Elapsed, MayCommit
<1>2. PICK w : w = Committed(p)
  OBVIOUS
<1>3. PICK e : Put(e, <<>>)
  BY DEF Elapsed
<1>4. Foreign(<<>>)
  BY CheckpointKeys
<1>5. Shaped(w) /\ Owing(w, p, {}, keys', n)
  BY <1>2, <1>3, <1>4, CommittedOwing
<1>6. w.live = live
  BY <1>2, CommittedWhole
<1>7. CASE live.held = {}
  <2>1. PICK key : key = <<"silence", proc[p].held.turn.id, proc[p].held.attempt>>
    OBVIOUS
  <2>2. PICK then, v : then = Deliver({}) /\ v = Save(w, p, key, then)
    OBVIOUS
  <2>3. Become(v)
    BY <1>2, <1>7, <2>1, <2>2 DEF Elapsed
  <2>4. Foreign(key)
    BY <2>1, CheckpointKeys
  <2>5. Leaves(w, v, p, {})
    BY <1>5, <2>2, <2>4, SaveLeaves
  <2>6. Whole(v, keys', n)
    BY <1>5, <2>5, LeftAgain
  <2> QED
    BY <2>3, <2>6, BecomeWhole
<1>8. CASE live.held # {}
  <2>1. PICK h, c : /\ h \in live.held
                    /\ Become(Judge(ClearHeldTurn(w), p, h.turn, h.attempt,
                                    proc[p].timed \/ mem.stopped, c))
    BY <1>2, <1>8 DEF Elapsed
  <2>2. PICK s, timed, v : /\ s = ClearHeldTurn(w)
                           /\ timed = (proc[p].timed \/ mem.stopped)
                           /\ v = Judge(s, p, h.turn, h.attempt, timed, c)
    OBVIOUS
  <2>3. Become(v)
    BY <2>1, <2>2
  <2>4. PICK key : key = Turned(h.turn)
    OBVIOUS
  <2>5. key \in Parked(w.live)
    BY <1>6, <2>1, <2>4 DEF Parked
  <2>6. s = ClearHeldTurn(w)
    BY <2>2
  <2>7. /\ Shaped(s) /\ s.mem = w.mem /\ s.proc = w.proc
        /\ s.live.held = {} /\ s.live.speakingHeld = {}
    BY <1>5, <2>6, ClearedWorld
  <2>8. Owing(s, p, {key}, keys', n)
    BY <1>5, <2>5, <2>7, UnparkedOwing
  <2>9. Turned(h.turn) \in {key}
    BY <2>4
  <2>10. Leaves(s, v, p, {key})
    BY <2>2, <2>7, <2>9, JudgeLeaves
  <2>11. Whole(v, keys', n)
    BY <2>8, <2>10, LeftAgain
  <2> QED
    BY <2>3, <2>11, BecomeWhole
<1> QED
  BY <1>7, <1>8

\* How an utterance ended is on record.
LEMMA OutcomeWhole ==
  ASSUME RuntimeTyped, NEW n, Whole(World, keys, n), NEW p \in Chains,
         OutcomeRecorded(p)
  PROVE  Whole(World', keys', n)
<1>1. PICK job : job = proc[p]
  OBVIOUS
<1>2. job.at = "outcome"
  BY <1>1 DEF OutcomeRecorded, MayCommit
<1>3. PICK c \in Circumstances :
        Become(CloseUtterance(Committed(p), p, job.utterance, job.heard, job.then, c))
  BY <1>1 DEF OutcomeRecorded
<1>4. PICK w, v : /\ w = Committed(p)
                  /\ v = CloseUtterance(w, p, job.utterance, job.heard, job.then, c)
  OBVIOUS
<1>5. PICK e, key : Put(e, key) /\ key = <<"outcome", job.utterance.id>>
  BY <1>1 DEF OutcomeRecorded
<1>6. Foreign(key) /\ w = Committed(p)
  BY <1>4, <1>5, CheckpointKeys
<1>7. Shaped(w) /\ Owing(w, p, {}, keys', n)
  BY <1>5, <1>6, CommittedOwing
<1>8. p \in Others(Observer)
  BY <1>1, <1>2, Replies
<1>9. Leaves(w, v, p, {})
  BY <1>4, <1>7, <1>8, CloseUtteranceLeaves
<1>10. Whole(v, keys', n)
  BY <1>7, <1>9, LeftAgain
<1> QED
  BY <1>3, <1>4, <1>10, BecomeWhole

\* The row moved, or the chain that meant to move it failed.
LEMMA TransitionedWhole ==
  ASSUME RuntimeTyped, NEW n, Whole(World, keys, n), NEW p \in Chains,
         Transitioned(p)
  PROVE  Whole(World', keys', n)
<1>1. PICK job : job = proc[p]
  OBVIOUS
<1>2. job.at = "transition" /\ JobOK(p, job) /\ Proper(job) /\ World.proc[p] = job
  BY <1>1, ProperAt DEF Transitioned, MayCommit, RuntimeTyped, Known, World
<1>3. CASE row = job.from
  <2>1. PICK c \in Circumstances : Become(Advance(Committed(p), p, job.then, c))
    BY <1>1, <1>3 DEF Transitioned
  <2>2. PICK w, then, v : /\ w = Committed(p) /\ then = job.then
                          /\ v = Advance(w, p, then, c)
    OBVIOUS
  <2>3. PICK e, key : Put(e, key) /\ key = <<"stage", job.to>>
    BY <1>1, <1>3 DEF Transitioned
  <2>4. Foreign(key) /\ w = Committed(p)
    BY <2>2, <2>3, CheckpointKeys
  <2>5. PICK T : T = Owes(job)
    OBVIOUS
  <2>6. T \subseteq Owes(proc[p])
    BY <1>1, <2>5
  <2>7. Shaped(w) /\ Owing(w, p, T, keys', n)
    BY <2>3, <2>4, <2>6, CommittedOwing
  <2>8. Resumes(p, then, T)
    <3>1. then.do = "judge" => Turned(then.turn) \in T
      BY <1>2, <2>2, <2>5 DEF Owes
    <3>2. then.do = "save" => Foreign(then.key)
      BY <1>2, <2>2 DEF Proper
    <3>3. p # Observer => then.do \in {"judge", "save"}
      BY <1>2, <2>2 DEF JobOK, ReplyJob, Continues
    <3> QED
      BY <3>1, <3>2, <3>3 DEF Resumes
  <2>9. Leaves(w, v, p, T)
    BY <2>2, <2>7, <2>8, AdvanceLeaves
  <2>10. Whole(v, keys', n)
    BY <2>7, <2>9, LeftAgain
  <2> QED
    BY <2>1, <2>2, <2>10, BecomeWhole
<1>4. CASE row # job.from
  <2>1. PICK w, v : w = World /\ v = Abort(w, p)
    OBVIOUS
  <2>2. Become(v) /\ keys' = keys
    BY <1>1, <1>4, <2>1 DEF Transitioned
  <2>3. Shaped(w) /\ Whole(w, keys, n)
    BY <2>1 DEF RuntimeTyped, Known
  <2>4. Whole(v, keys, n)
    BY <2>1, <2>3, AbortWhole
  <2> QED
    BY <2>2, <2>4, BecomeWhole
<1> QED
  BY <1>3, <1>4

\* A chain fails.
LEMMA FaultWhole ==
  ASSUME RuntimeTyped, NEW n, Whole(World, keys, n), NEW p \in Chains, Fault(p)
  PROVE  Whole(World', keys', n)
<1>1. PICK w, v : w = World /\ v = Abort(w, p)
  OBVIOUS
<1>2. Become(v) /\ keys' = keys
  BY <1>1 DEF Fault
<1>3. Shaped(w) /\ Whole(w, keys, n)
  BY <1>1 DEF RuntimeTyped, Known
<1>4. Whole(v, keys, n)
  BY <1>1, <1>3, AbortWhole
<1> QED
  BY <1>2, <1>4, BecomeWhole

\* What is held stays held.
LEMMA UnauthorizedHeld ==
  ASSUME NEW w, Shaped(w), NEW v, v = Unauthorize(w)
  PROVE  v.live.held = w.live.held /\ v.live.speakingHeld = w.live.speakingHeld
<1>1. PICK l : l = [w.live EXCEPT !.speaking = FALSE, !.authorized = {}]
  OBVIOUS
<1>2. l.held = w.live.held /\ l.speakingHeld = w.live.speakingHeld
  BY <1>1 DEF Shaped, LiveFields
<1>3. v = [w EXCEPT !.live = l]
  BY <1>1 DEF Unauthorize, WithLive
<1>4. v.live = l
  BY <1>3 DEF Shaped
<1> QED
  BY <1>2, <1>4

\* An utterance is handed over, or closed when nobody is there.
LEMMA HandedWhole ==
  ASSUME NEW w, Shaped(w), NEW K, NEW n, Whole(w, K, n), NEW say, NEW c,
         Handed(w, say, c)
  PROVE  Whole(World', K, n)
<1>1. PICK z : z = Unauthorize(w)
  OBVIOUS
<1>2. \/ Become(w) \/ Become(z)
      \/ \E u : Become(CloseUtterance(z, Undelivered, u, TRUE, Done, c))
  BY <1>1 DEF Handed
<1>3. /\ Shaped(z) /\ z.proc = w.proc /\ z.mem = w.mem
      /\ z.live.held = w.live.held /\ z.live.speakingHeld = w.live.speakingHeld
  <2>1. z = Unauthorize(w)
    BY <1>1
  <2>2. Shaped(z) /\ z.proc = w.proc /\ z.mem = w.mem
    BY <2>1, UnauthorizedWorld
  <2>3. z.live.held = w.live.held /\ z.live.speakingHeld = w.live.speakingHeld
    BY <2>1, UnauthorizedHeld
  <2> QED
    BY <2>2, <2>3
<1>4. Parked(z.live) \subseteq Parked(w.live)
  BY <1>3 DEF Parked
<1>5. Whole(z, K, n)
  BY <1>3, <1>4, UnheldWhole
<1>6. ASSUME NEW u, NEW v, v = CloseUtterance(z, Undelivered, u, TRUE, Done, c)
      PROVE  Whole(v, K, n)
  <2>1. Undelivered \in Others(Observer) /\ Undelivered \in Chains
    BY DEF Undelivered, Observer, Dispatcher, Others, Chains
  <2>2. Owing(z, Undelivered, {}, K, n)
    BY <1>5, <2>1, TakenOn
  <2>3. Leaves(z, v, Undelivered, {})
    BY <1>3, <1>6, <2>1, CloseUtteranceLeaves
  <2> QED
    BY <2>1, <2>2, <2>3, LeftAgain
<1>7. CASE \E u : Become(CloseUtterance(z, Undelivered, u, TRUE, Done, c))
  <2>1. PICK u, v : v = CloseUtterance(z, Undelivered, u, TRUE, Done, c) /\ Become(v)
    BY <1>7
  <2> QED
    BY <1>6, <2>1, BecomeWhole
<1> QED
  BY <1>2, <1>5, <1>7, BecomeWhole

\* A checkpoint is durable, and its chain goes on.
LEMMA CheckpointedWhole ==
  ASSUME RuntimeTyped, NEW n, Whole(World, keys, n), NEW p \in Chains,
         Checkpointed(p)
  PROVE  Whole(World', keys', n)
<1>1. PICK job : job = proc[p]
  OBVIOUS
<1>2. /\ job.at = "checkpoint" /\ JobOK(p, job) /\ Proper(job)
      /\ proc[p] # Idle
  BY <1>1, ProperAt DEF Checkpointed, MayCommit, RuntimeTyped, Known, World, Idle
<1>3. PICK w, f : w = Committed(p) /\ f = Finish(w, p)
  OBVIOUS
<1>4. PICK c \in Circumstances :
        CASE job.then.do = "deliver" -> Handed(f, job.then.say, c)
          [] job.then.do = "advance" ->
               Become(Advance(w, p, [do |-> "pass"], c)) /\ page' = page
          [] job.then.do = "ready" -> Become(EnqueueStart(f)) /\ page' = page
          [] OTHER -> Become(f) /\ page' = page
  BY <1>1, <1>3 DEF Checkpointed
<1>5. PICK e, key : Put(e, key) /\ key = job.key
  BY <1>1 DEF Checkpointed
<1>6. Foreign(key) /\ w = Committed(p) /\ f = Finish(w, p)
  BY <1>2, <1>3, <1>5 DEF Proper
<1>7. Shaped(w) /\ Owing(w, p, {}, keys', n)
  BY <1>5, <1>6, CommittedOwing
<1>8. Leaves(w, f, p, {}) /\ Shaped(f)
  BY <1>6, <1>7, FinishLeaves, FinishWorld
<1>9. Whole(f, keys', n)
  BY <1>7, <1>8, LeftAgain
<1>10. CASE job.then.do = "deliver"
  <2>1. Handed(f, job.then.say, c)
    BY <1>4, <1>10
  <2> QED
    BY <1>8, <1>9, <2>1, HandedWhole
<1>11. CASE job.then.do = "advance"
  <2>1. p = Observer
    BY <1>2, <1>11 DEF JobOK, ReplyJob, Parting, Done, Ready
  <2>2. PICK then, v : then = [do |-> "pass"] /\ v = Advance(w, p, then, c)
    OBVIOUS
  <2>3. Become(v)
    BY <1>4, <1>11, <2>2
  <2>4. then.do = "pass"
    BY <2>2
  <2>5. Resumes(p, then, {})
    BY <2>1, <2>4 DEF Resumes
  <2>6. Leaves(w, v, p, {})
    BY <1>7, <2>2, <2>5, AdvanceLeaves
  <2>7. Whole(v, keys', n)
    BY <1>7, <2>6, LeftAgain
  <2> QED
    BY <2>3, <2>7, BecomeWhole
<1>12. CASE job.then.do = "ready"
  <2>1. PICK v : v = EnqueueStart(f)
    OBVIOUS
  <2>2. Become(v)
    BY <1>4, <1>12, <2>1
  <2>3. Known(f) /\ QueueOK(f.queue)
    BY <1>2, <1>6, FinishedWorld
  <2>4. v.mem = f.mem /\ v.live = f.live /\ v.proc = f.proc
    BY <2>1, <2>3, EnqueuedWorld
  <2>5. Whole(v, keys', n)
    BY <1>9, <2>4, UnheldWhole
  <2> QED
    BY <2>2, <2>5, BecomeWhole
<1>13. CASE job.then.do \notin {"deliver", "advance", "ready"}
  <2>1. Become(f)
    BY <1>4, <1>13
  <2> QED
    BY <1>9, <2>1, BecomeWhole
<1> QED
  BY <1>10, <1>11, <1>12, <1>13

\* The classifier answered.
LEMMA ClassifiedWhole ==
  ASSUME RuntimeTyped, NEW n, Whole(World, keys, n), Classified
  PROVE  Whole(World', keys', n)
<1> DEFINE turn == proc[Dispatcher].turn
<1>1. PICK told, then :
        /\ told = [mem EXCEPT !.reasoning = IF turn.intent \in ReasoningIntents
                                            THEN Saturate(@ + 1) ELSE @,
                              !.approach = @ \/ turn.intent = "APPROACH_COMMITMENT"]
        /\ then = [do |-> "judge", turn |-> turn]
  OBVIOUS
<1>2. PICK c \in Circumstances :
        Become(Advance(WithMem(World, told), Dispatcher, then, c))
  BY <1>1 DEF Classified
<1>3. PICK w, y, v : /\ w = World /\ y = WithMem(w, told)
                     /\ v = Advance(y, Dispatcher, then, c)
  OBVIOUS
<1>4. w.mem = mem /\ w.proc = proc /\ w.live = live /\ Shaped(w)
  BY <1>3 DEF World, RuntimeTyped, Known
<1>5. /\ told = [f \in MemFields |-> told[f]] /\ told.briefs = mem.briefs
      /\ told.redeliveries = mem.redeliveries
  BY <1>1, <1>4 DEF Shaped, MemFields
<1>6. y = WithMem(w, told)
  BY <1>3
<1>7. Shaped(y) /\ y.mem = told /\ y.live = w.live /\ y.proc = w.proc
  BY <1>4, <1>5, <1>6, MemWorld
<1>8. Alike(w, y, Dispatcher)
  BY <1>4, <1>5, <1>7 DEF Alike
<1>9. Dispatcher \in Chains /\ proc[Dispatcher].at = "classify" /\ keys' = keys
  BY DEF Classified, Chains
<1>10. PICK T : T = {Turned(turn)}
  OBVIOUS
<1>11. T \subseteq Owes(w.proc[Dispatcher])
  BY <1>4, <1>9, <1>10 DEF Owes
<1>12. Owing(w, Dispatcher, T, keys, n)
  BY <1>3, <1>9, <1>11, TakenOn
<1>13. then.do = "judge" /\ then.turn = turn
  BY <1>1
<1>14. Resumes(Dispatcher, then, T)
  BY <1>10, <1>13 DEF Resumes
<1>15. Leaves(y, v, Dispatcher, T)
  BY <1>3, <1>7, <1>9, <1>14, AdvanceLeaves
<1>16. Leaves(w, v, Dispatcher, T)
  BY <1>8, <1>15, AlikeLeaves
<1>17. Whole(v, keys, n)
  BY <1>9, <1>12, <1>16, LeftAgain
<1> QED
  BY <1>2, <1>3, <1>9, <1>17, BecomeWhole

\* An observation pass goes on.
LEMMA ObserveWhole ==
  ASSUME RuntimeTyped, NEW n, Whole(World, keys, n), Observe
  PROVE  Whole(World', keys', n)
<1>0. Observer \in Chains
  BY DEF Chains
<1>1. PICK w : w = Committed(Observer)
  OBVIOUS
<1>2. CASE Parsed
  <2>1. PICK u, v : u = World /\ v = Fold(u, proc[Observer])
    OBVIOUS
  <2>2. Become(v) /\ keys' = keys
    BY <1>2, <2>1 DEF Parsed
  <2>3. Shaped(u) /\ Whole(u, keys, n)
    BY <2>1 DEF RuntimeTyped, Known
  <2>4. Passed(u, v)
    BY <2>1, <2>3, FoldWorld
  <2>5. Leaves(u, v, Observer, {})
    BY <2>4, PassedLeaves
  <2>6. Owing(u, Observer, {}, keys, n)
    BY <1>0, <2>3, TakenOn
  <2>7. Whole(v, keys, n)
    BY <1>0, <2>5, <2>6, LeftAgain
  <2> QED
    BY <2>2, <2>7, BecomeWhole
<1>3. CASE MilestoneRecorded
  <2>1. PICK job, v : /\ job = [proc[Observer] EXCEPT !.at = "observed"]
                      /\ v = Await(w, Observer, job)
    OBVIOUS
  <2>2. Become(v)
    BY <1>1, <1>3, <2>1 DEF MilestoneRecorded
  <2>3. ObserverJob(proc[Observer]) /\ proc[Observer].at = "milestone"
    BY <1>0, <1>3 DEF RuntimeTyped, Known, JobOK, World, MilestoneRecorded, MayCommit
  <2>4. job.at = "observed"
    BY <2>1, <2>3 DEF ObserverJob
  <2>5. Proper(job) /\ Owes(job) \subseteq {}
    BY <2>4 DEF Proper, Owes
  <2>6. PICK e, key : Put(e, key) /\ key = <<"milestone", proc[Observer].pass>>
    BY <1>3 DEF MilestoneRecorded
  <2>7. Foreign(key)
    BY <2>6, CheckpointKeys
  <2>8. Shaped(w) /\ Owing(w, Observer, {}, keys', n)
    BY <1>0, <1>1, <2>6, <2>7, CommittedOwing
  <2>9. Leaves(w, v, Observer, {})
    BY <1>0, <2>1, <2>5, <2>8, AwaitLeaves
  <2>10. Whole(v, keys', n)
    BY <1>0, <2>8, <2>9, LeftAgain
  <2> QED
    BY <2>2, <2>10, BecomeWhole
<1>4. CASE StateRecorded
  <2>1. PICK next, v : /\ next = <<"pass", proc[Observer].pass>>
                       /\ v = Save(w, Observer, next, AdvanceNext)
    OBVIOUS
  <2>2. Become(v)
    BY <1>1, <1>4, <2>1 DEF StateRecorded
  <2>3. PICK e, key : Put(e, key) /\ key = <<"observation", proc[Observer].pass>>
    BY <1>4 DEF StateRecorded
  <2>4. Foreign(key) /\ Foreign(next)
    BY <2>1, <2>3, CheckpointKeys
  <2>5. Shaped(w) /\ Owing(w, Observer, {}, keys', n)
    BY <1>0, <1>1, <2>3, <2>4, CommittedOwing
  <2>6. Leaves(w, v, Observer, {})
    BY <1>0, <2>1, <2>4, <2>5, SaveLeaves
  <2>7. Whole(v, keys', n)
    BY <1>0, <2>5, <2>6, LeftAgain
  <2> QED
    BY <2>2, <2>7, BecomeWhole
<1> QED
  BY <1>2, <1>3, <1>4 DEF Observe

\* A silence timer fires.
LEMMA TimerWhole ==
  ASSUME RuntimeTyped, NEW n, Whole(World, keys, n), NEW p \in Timers, TimerFires(p)
  PROVE  Whole(World', keys', n)
<1>1. p \in Chains /\ keys' = keys
  BY DEF TimerFires, Chains
<1>2. PICK l :
        /\ \/ l = [live EXCEPT !.handle = FALSE]
           \/ l = [live EXCEPT !.leaked = live.leaked - 1]
        /\ \/ Become(WithLive(World, l))
           \/ \E h, timed, enough :
                Become(Await(WithLive(World, l), p,
                             [at |-> "elapsed", held |-> h, timed |-> timed,
                              enough |-> enough]))
  <2>1. PICK own \in BOOLEAN, enough \in BOOLEAN :
          LET l == IF own THEN [live EXCEPT !.handle = FALSE]
                          ELSE [live EXCEPT !.leaked = live.leaked - 1]
          IN  IF live.held = {} THEN ~enough /\ Become(WithLive(World, l))
              ELSE \E h \in live.held :
                     Become(Await(WithLive(World, l), p,
                                  [at |-> "elapsed", held |-> h,
                                   timed |-> live.timed, enough |-> enough]))
    BY DEF TimerFires
  <2>2. PICK l : l = IF own THEN [live EXCEPT !.handle = FALSE]
                            ELSE [live EXCEPT !.leaked = live.leaked - 1]
    OBVIOUS
  <2> QED
    BY <2>1, <2>2
<1>3. PICK w, fired : w = World /\ fired = WithLive(w, l)
  OBVIOUS
<1>4. /\ w.live = live /\ w.proc = proc /\ w.mem = mem /\ Shaped(w)
      /\ Whole(w, keys, n)
  BY <1>3 DEF World, RuntimeTyped, Known
<1>5. /\ l = [f \in LiveFields |-> l[f]] /\ l.held = live.held
      /\ l.speakingHeld = live.speakingHeld
  BY <1>2, <1>4 DEF Shaped, LiveFields
<1>6. fired = WithLive(w, l)
  BY <1>3
<1>7. Shaped(fired) /\ fired.live = l /\ fired.proc = w.proc /\ fired.mem = w.mem
  BY <1>4, <1>5, <1>6, LiveWorld
<1>8. Parked(fired.live) \subseteq Parked(w.live)
  BY <1>4, <1>5, <1>7 DEF Parked
<1>9. Whole(fired, keys, n)
  BY <1>4, <1>7, <1>8, UnheldWhole
<1>10. CASE Become(fired)
  BY <1>1, <1>9, <1>10, BecomeWhole
<1>11. ASSUME NEW h, NEW timed, NEW enough,
              Become(Await(fired, p, [at |-> "elapsed", held |-> h,
                                      timed |-> timed, enough |-> enough]))
       PROVE  Whole(World', keys', n)
  <2>1. PICK job, v : /\ job = [at |-> "elapsed", held |-> h, timed |-> timed,
                                enough |-> enough]
                      /\ v = Await(fired, p, job)
    OBVIOUS
  <2>2. job.at = "elapsed"
    BY <2>1
  <2>3. Proper(job) /\ Owes(job) \subseteq {}
    BY <2>2 DEF Proper, Owes
  <2>4. Owing(fired, p, {}, keys, n)
    BY <1>1, <1>9, TakenOn
  <2>5. Leaves(fired, v, p, {})
    BY <1>1, <1>7, <2>1, <2>3, AwaitLeaves
  <2>6. Whole(v, keys, n)
    BY <1>1, <2>4, <2>5, LeftAgain
  <2> QED
    BY <1>1, <1>11, <2>1, <2>6, BecomeWhole
<1> QED
  BY <1>2, <1>3, <1>10, <1>11

\* A report of how an utterance ended takes a chain on.
LEMMA ReportWhole ==
  ASSUME NEW w, Shaped(w), NEW K, NEW n, Whole(w, K, n), NEW p \in Chains, NEW u,
         NEW heard, NEW then, NEW v, v = ReportOutcome(w, p, u, heard, then)
  PROVE  Whole(v, K, n)
<1>1. Owing(w, p, {}, K, n)
  BY TakenOn
<1>2. Leaves(w, v, p, {})
  BY ReportOutcomeLeaves
<1> QED
  BY <1>1, <1>2, LeftAgain

\* The browser is done with its utterance.
LEMMA CompleteWhole ==
  ASSUME RuntimeTyped, NEW n, Whole(World, keys, n), NEW p \in Requests,
         UtteranceComplete(p)
  PROVE  Whole(World', keys', n)
<1>1. p \in Chains /\ keys' = keys
  BY DEF UtteranceComplete, Chains
<1>2. PICK u, heard, aged :
        Become(IF \E open \in VoiceContext(World, aged).live.authorized :
                        open.id = u.id
               THEN ReportOutcome(VoiceContext(World, aged), p,
                      CHOOSE open \in VoiceContext(World, aged).live.authorized : TRUE,
                      heard, Done)
               ELSE VoiceContext(World, aged))
  BY DEF UtteranceComplete
<1>3. PICK w, y : w = World /\ y = VoiceContext(w, aged)
  OBVIOUS
<1>4. Shaped(w) /\ Whole(w, keys, n) /\ y = VoiceContext(w, aged)
  BY <1>3 DEF RuntimeTyped, Known
<1>5. /\ Shaped(y) /\ y.mem = w.mem /\ y.proc = w.proc
      /\ \A f \in LiveFields \ {"authorized"} : y.live[f] = w.live[f]
  BY <1>4, VoiceContextWorld
<1>6. Parked(y.live) \subseteq Parked(w.live)
  BY <1>5 DEF LiveFields, Parked
<1>7. Whole(y, keys, n)
  BY <1>4, <1>5, <1>6, UnheldWhole
<1>8. PICK open, v : /\ v = ReportOutcome(y, p, open, heard, Done)
                     /\ Become(v) \/ Become(y)
  BY <1>2, <1>3
<1>9. Whole(v, keys, n)
  BY <1>1, <1>5, <1>7, <1>8, ReportWhole
<1> QED
  BY <1>1, <1>7, <1>8, <1>9, BecomeWhole

\* A page reports that its voice is ready, to a process that is there.
LEMMA ReadyWhole ==
  ASSUME RuntimeTyped, alive, NEW n, Whole(World, keys, n), NEW p \in Requests,
         VoiceReady(p)
  PROVE  Whole(World', keys', n)
<1>1. p \in Chains /\ keys' = keys
  BY DEF VoiceReady, Chains
<1>2. PICK held :
        IF Orphaned(World, held) # {}
        THEN Become(ReportOutcome(World, p, CHOOSE u \in Orphaned(World, held) : TRUE,
                                  FALSE, Ready))
        ELSE Become(EnqueueStart(World))
  BY DEF VoiceReady
<1>3. PICK w, u, heard, then, v, x :
        /\ w = World /\ heard = FALSE /\ then = Ready
        /\ v = ReportOutcome(w, p, u, heard, then)
        /\ x = EnqueueStart(w)
        /\ Become(v) \/ Become(x)
  BY <1>2
<1>4. Known(w) /\ Shaped(w) /\ QueueOK(w.queue) /\ Whole(w, keys, n)
  BY <1>3 DEF RuntimeTyped, Known, World
<1>5. v = ReportOutcome(w, p, u, heard, then) /\ x = EnqueueStart(w)
  BY <1>3
<1>6. Whole(v, keys, n)
  BY <1>1, <1>4, <1>5, ReportWhole
<1>7. x.mem = w.mem /\ x.live = w.live /\ x.proc = w.proc
  BY <1>4, <1>5, EnqueuedWorld
<1>8. Whole(x, keys, n)
  BY <1>4, <1>7, UnheldWhole
<1> QED
  BY <1>1, <1>3, <1>6, <1>8, BecomeWhole

\* What an action made of the tail.
LEMMA BecomeLines ==
  ASSUME NEW v, Become(v), NEW t, NEW n, Lines(v, t, n)
  PROVE  Lines(World', t, n)
<1>1. World'.queue = v.queue /\ World'.proc = v.proc
  BY DEF Become, World
<1> QED
  BY <1>1, LinesSame

\* Only the chain that was taken on can have touched the tail.
LEMMA TakenLines ==
  ASSUME RuntimeTyped, NEW t, NEW n, Lines(World, t, n), NEW p \in Chains,
         p = Dispatcher => queue # <<>>, Dispatches(World, World', p)
  PROVE  Lines(World', t, n)
<1>1. World.queue = queue /\ QueueOK(World.queue)
  BY DEF World, RuntimeTyped
<1>2. p = Dispatcher => World.queue # <<>>
  BY <1>1
<1> QED
  BY <1>1, <1>2, LinesDispatched

\* The same of every step that leaves the window alone or opens it.
LEMMA SteadyLines ==
  ASSUME RuntimeTyped, NEW t, NEW n, Lines(World, t, n), Steady \/ Opens
  PROVE  Lines(World', t, n)
<1>1. PICK p \in Chains : /\ Dispatches(World, World', p)
                          /\ p = Dispatcher => queue # <<>>
  BY DEF Steady, Opens, Carrying, Authorizing
<1> QED
  BY <1>1, TakenLines

\* The same of a chain that was under way.
LEMMA CarryingLines ==
  ASSUME RuntimeTyped, NEW t, NEW n, Lines(World, t, n), NEW p \in Chains,
         proc[p] # Idle, NEW say, Carrying(World, World', p, say)
  PROVE  Lines(World', t, n)
<1>1. /\ Dispatches(World, World', p)
      /\ p = Dispatcher => queue # <<>>
  BY DEF Carrying, RuntimeTyped
<1> QED
  BY <1>1, TakenLines

\* The session's first event goes to the end of the tail.
LEMMA EnqueuedLines ==
  ASSUME NEW w, Known(w), QueueOK(w.queue), NEW t, NEW n, Lines(w, t, n),
         NEW v, v = EnqueueStart(w)
  PROVE  Lines(v, t, n)
<1>1. PICK e, x : /\ e = [type |-> "SESSION_STARTED"]
                  /\ x = [event |-> e, before |-> {}]
  OBVIOUS
<1>2. x.event.type # "SPEECH_FINAL"
  BY <1>1
<1>3. v = [w EXCEPT !.queue = Append(w.queue, x)]
  BY <1>1 DEF EnqueueStart
<1>4. v.proc = w.proc /\ v.queue = Append(w.queue, x)
  BY <1>3 DEF Known, Shaped
<1> QED
  BY <1>2, <1>4, LinesAppended

\* Handing an utterance over, or closing it, leaves the tail alone.
LEMMA HandedLines ==
  ASSUME NEW w, Known(w), NEW t, NEW n, Lines(w, t, n), NEW say, NEW c,
         Handed(w, say, c)
  PROVE  Lines(World', t, n)
<1>1. PICK z : z = Unauthorize(w)
  OBVIOUS
<1>2. \/ Become(w) \/ Become(z)
      \/ \E u : Become(CloseUtterance(z, Undelivered, u, TRUE, Done, c))
  BY <1>1 DEF Handed
<1>3. Shaped(z) /\ z.proc = w.proc /\ z.queue = w.queue
  BY <1>1, UnauthorizedWorld DEF Known
<1>4. Known(z) /\ Lines(z, t, n)
  BY <1>3, LinesSame DEF Known
<1>5. ASSUME NEW u, NEW v, v = CloseUtterance(z, Undelivered, u, TRUE, Done, c)
      PROVE  Lines(v, t, n)
  <2>1. Undelivered \in Others(Observer) /\ Undelivered # Dispatcher
    BY DEF Undelivered, Observer, Dispatcher, Others, Chains
  <2>2. Carrying(z, v, Undelivered, {})
    BY <1>4, <1>5, <2>1, CloseUtteranceCarrying
  <2>3. v.queue = z.queue /\ v.proc[Dispatcher] = z.proc[Dispatcher]
    BY <2>1, <2>2 DEF Carrying, Dispatches
  <2> QED
    BY <1>4, <2>3, LinesSame
<1>6. CASE \E u : Become(CloseUtterance(z, Undelivered, u, TRUE, Done, c))
  <2>1. PICK u, v : v = CloseUtterance(z, Undelivered, u, TRUE, Done, c) /\ Become(v)
    BY <1>6
  <2> QED
    BY <1>5, <2>1, BecomeLines
<1> QED
  BY <1>2, <1>4, <1>6, BecomeLines

\* A checkpoint is durable: its chain may be done with the first of the tail,
\* and the session's first event may go to its end.
LEMMA CheckpointedLines ==
  ASSUME RuntimeTyped, NEW t, NEW n, Lines(World, t, n), NEW p \in Chains,
         Checkpointed(p)
  PROVE  Lines(World', t, n)
<1>1. PICK job : job = proc[p]
  OBVIOUS
<1>2. job.at = "checkpoint" /\ JobOK(p, job) /\ proc[p] # Idle
  BY <1>1 DEF Checkpointed, MayCommit, RuntimeTyped, Known, World, Idle
<1>3. PICK w, f : w = Committed(p) /\ f = Finish(w, p)
  OBVIOUS
<1>4. PICK c \in Circumstances :
        CASE job.then.do = "deliver" -> Handed(f, job.then.say, c)
          [] job.then.do = "advance" ->
               Become(Advance(w, p, [do |-> "pass"], c)) /\ page' = page
          [] job.then.do = "ready" -> Become(EnqueueStart(f)) /\ page' = page
          [] OTHER -> Become(f) /\ page' = page
  BY <1>1, <1>3 DEF Checkpointed
<1>5. w = Committed(p) /\ f = Finish(w, p) /\ Known(World)
  BY <1>3 DEF RuntimeTyped
<1>6. /\ Known(w) /\ w.queue = queue /\ w.proc = proc
      /\ Carrying(World, f, p, {}) /\ Known(f) /\ QueueOK(f.queue)
  BY <1>2, <1>5, CommittedWorld, FinishedWorld
<1>7. Lines(f, t, n)
  <2>1. Dispatches(World, f, p) /\ World.queue = queue /\ QueueOK(World.queue)
    BY <1>6 DEF Carrying, World, RuntimeTyped
  <2>2. p = Dispatcher => World.queue # <<>>
    BY <1>2, <2>1 DEF RuntimeTyped
  <2> QED
    BY <2>1, <2>2, LinesDispatched
<1>8. CASE job.then.do = "deliver"
  <2>1. Handed(f, job.then.say, c)
    BY <1>4, <1>8
  <2> QED
    BY <1>6, <1>7, <2>1, HandedLines
<1>9. CASE job.then.do = "advance"
  <2>1. p = Observer /\ Observer # Dispatcher
    BY <1>2, <1>9 DEF JobOK, ReplyJob, Parting, Done, Ready, Observer, Dispatcher
  <2>2. PICK then, v : then = [do |-> "pass"] /\ v = Advance(w, p, then, c)
    OBVIOUS
  <2>3. Become(v)
    BY <1>4, <1>9, <2>2
  <2>4. then.do = "pass"
    BY <2>2
  <2>5. Carrying(w, v, Observer, {})
    BY <1>6, <2>1, <2>2, <2>4, AdvanceObserver
  <2>6. v.queue = w.queue /\ v.proc[Dispatcher] = w.proc[Dispatcher]
    BY <2>1, <2>5 DEF Carrying, Dispatches
  <2>7. v.queue = World.queue /\ v.proc[Dispatcher] = World.proc[Dispatcher]
    BY <1>6, <2>6 DEF World
  <2>8. Lines(v, t, n)
    BY <2>7, LinesSame
  <2> QED
    BY <2>3, <2>8, BecomeLines
<1>10. CASE job.then.do = "ready"
  <2>1. PICK v : v = EnqueueStart(f)
    OBVIOUS
  <2>2. Become(v)
    BY <1>4, <1>10, <2>1
  <2>3. Lines(v, t, n)
    BY <1>6, <1>7, <2>1, EnqueuedLines
  <2> QED
    BY <2>2, <2>3, BecomeLines
<1>11. CASE job.then.do \notin {"deliver", "advance", "ready"}
  <2>1. Become(f)
    BY <1>4, <1>11
  <2> QED
    BY <1>7, <2>1, BecomeLines
<1> QED
  BY <1>8, <1>9, <1>10, <1>11

\* The browser is done with its utterance, or has a page that is ready.
LEMMA ReportLines ==
  ASSUME NEW w, Known(w), NEW t, NEW n, Lines(w, t, n), NEW p \in Requests,
         NEW u, NEW heard, NEW then, then \in {Done, Ready}, NEW v,
         v = ReportOutcome(w, p, u, heard, then)
  PROVE  Lines(v, t, n)
<1>1. p \in Others(Observer) /\ p # Dispatcher
  BY ChainsAssumption DEF Others, Chains
<1>2. v.queue = w.queue /\ v.proc[Dispatcher] = w.proc[Dispatcher]
  BY <1>1, ReportWorld
<1> QED
  BY <1>2, LinesSame

\* Of the first.
LEMMA CompleteLines ==
  ASSUME RuntimeTyped, NEW t, NEW n, Lines(World, t, n), NEW p \in Requests,
         UtteranceComplete(p)
  PROVE  Lines(World', t, n)
<1>1. PICK u, heard, aged :
        Become(IF \E open \in VoiceContext(World, aged).live.authorized :
                        open.id = u.id
               THEN ReportOutcome(VoiceContext(World, aged), p,
                      CHOOSE open \in VoiceContext(World, aged).live.authorized : TRUE,
                      heard, Done)
               ELSE VoiceContext(World, aged))
  BY DEF UtteranceComplete
<1>2. PICK w, y : w = World /\ y = VoiceContext(w, aged)
  OBVIOUS
<1>3. Known(w) /\ Shaped(w) /\ Lines(w, t, n) /\ y = VoiceContext(w, aged)
  BY <1>2 DEF RuntimeTyped, Known
<1>4. Shaped(y) /\ y.proc = w.proc /\ y.queue = w.queue
  BY <1>3, VoiceContextWorld
<1>5. Known(y) /\ Lines(y, t, n)
  BY <1>3, <1>4, LinesSame DEF Known
<1>6. PICK open, then, v : /\ then = Done
                           /\ v = ReportOutcome(y, p, open, heard, then)
                           /\ Become(v) \/ Become(y)
  BY <1>1, <1>2
<1>7. Lines(v, t, n)
  BY <1>5, <1>6, ReportLines
<1> QED
  BY <1>5, <1>6, <1>7, BecomeLines

\* Of the second: whether or not the process is there yet.
LEMMA ReadyLines ==
  ASSUME RuntimeTyped, NEW t, NEW n, Lines(World, t, n), NEW p \in Requests,
         VoiceReady(p)
  PROVE  Lines(World', t, n)
<1>1. PICK y, held :
        /\ y = IF alive THEN World ELSE WithMem(World, disk)
        /\ IF Orphaned(y, held) # {}
           THEN Become(ReportOutcome(y, p, CHOOSE u \in Orphaned(y, held) : TRUE,
                                     FALSE, Ready))
           ELSE Become(EnqueueStart(y))
  BY ZenonT(30) DEF VoiceReady
<1>2. PICK w : w = World
  OBVIOUS
<1>3. Known(w) /\ Shaped(w) /\ Lines(w, t, n) /\ QueueOK(w.queue) /\ IsImage(disk)
  BY <1>2 DEF RuntimeTyped, Known, World
<1>4. Shaped(y) /\ y.proc = w.proc /\ y.queue = w.queue
  <2>1. CASE alive
    BY <1>1, <1>2, <1>3, <2>1
  <2>2. CASE ~alive
    <3>1. y = WithMem(w, disk)
      BY <1>1, <1>2, <2>2
    <3> QED
      BY <1>3, <3>1, MemWorld DEF IsImage
  <2> QED
    BY <2>1, <2>2
<1>5. Known(y) /\ Lines(y, t, n) /\ QueueOK(y.queue)
  BY <1>3, <1>4, LinesSame DEF Known
<1>6. PICK u, heard, then, v, x :
        /\ heard = FALSE /\ then = Ready
        /\ v = ReportOutcome(y, p, u, heard, then)
        /\ x = EnqueueStart(y)
        /\ Become(v) \/ Become(x)
  BY <1>1
<1>7. Lines(v, t, n)
  BY <1>5, <1>6, ReportLines
<1>8. Lines(x, t, n)
  BY <1>5, <1>6, EnqueuedLines
<1> QED
  BY <1>6, <1>7, <1>8, BecomeLines

\* A finished turn is taken up: its chain is under way, the tail as it was.
LEMMA TurnServed ==
  ASSUME NEW w, Shaped(w), NEW e, e.type = "SPEECH_FINAL", NEW c,
         NEW v, v = Apply(w, e, c)
  PROVE  v.queue = w.queue /\ v.proc[Dispatcher] # Idle
<1>1. PICK free, l, y, job :
        /\ free = ClearHeldTurn(w)
        /\ l = [free.live EXCEPT !.timed = w.mem.stopped]
        /\ y = WithLive(free, l)
        /\ job = [at |-> "classify", turn |-> e.turn]
  OBVIOUS
<1>2. v = Suspend(y, Dispatcher, job)
  BY <1>1 DEF Apply
<1>3. free = ClearHeldTurn(w) /\ y = WithLive(free, l)
  BY <1>1
<1>4. Shaped(free) /\ free.queue = w.queue
  BY <1>3, ClearedWorld
<1>5. l = [f \in LiveFields |-> l[f]]
  BY <1>1, <1>4 DEF Shaped, LiveFields
<1>6. Shaped(y) /\ y.queue = w.queue
  BY <1>3, <1>4, <1>5, LiveWorld
<1>7. Dispatcher \in Chains
  BY DEF Chains
<1>8. v.queue = w.queue /\ v.proc[Dispatcher] = job
  BY <1>2, <1>6, <1>7, SuspendWorld
<1>9. job.at # Idle.at
  BY <1>1 DEF Idle
<1> QED
  BY <1>8, <1>9

\* The next event is ingested.
LEMMA ServeKeyed ==
  ASSUME RuntimeTyped, NEW n \in Nat, Whole(World, keys, n), NEW t,
         Lines(World, t, n), Serve
  PROVE  \E k \in Nat : Lines(World', t, k) /\ Whole(World', keys', k)
<1>1. PICK e : e = Head(queue).event
  OBVIOUS
<1>2. PICK c \in Circumstances : Become(Apply(World, e, c))
  BY <1>1 DEF Serve
<1>3. PICK w, v : w = World /\ v = Apply(w, e, c)
  OBVIOUS
<1>4. /\ queue # <<>> /\ proc[Dispatcher] = Idle /\ keys' = keys
      /\ w.queue = queue /\ w.proc = proc /\ Shaped(w) /\ QueueOK(w.queue)
      /\ Whole(w, keys, n) /\ Lines(w, t, n)
  BY <1>3 DEF Serve, World, RuntimeTyped, Known
<1>5. e.type \in EventTypes
  BY <1>1, <1>4, HeadOK
<1>6. CASE e.type = "SPEECH_FINAL"
  <2>1. PICK id, k : id = e.turn.id /\ k = e.turn.id - 1
    OBVIOUS
  <2>2. /\ e.turn.id \in Nat /\ e.turn.id <= n
        /\ e.turn.id - 1 \in Nat /\ e.turn.id - 1 <= n
        /\ e.turn.id - 1 < e.turn.id
        /\ \A y : y.queue = w.queue /\ y.proc[Dispatcher] # Idle
                    => Lines(y, t, e.turn.id - 1)
    BY <1>1, <1>4, <1>6, LinesServed
  <2>3. k \in Nat /\ k <= n /\ e.turn.id \in Nat /\ e.turn.id <= n /\ k < e.turn.id
    BY <2>1, <2>2
  <2>4. Whole(v, keys, k)
    BY <1>3, <1>4, <1>5, <2>3, ApplyWhole
  <2>5. v.queue = w.queue /\ v.proc[Dispatcher] # Idle
    BY <1>3, <1>4, <1>6, TurnServed
  <2>6. Lines(v, t, k)
    BY <2>1, <2>2, <2>5
  <2>7. Lines(World', t, k) /\ Whole(World', keys', k)
    BY <1>2, <1>3, <1>4, <2>4, <2>6, BecomeLines, BecomeWhole
  <2> QED
    BY <2>3, <2>7
<1>7. CASE e.type # "SPEECH_FINAL"
  <2>0. n <= n
    OBVIOUS
  <2>1. Whole(v, keys, n)
    BY <1>3, <1>4, <1>5, <1>7, <2>0, ApplyWhole
  <2>2. Lines(World', t, n)
    BY ServeStep, SteadyLines
  <2> QED
    BY <1>2, <1>3, <1>4, <2>1, <2>2, BecomeWhole
<1> QED
  BY <1>6, <1>7

-----------------------------------------------------------------------------
(* A session with no process yet.                                          *)

\* An image in which deliveries are counted.
Briefed(m) == m.briefs \in Nat /\ m.redeliveries \in Nat

\* Nothing is held, under way or keyed, and what a process may start from
\* counts deliveries.
Dormant ==
  /\ keys = {} /\ \A q \in Chains : proc[q] = Idle
  /\ live.held = {} /\ live.speakingHeld = {} /\ live.authorized = {}
  /\ Briefed(disk)
  /\ \A i \in 1..Len(queue) : \A m \in queue[i].before : Briefed(m)

\* A process starts from such an image.
LEMMA Awoken ==
  ASSUME Dormant, NEW n, NEW v, Become(v), keys' = keys, Briefed(v.mem),
         v.proc = proc, v.live = live
  PROVE  Whole(World', keys', n)
<1>1. \A q \in Chains : Proper(v.proc[q]) /\ Owes(v.proc[q]) = {}
  <2>1. Idle.at \in Watching
    BY DEF Idle, Watching
  <2> QED
    BY <2>1, WatchingOwes DEF Dormant
<1>2. Parked(v.live) = {} /\ keys' = {}
  BY DEF Parked, Dormant
<1>3. Whole(v, keys', n)
  BY <1>1, <1>2 DEF Whole, Briefed
<1> QED
  BY <1>3, BecomeWhole

\* What the candidate does counts no delivery.
LEMMA RestoredBriefed ==
  ASSUME NEW m, IsImage(m), Briefed(m), NEW e, e.type \in EventTypes,
         NEW d, d = RestoreEvent(m, e)
  PROVE  Briefed(d)
<1>1. CASE e.type = "CODE_DELTA"
  BY <1>1 DEF RestoreEvent, Briefed, IsImage, MemFields
<1>2. CASE e.type = "RUN_REQUESTED"
  BY <1>2 DEF RestoreEvent, Briefed, IsImage, MemFields
<1>3. CASE e.type = "RUN_COMPLETED"
  BY <1>3 DEF RestoreEvent, Briefed, IsImage, MemFields
<1>4. CASE e.type = "SPEECH_STARTED"
  BY <1>4 DEF RestoreEvent, Briefed, IsImage, MemFields
<1>5. CASE e.type = "SPEECH_STOPPED"
  BY <1>5 DEF RestoreEvent, Briefed, IsImage, MemFields
<1>6. CASE e.type = "BARGE_IN"
  BY <1>6 DEF RestoreEvent, Briefed, IsImage, MemFields
<1>7. CASE e.type = "SPEECH_FINAL"
  BY <1>7 DEF RestoreEvent, Briefed, IsImage, MemFields
<1>8. CASE e.type = "SESSION_STARTED"
  BY <1>8 DEF RestoreEvent, Briefed
<1> QED
  BY <1>1, <1>2, <1>3, <1>4, <1>5, <1>6, <1>7, <1>8 DEF EventTypes

\* An event of the candidate's arrives, and if it is a finished turn it has
\* the next number down.
Arrives(e) ==
  /\ Arrive(e) /\ e.type \in EventTypes
  /\ IF e.type = "SPEECH_FINAL"
     THEN left.turn > 0 /\ e.turn.id = left.turn /\ left'.turn = left.turn - 1
     ELSE left'.turn = left.turn

\* What a frame costs.
LEMMA FrameTurns ==
  ASSUME LeftOK, NEW e, NEW cost, Frame(e, cost)
  PROVE  /\ Arrive(e)
         /\ "turn" \in cost => left.turn > 0 /\ left'.turn = left.turn - 1
         /\ "turn" \notin cost => left'.turn = left.turn
<1>1. PICK spent :
        /\ spent = IF \E i \in DOMAIN queue : queue[i].event.type \notin Internal
                   THEN cost \cup {"socket"} ELSE cost
        /\ \A kind \in spent : left[kind] > 0
        /\ left' = [kind \in DOMAIN left |->
                      IF kind \in spent THEN left[kind] - 1 ELSE left[kind]]
        /\ Arrive(e)
  BY DEF Frame
<1>2. "turn" \in DOMAIN left
  BY DEF LeftOK, Kinds
<1>3. "turn" \in spent <=> "turn" \in cost
  BY <1>1
<1>4. left'.turn = IF "turn" \in spent THEN left.turn - 1 ELSE left.turn
  BY <1>1, <1>2
<1>5. "turn" \in spent => left.turn > 0
  BY <1>1
<1> QED
  BY <1>1, <1>3, <1>4, <1>5

\* What any other step spends.
LEMMA SpendTurns ==
  ASSUME LeftOK, NEW kind, kind # "turn", Spend(kind)
  PROVE  left'.turn = left.turn
BY DEF Spend, LeftOK, Kinds

\* What the candidate does.
LEMMA CandidateArrives ==
  ASSUME LeftOK, Candidate
  PROVE  \E e : Arrives(e)
<1>1. CASE StartSpeaking
  <2>1. PICK e : e = [type |-> "SPEECH_STARTED"] /\ Frame(e, {"talk"})
    BY <1>1 DEF StartSpeaking
  <2>2. e.type = "SPEECH_STARTED"
    BY <2>1
  <2>3. Arrive(e) /\ left'.turn = left.turn
    BY <2>1, FrameTurns
  <2> QED
    BY <2>2, <2>3 DEF Arrives, EventTypes
<1>2. CASE BargeInOnUtterance
  <2>1. PICK e : e = [type |-> "BARGE_IN"] /\ Frame(e, {"barge"})
    BY <1>2 DEF BargeInOnUtterance
  <2>2. e.type = "BARGE_IN"
    BY <2>1
  <2>3. Arrive(e) /\ left'.turn = left.turn
    BY <2>1, FrameTurns
  <2> QED
    BY <2>2, <2>3 DEF Arrives, EventTypes
<1>3. CASE StopSpeaking
  <2>1. PICK e : e = [type |-> "SPEECH_STOPPED"] /\ Frame(e, {})
    BY <1>3 DEF StopSpeaking
  <2>2. e.type = "SPEECH_STOPPED"
    BY <2>1
  <2>3. Arrive(e) /\ left'.turn = left.turn
    BY <2>1, FrameTurns
  <2> QED
    BY <2>2, <2>3 DEF Arrives, EventTypes
<1>4. CASE FinishTurn
  <2>1. PICK kind : Frame([type |-> "SPEECH_FINAL", turn |-> Turn(left.turn, kind)],
                          {"turn"})
    BY <1>4 DEF FinishTurn
  <2>2. PICK turn, e : /\ turn = Turn(left.turn, kind)
                       /\ e = [type |-> "SPEECH_FINAL", turn |-> turn]
    OBVIOUS
  <2>3. e.type = "SPEECH_FINAL" /\ e.turn = turn
    BY <2>2
  <2>4. turn.id = left.turn
    BY <2>2 DEF Turn
  <2>5. Arrive(e) /\ left.turn > 0 /\ left'.turn = left.turn - 1
    BY <2>1, <2>2, FrameTurns
  <2> QED
    BY <2>3, <2>4, <2>5 DEF Arrives, EventTypes
<1>5. CASE EditCode
  <2>1. PICK rev, e : e = [type |-> "CODE_DELTA", rev |-> rev] /\ Frame(e, {"edit"})
    BY <1>5 DEF EditCode
  <2>2. e.type = "CODE_DELTA"
    BY <2>1
  <2>3. Arrive(e) /\ left'.turn = left.turn
    BY <2>1, FrameTurns
  <2> QED
    BY <2>2, <2>3 DEF Arrives, EventTypes
<1>6. CASE RequestRun
  <2>1. PICK e : e = [type |-> "RUN_REQUESTED"] /\ Frame(e, {"run"})
    BY <1>6 DEF RequestRun
  <2>2. e.type = "RUN_REQUESTED"
    BY <2>1
  <2>3. Arrive(e) /\ left'.turn = left.turn
    BY <2>1, FrameTurns
  <2> QED
    BY <2>2, <2>3 DEF Arrives, EventTypes
<1>7. CASE CompleteRun
  <2>1. PICK pass, e : e = [type |-> "RUN_COMPLETED", pass |-> pass] /\ Arrive(e)
    BY <1>7 DEF CompleteRun
  <2>2. e.type = "RUN_COMPLETED"
    BY <2>1
  <2>3. left'.turn = left.turn
    BY <1>7, SpendTurns DEF CompleteRun
  <2> QED
    BY <2>1, <2>2, <2>3 DEF Arrives, EventTypes
<1> QED
  BY <1>1, <1>2, <1>3, <1>4, <1>5, <1>6, <1>7 DEF Candidate

\* What arrives goes to the end of the tail.
LEMMA ArrivedLines ==
  ASSUME RuntimeTyped, NEW n, Lines(World, left.turn, n), NEW e, Arrives(e)
  PROVE  Lines(World', left'.turn, n)
<1>1. PICK x, t : /\ x = [event |-> e, before |-> IF alive THEN {} ELSE {disk}]
                  /\ queue' = Append(queue, x) /\ t = left.turn
  BY DEF Arrives, Arrive
<1>2. PICK w, v : w = World /\ v = World'
  OBVIOUS
<1>3. /\ w.queue = queue /\ v.queue = queue' /\ w.proc = proc /\ v.proc = proc'
      /\ proc' = proc /\ QueueOK(w.queue) /\ Lines(w, t, n)
  BY <1>1, <1>2 DEF World, Arrives, Arrive, RuntimeTyped
<1>4. x.event = e /\ v.queue = Append(w.queue, x)
  BY <1>1, <1>3
<1>5. CASE e.type = "SPEECH_FINAL"
  <2>1. t > 0 /\ x.event.turn.id = t /\ left'.turn = t - 1
    BY <1>1, <1>4, <1>5 DEF Arrives
  <2>2. Lines(v, t - 1, n)
    BY <1>3, <1>4, <2>1, LinesTurned
  <2> QED
    BY <1>2, <2>1, <2>2
<1>6. CASE e.type # "SPEECH_FINAL"
  <2>1. left'.turn = t
    BY <1>1, <1>6 DEF Arrives
  <2>2. Lines(v, t, n)
    BY <1>3, <1>4, <1>6, LinesAppended
  <2> QED
    BY <1>2, <2>1, <2>2
<1> QED
  BY <1>5, <1>6

\* What it leaves of a session with no process.
LEMMA ArrivedDormant ==
  ASSUME RuntimeTyped, Dormant, ~alive, NEW e, Arrives(e)
  PROVE  Dormant'
<1>1. PICK x : x = [event |-> e, before |-> {disk}] /\ queue' = Append(queue, x)
  BY DEF Arrives, Arrive
<1>2. x.before = {disk}
  BY <1>1
<1>3. /\ live' = live /\ proc' = proc /\ disk' = RestoreEvent(disk, e)
      /\ keys' = keys
  BY DEF Arrives, Arrive, Put
<1>4. Briefed(disk')
  BY <1>3, RestoredBriefed DEF Arrives, RuntimeTyped, Dormant
<1>5. PICK S : queue \in Seq(S)
  BY DEF RuntimeTyped, QueueOK, IsSeq
<1>6. PICK q, T : q = queue /\ T = S \cup {x}
  OBVIOUS
<1>7. q \in Seq(T) /\ x \in T
  BY <1>5, <1>6
<1>8. Len(Append(q, x)) = Len(q) + 1 /\ Len(q) \in Nat
  BY <1>7
<1>9. ASSUME NEW i \in 1..Len(Append(q, x))
      PROVE  \/ Append(q, x)[i] = x
             \/ Append(q, x)[i] = q[i] /\ i \in 1..Len(q)
  BY <1>7, <1>8
<1>10. ASSUME NEW i \in 1..Len(queue'), NEW m \in queue'[i].before
       PROVE  Briefed(m)
  <2>1. \/ queue'[i] = x
        \/ queue'[i] = queue[i] /\ i \in 1..Len(queue)
    BY <1>1, <1>6, <1>9
  <2> QED
    BY <1>2, <2>1 DEF Dormant
<1> QED
  BY <1>3, <1>4, <1>10 DEF Dormant

\* Turns are numbered downwards, and the key of every reply is owed in one
\* place, or used.
AnswersFor(n) ==
  /\ Lines(World, left.turn, n)
  /\ IF alive THEN Whole(World, keys, n) ELSE Dormant

Answerable == \E n \in Nat : AnswersFor(n)

\* A chain is under way only in a process that is there.
LEMMA KeyedAwake ==
  ASSUME NEW n, AnswersFor(n), NEW p \in Chains, proc[p].at # "idle"
  PROVE  alive /\ Whole(World, keys, n) /\ Lines(World, left.turn, n)
<1>1. proc[p] # Idle
  BY DEF Idle
<1> QED
  BY <1>1 DEF AnswersFor, Dormant

\* What the candidate does.
LEMMA CandidateKeyed ==
  ASSUME RuntimeTyped, NEW n, AnswersFor(n), Candidate
  PROVE  AnswersFor(n)'
<1>1. PICK e : Arrives(e)
  BY CandidateArrives DEF RuntimeTyped
<1>2. /\ alive' = alive /\ mem' = mem /\ live' = live /\ proc' = proc
      /\ keys' = keys
  BY <1>1 DEF Arrives, Arrive, Put
<1>3. Lines(World', left'.turn, n)
  BY <1>1, ArrivedLines DEF AnswersFor
<1>4. CASE alive
  <2>1. PICK w, v : w = World /\ v = World'
    OBVIOUS
  <2>2. v.mem = w.mem /\ v.live = w.live /\ v.proc = w.proc /\ Whole(w, keys, n)
    BY <1>2, <1>4, <2>1 DEF World, AnswersFor
  <2>3. Whole(v, keys, n)
    BY <2>2, UnheldWhole
  <2> QED
    BY <1>2, <1>3, <1>4, <2>1, <2>3 DEF AnswersFor
<1>5. CASE ~alive
  <2>1. Dormant'
    BY <1>1, <1>5, ArrivedDormant DEF AnswersFor
  <2> QED
    BY <1>2, <1>3, <1>5, <2>1 DEF AnswersFor
<1> QED
  BY <1>4, <1>5

\* The clock.
LEMMA ClockKeyed ==
  ASSUME RuntimeTyped, NEW n, AnswersFor(n), ClockRuns
  PROVE  AnswersFor(n)'
<1>1. left'.turn = left.turn
  BY SpendTurns DEF ClockRuns, RuntimeTyped
<1>2. /\ World' = World /\ alive' = alive /\ keys' = keys /\ disk' = disk
      /\ queue' = queue /\ proc' = proc /\ live' = live
  BY DEF ClockRuns, runtime, World
<1> QED
  BY <1>1, <1>2 DEF AnswersFor, Dormant

\* A process takes the session up from its log.
LEMMA CreateKeyed ==
  ASSUME RuntimeTyped, NEW n, AnswersFor(n), CreateForDispatch
  PROVE  AnswersFor(n)'
<1>1. PICK image \in Head(queue).before : mem' = image
  BY DEF CreateForDispatch
<1>2. /\ ~alive /\ alive' /\ queue # <<>> /\ live' = live /\ proc' = proc
      /\ queue' = queue /\ left' = left /\ keys' = keys
  BY DEF CreateForDispatch
<1>3. PICK S : queue \in Seq(S)
  BY DEF RuntimeTyped, QueueOK, IsSeq
<1>4. Head(queue) = queue[1] /\ 1 \in 1..Len(queue)
  BY <1>2, <1>3
<1>5. Dormant /\ Lines(World, left.turn, n)
  BY <1>2 DEF AnswersFor
<1>6. Briefed(image)
  BY <1>1, <1>4, <1>5 DEF Dormant
<1>7. PICK v : v = World'
  OBVIOUS
<1>8. /\ Become(v) /\ v.mem = image /\ v.proc = proc /\ v.live = live
      /\ v.queue = World.queue /\ v.proc = World.proc
  BY <1>1, <1>2, <1>7 DEF Become, World
<1>9. Whole(World', keys', n)
  BY <1>2, <1>5, <1>6, <1>8, Awoken
<1>10. Lines(World', left.turn, n)
  BY <1>5, <1>7, <1>8, LinesSame
<1> QED
  BY <1>2, <1>9, <1>10 DEF AnswersFor

\* A page reports that its voice is ready: the process is there from then on.
LEMMA ReadyKeyed ==
  ASSUME RuntimeTyped, NEW n, AnswersFor(n), NEW p \in Requests, VoiceReady(p)
  PROVE  AnswersFor(n)'
<1>1. /\ left'.turn = left.turn /\ alive' /\ keys' = keys
      /\ Lines(World, left.turn, n)
  BY SpendTurns DEF VoiceReady, RuntimeTyped, AnswersFor
<1>2. Lines(World', left'.turn, n)
  BY <1>1, ReadyLines
<1>3. CASE alive
  <2>1. Whole(World, keys, n)
    BY <1>3 DEF AnswersFor
  <2>2. Whole(World', keys', n)
    BY <1>3, <2>1, ReadyWhole
  <2> QED
    BY <1>1, <1>2, <2>2 DEF AnswersFor
<1>4. CASE ~alive
  <2>1. Dormant
    BY <1>4 DEF AnswersFor
  <2>2. PICK w, y, v : w = World /\ y = WithMem(w, disk) /\ v = EnqueueStart(y)
    OBVIOUS
  <2>3. /\ Known(w) /\ Shaped(w) /\ IsImage(disk) /\ QueueOK(w.queue)
        /\ w.live = live /\ w.proc = proc
    BY <2>2 DEF RuntimeTyped, Known, World
  <2>4. y = WithMem(w, disk) /\ v = EnqueueStart(y)
    BY <2>2
  <2>5. /\ Shaped(y) /\ y.mem = disk /\ y.live = live /\ y.proc = proc
        /\ y.queue = w.queue
    BY <2>3, <2>4, MemWorld DEF IsImage
  <2>6. Become(v)
    <3>1. \A held : Orphaned(y, held) = {}
      BY <2>1, <2>5 DEF Dormant, Orphaned
    <3>2. PICK held : IF Orphaned(y, held) # {}
                      THEN Become(ReportOutcome(y, p,
                             CHOOSE u \in Orphaned(y, held) : TRUE, FALSE, Ready))
                      ELSE Become(EnqueueStart(y))
      BY <1>4, <2>2 DEF VoiceReady
    <3> QED
      BY <2>4, <3>1, <3>2
  <2>7. Known(y)
    BY <2>3, <2>5 DEF Known
  <2>8. v.mem = disk /\ v.live = live /\ v.proc = proc
    BY <2>3, <2>4, <2>5, <2>7, EnqueuedWorld
  <2>9. Briefed(v.mem)
    BY <2>1, <2>8 DEF Dormant
  <2>10. Whole(World', keys', n)
    BY <1>1, <2>1, <2>6, <2>8, <2>9, Awoken
  <2> QED
    BY <1>1, <1>2, <2>10 DEF AnswersFor
<1> QED
  BY <1>3, <1>4

\* The browser is done with its utterance, whether or not a process is there.
LEMMA CompleteKeyed ==
  ASSUME RuntimeTyped, NEW n, AnswersFor(n), NEW p \in Requests, UtteranceComplete(p)
  PROVE  AnswersFor(n)'
<1>1. /\ left' = left /\ alive' = alive /\ keys' = keys /\ disk' = disk
      /\ Lines(World, left.turn, n)
  BY DEF UtteranceComplete, AnswersFor
<1>2. Lines(World', left'.turn, n)
  BY <1>1, CompleteLines
<1>3. CASE alive
  <2>1. Whole(World, keys, n)
    BY <1>3 DEF AnswersFor
  <2>2. Whole(World', keys', n)
    BY <2>1, CompleteWhole
  <2> QED
    BY <1>1, <1>2, <1>3, <2>2 DEF AnswersFor
<1>4. CASE ~alive
  <2>1. Dormant
    BY <1>4 DEF AnswersFor
  <2>2. PICK u, heard, aged :
        Become(IF \E open \in VoiceContext(World, aged).live.authorized :
                        open.id = u.id
               THEN ReportOutcome(VoiceContext(World, aged), p,
                      CHOOSE open \in VoiceContext(World, aged).live.authorized : TRUE,
                      heard, Done)
               ELSE VoiceContext(World, aged))
    BY DEF UtteranceComplete
  <2>3. PICK w, y : w = World /\ y = VoiceContext(w, aged)
    OBVIOUS
  <2>4. /\ Shaped(w) /\ w.live = live /\ w.proc = proc /\ w.queue = queue
        /\ y = VoiceContext(w, aged)
    BY <2>3 DEF RuntimeTyped, Known, World
  <2>5. /\ Shaped(y) /\ y.proc = w.proc /\ y.queue = w.queue
        /\ y.live.authorized \subseteq w.live.authorized
        /\ \A f \in LiveFields \ {"authorized"} : y.live[f] = w.live[f]
    BY <2>4, VoiceContextWorld
  <2>6. /\ y.live.authorized = {} /\ y.live.held = {} /\ y.live.speakingHeld = {}
    BY <2>1, <2>4, <2>5 DEF Dormant, LiveFields
  <2>7. Become(y)
    BY <2>2, <2>3, <2>6
  <2>8. live' = y.live /\ proc' = proc /\ queue' = queue
    BY <2>4, <2>5, <2>7 DEF Become
  <2>9. Dormant'
    BY <1>1, <2>1, <2>6, <2>8 DEF Dormant
  <2> QED
    BY <1>1, <1>2, <1>4, <2>9 DEF AnswersFor
<1> QED
  BY <1>3, <1>4

\* A chain takes its step in a process that is there, and the turns keep their
\* numbers.
LEMMA KeyedStill ==
  ASSUME NEW n, AnswersFor(n), alive, alive' = alive, left'.turn = left.turn,
         Whole(World', keys', n), Lines(World', left.turn, n)
  PROVE  AnswersFor(n)'
BY DEF AnswersFor

\* A call chain goes on.
LEMMA RunKeyed ==
  ASSUME RuntimeTyped, NEW n, AnswersFor(n), NEW p \in Chains, Run(p)
  PROVE  AnswersFor(n)'
<1>1. /\ proc[p].at # "idle"
      /\ alive' = alive /\ left' = left
  BY DEF Run, Opened, Decided, Superseded, Realized, Checkpointed, Elapsed,
         OutcomeRecorded, Transitioned, MayCommit, Unmoved
<1>2. alive /\ Whole(World, keys, n) /\ Lines(World, left.turn, n)
  BY <1>1, KeyedAwake
<1>3. Whole(World', keys', n)
  BY <1>2, OpenedWhole, DecidedWhole, SupersededWhole, RealizedWhole,
     CheckpointedWhole, ElapsedWhole, OutcomeWhole, TransitionedWhole DEF Run
<1>4. Steady \/ Opens => Lines(World', left.turn, n)
  BY <1>2, SteadyLines
<1>5. proc[p] # Idle
  BY <1>1 DEF Idle
<1>6. Carrying(World, World', p, {}) => Lines(World', left.turn, n)
  BY <1>2, <1>5, CarryingLines
<1>7. Checkpointed(p) => Lines(World', left.turn, n)
  BY <1>2, CheckpointedLines
<1>8. Lines(World', left.turn, n)
  BY <1>4, <1>6, <1>7, OpenedStep, DecidedStep, SupersededStep, RealizedStep,
     ElapsedStep, OutcomeStep, TransitionedStep DEF Run
<1> QED
  BY <1>1, <1>2, <1>3, <1>8, KeyedStill

\* A call chain fails.
LEMMA FaultKeyed ==
  ASSUME RuntimeTyped, NEW n, AnswersFor(n), NEW p \in Chains, Fault(p)
  PROVE  AnswersFor(n)'
<1>1. proc[p] # Idle /\ alive' = alive /\ Spend("fault")
  BY DEF Fault
<1>2. alive /\ Whole(World, keys, n) /\ Lines(World, left.turn, n)
  BY <1>1 DEF AnswersFor, Dormant
<1>3. Whole(World', keys', n)
  BY <1>2, FaultWhole
<1>4. Carrying(World, World', p, {})
  BY FaultStep
<1>5. Lines(World', left.turn, n)
  BY <1>1, <1>2, <1>4, CarryingLines
<1>6. left'.turn = left.turn
  BY <1>1, SpendTurns DEF RuntimeTyped
<1> QED
  BY <1>1, <1>2, <1>3, <1>5, <1>6, KeyedStill

\* The classifier answers, the observer goes on, a silence timer fires.
LEMMA AwaitedKeyed ==
  ASSUME RuntimeTyped, NEW n, AnswersFor(n),
         Classified \/ Observe \/ \E p \in Timers : TimerFires(p)
  PROVE  AnswersFor(n)'
<1>1. alive' = alive /\ left' = left
  BY DEF Classified, Observe, Parsed, MilestoneRecorded, StateRecorded,
         TimerFires, Unmoved
<1>2. alive
  <2>1. CASE Classified
    <3>1. Dispatcher \in Chains /\ proc[Dispatcher].at # "idle"
      BY <2>1 DEF Classified, Chains
    <3> QED
      BY <3>1, KeyedAwake
  <2>2. CASE Observe
    <3>1. Observer \in Chains /\ proc[Observer].at # "idle"
      BY <2>2 DEF Observe, Parsed, MilestoneRecorded, StateRecorded, MayCommit,
                  Chains
    <3> QED
      BY <3>1, KeyedAwake
  <2>3. CASE \E p \in Timers : TimerFires(p)
    BY <2>3 DEF TimerFires
  <2> QED
    BY <2>1, <2>2, <2>3
<1>3. Whole(World, keys, n) /\ Lines(World, left.turn, n)
  BY <1>2 DEF AnswersFor
<1>4. Whole(World', keys', n)
  BY <1>3, ClassifiedWhole, ObserveWhole, TimerWhole
<1>5. Steady
  BY ClassifiedStep, ObserveStep, TimerStep
<1>6. Lines(World', left.turn, n)
  BY <1>3, <1>5, SteadyLines
<1> QED
  BY <1>1, <1>2, <1>3, <1>4, <1>6, KeyedStill

\* One step keeps the replies accounted for.
LEMMA AnswerableStep ==
  ASSUME RuntimeTyped, Answerable, [Next]_vars, [alive => alive']_vars
  PROVE  Answerable'
<1>1. PICK n \in Nat : AnswersFor(n)
  BY DEF Answerable
<1>2. CASE Serve
  <2>1. alive /\ alive' = alive /\ left' = left
    BY <1>2 DEF Serve
  <2>2. Whole(World, keys, n) /\ Lines(World, left.turn, n)
    BY <1>1, <2>1 DEF AnswersFor
  <2>3. PICK k \in Nat : Lines(World', left.turn, k) /\ Whole(World', keys', k)
    BY <1>2, <2>2, ServeKeyed
  <2>4. AnswersFor(k)'
    BY <2>1, <2>3 DEF AnswersFor
  <2> QED
    BY <2>4 DEF Answerable
<1>3. CASE UNCHANGED vars
  <2>1. World' = World /\ left' = left /\ alive' = alive /\ keys' = keys
        /\ proc' = proc /\ live' = live /\ disk' = disk /\ queue' = queue
    BY <1>3 DEF vars, runtime, World
  <2>2. AnswersFor(n)'
    BY <1>1, <2>1 DEF AnswersFor, Dormant
  <2> QED
    BY <2>2 DEF Answerable
<1>4. CASE Crash
  <2>1. alive /\ ~alive'
    BY <1>4 DEF Crash
  <2>2. UNCHANGED vars
    BY <2>1
  <2> QED
    BY <1>3, <2>2
<1>5. CASE Next /\ ~Serve /\ ~Crash
  <2>1. AnswersFor(n)'
    BY <1>1, <1>5, CandidateKeyed, ClockKeyed, CreateKeyed, ReadyKeyed,
       CompleteKeyed, RunKeyed, FaultKeyed, AwaitedKeyed DEF Next
  <2> QED
    BY <2>1 DEF Answerable
<1> QED
  BY <1>2, <1>3, <1>4, <1>5

\* At first nothing is keyed.
LEMMA InitAnswerable ==
  ASSUME Init
  PROVE  Answerable
<1>1. RuntimeTyped
  BY InitTyped
<1>2. PICK n : n = left.turn
  OBVIOUS
<1>3. n \in Nat
  BY <1>1, <1>2 DEF RuntimeTyped, LeftOK, Kinds
<1>4. ~alive /\ queue = <<>> /\ keys = {} /\ live = Fresh /\ disk = Start
      /\ \A q \in Chains : proc[q] = Idle
  BY DEF Init
<1>5. PICK w : w = World
  OBVIOUS
<1>6. w.queue = <<>>
  BY <1>4, <1>5 DEF World
<1>7. Ahead(w) = {}
  BY <1>6 DEF Ahead
<1>8. n <= n
  BY <1>3
<1>9. Lines(w, n, n)
  BY <1>3, <1>7, <1>8 DEF Lines
<1>10. Briefed(disk)
  <2>1. left.setting \in SettingNames
    BY <1>1 DEF RuntimeTyped, LeftOK
  <2>2. Start \in Images
    BY <2>1, RuntimeAssumption DEF Start, Setting
  <2> QED
    BY <1>4, <2>2 DEF Images, Briefed
<1>11. live.held = {} /\ live.speakingHeld = {} /\ live.authorized = {}
  BY <1>4 DEF Fresh
<1>12. 1..Len(queue) = {}
  BY <1>4
<1>13. Dormant
  BY <1>4, <1>10, <1>11, <1>12 DEF Dormant
<1>14. AnswersFor(n)
  BY <1>2, <1>4, <1>5, <1>9, <1>13 DEF AnswersFor
<1> QED
  BY <1>3, <1>14 DEF Answerable

\* A reply about to be committed has a key that nothing was committed under.
LEMMA ReplyIsNew ==
  ASSUME Answerable, NEW p \in Chains, proc[p].at = "realized"
  PROVE  proc[p].key \notin keys
<1>1. PICK n \in Nat : AnswersFor(n)
  BY DEF Answerable
<1>2. Whole(World, keys, n)
  BY <1>1, KeyedAwake
<1>3. PICK w : w = World
  OBVIOUS
<1>4. w.proc[p] = proc[p] /\ Whole(w, keys, n)
  BY <1>2, <1>3 DEF World
<1>5. PICK t : t = proc[p].key
  OBVIOUS
<1>6. t \in Owes(w.proc[p])
  BY <1>4, <1>5 DEF Owes
<1>7. Due(t, w.mem, keys, n)
  BY <1>4, <1>6 DEF Whole
<1> QED
  BY <1>5, <1>7 DEF Due

\* While no process dies, a chain that commits a decided reply does so under a
\* key of its own: no reply is swallowed as a duplicate of another one
\* (runtime.ts realize, whose utterance id `utt-${turnId}` keys the event, and
\* EventLog.append, which returns the earlier event of a key already used).
THEOREM OneReplyPerTurnHolds ==
  Spec /\ [][alive => alive']_vars => OneReplyPerTurn
<1>1. Init => RuntimeTyped /\ OnePage /\ Answerable
  BY InitTyped, InitAnswerable DEF Window, OnePage
<1>2. ASSUME RuntimeTyped /\ OnePage /\ Answerable, [Next]_vars,
             [alive => alive']_vars
      PROVE  RuntimeTyped' /\ OnePage' /\ Answerable'
  BY <1>2, PageStep, AnswerableStep
<1>3. ASSUME Answerable
      PROVE  \A p \in Chains :
               proc[p].at = "realized" /\ proc'[p].at # "realized" /\ alive'
                 => proc[p].key \notin keys \/ left'.fault < left.fault
  BY <1>3, ReplyIsNew
<1> QED
  BY <1>1, <1>2, <1>3, PTL DEF Spec, OneReplyPerTurn

=============================================================================
