-------------------------- MODULE InterviewRuntime --------------------------
(***************************************************************************)
(* orchestrator/runtime.ts with the part of session/index.ts that drives   *)
(* it: one live interview session inside one API process, its durable      *)
(* event log and session row, and the browser page that plays what the     *)
(* interviewer was authorized to say.                                      *)
(*                                                                         *)
(* The process is a set of asynchronous call chains over shared memory:    *)
(* the serialized dispatch chain, the silence timers, the HTTP requests,   *)
(* the observation loop, and the un-awaited close of an undelivered        *)
(* utterance.  A chain runs without interruption from one await to the     *)
(* next.  An action below is the completion of the awaited operation       *)
(* together with the synchronous code up to the next await, so every       *)
(* interleaving of the chains at their awaits is a behaviour.              *)
(*                                                                         *)
(* The log is represented by what recovery would rebuild from it: `disk`   *)
(* is the image that hydrating the last checkpoint and folding the events  *)
(* after it yields, kept up to date by every append.                       *)
(***************************************************************************)
EXTENDS StageAdvance, ResponseGate, SequencesExt

CONSTANTS
  SettingNames,    \* the rounds a behaviour may be about
  SettingOf(_),    \* what each of them is
  Timers,          \* chains of the silence timer that may be in flight at once
  Requests,        \* HTTP requests that may be in flight at once
  StartRemaining   \* seconds left at the start

\* The checkpointed fields of a runtime.
Images ==
  [stage : States, briefs : Nat, redeliver : BOOLEAN, redeliveries : Nat,
   reasoning : Nat, approach : BOOLEAN, rev : Nat, seen : Nat, runs : Nat,
   passed : BOOLEAN, followUps : Nat, hints : Seq(1..4),
   speechStarted : BOOLEAN, stopped : BOOLEAN, passes : Nat]

\* The kinds of environment step that are counted.
Kinds ==
  {"talk", "barge", "turn", "edit", "run", "result", "tick", "ready", "crash",
   "fault", "socket"}

\* A setting fixes the image a session starts from, how often each kind of
\* environment step may happen, what a finished turn may be (see Turn), what
\* probe selection may find, whether the candidate may look stuck, whether an
\* observation may outlive its freshness limit, whether a socket may be
\* attached at delivery, and whether concurrent transactions commit in the
\* order issued.
ASSUME RuntimeAssumption ==
  \A s \in {SettingOf(n) : n \in SettingNames} :
    /\ s.start \in Images /\ s.limits \in [Kinds -> Nat]
    /\ s.probes \subseteq {"none", "plain", "code"}
    /\ s.stuck \subseteq BOOLEAN /\ s.aged \subseteq BOOLEAN
    /\ s.sockets \subseteq BOOLEAN /\ s.ordered \in BOOLEAN

VARIABLES
  alive,      \* the process holds a runtime for the session
  mem,        \* its checkpointed fields (RuntimeCheckpoint)
  live,       \* its other fields, lost with the process
  proc,       \* what each call chain awaits
  lane,       \* chains awaiting the database, in the order they asked
  queue,      \* the session's dispatch tail, the event being ingested first
  row,        \* interview_sessions.state
  disk,       \* the image recovery would rebuild from session_events
  keys,       \* idempotency keys used, of those that can recur
  page,       \* the utterance the browser holds: a set of at most one
  talking,    \* the candidate's microphone, as the browser reports it
  remaining,  \* remainingSeconds()
  left        \* the setting, and the environment steps left of its limits

runtime == <<mem, live, proc, lane, queue>>
vars == <<alive, runtime, row, disk, keys, page, talking, remaining, left>>

Setting == SettingOf(left.setting)
Start   == Setting.start
Limits  == Setting.limits

MaxOpeningRedeliveries == 2

FloorYielded == {"EXPLICIT_QUESTION", "CLARIFICATION_REQUEST", "HINT_REQUEST"}

Dispatcher  == "dispatch"
Observer    == "observe"
Undelivered == "undelivered"
Chains == {Dispatcher, Observer, Undelivered} \cup Timers \cup Requests

ASSUME ChainsAssumption ==
  /\ Timers \cap Requests = {}
  /\ (Timers \cup Requests) \cap {Dispatcher, Observer, Undelivered} = {}

Idle == [at |-> "idle"]

\* Events the server dispatches by itself; every other one is a socket frame.
Internal == {"SESSION_STARTED", "RUN_COMPLETED"}

\* The non-checkpointed fields of a runtime that was just built or restored.
\* Optional fields are sets of at most one element.  `timed` is
\* silenceBasis # null; `handle` says the timer that reevaluationTimer refers
\* to is armed, and `leaked` counts armed timers it no longer refers to.
Fresh ==
  [speaking |-> FALSE, speakingNow |-> FALSE, timed |-> FALSE,
   held |-> {}, speakingHeld |-> {}, handle |-> FALSE, leaked |-> 0,
   authorized |-> {}, dirty |-> FALSE, runs |-> FALSE, names |-> FALSE]

\* A world is the memory of the process; each operator below maps one to the
\* next, and an action makes the result the new state.
World == [mem |-> mem, live |-> live, proc |-> proc, lane |-> lane,
          queue |-> queue]

Become(w) ==
  /\ mem' = w.mem /\ live' = w.live /\ proc' = w.proc /\ lane' = w.lane
  /\ queue' = w.queue

\* A chain awaits something other than the database, or the database, or is
\* done: the dispatch chain is then done with the first event of its tail.
WithMem(w, m)      == [w EXCEPT !.mem = m]
WithLive(w, l)     == [w EXCEPT !.live = l]
Suspend(w, p, job) == [w EXCEPT !.proc[p] = job]
Await(w, p, job)   == [w EXCEPT !.proc[p] = job, !.lane = Append(@, p)]
Finish(w, p) ==
  [w EXCEPT !.proc[p] = Idle,
            !.queue = IF p = Dispatcher THEN Tail(@) ELSE @]

-----------------------------------------------------------------------------
(* The durable log: what recovery makes of each event (restoreEvent).      *)

Saturate(n) == IF n > 2 THEN 2 ELSE n   \* only "two or more" is ever asked

RestoreEvent(m, e) ==
  CASE e.type = "RUNTIME_CHECKPOINT" -> e.image
    [] e.type = "CODE_DELTA" ->
         IF e.rev >= m.rev THEN [m EXCEPT !.rev = e.rev] ELSE m
    [] e.type = "RUN_REQUESTED" -> [m EXCEPT !.runs = 1]
    [] e.type = "RUN_COMPLETED" ->
         [m EXCEPT !.runs = 1, !.passed = @ \/ e.pass]
    [] e.type = "SPEECH_STARTED" ->
         [m EXCEPT !.speechStarted = TRUE, !.stopped = FALSE]
    [] e.type = "SPEECH_STOPPED" -> [m EXCEPT !.stopped = TRUE]
    [] e.type = "SPEECH_FINAL"   -> [m EXCEPT !.speechStarted = FALSE]
    [] e.type = "BARGE_IN"       -> [m EXCEPT !.speechStarted = TRUE]
    [] e.type = "STATE_TRANSITIONED" ->
         [m EXCEPT !.stage = e.to, !.reasoning = 0]
    [] e.type = "ACTION_DECIDED" ->
         [m EXCEPT !.reasoning =
                     IF e.intent \in ReasoningIntents THEN Saturate(@ + 1) ELSE @,
                   !.approach = @ \/ e.intent = "APPROACH_COMMITMENT"]
    [] e.type = "BRIEF_DELIVERED" ->
         [m EXCEPT !.briefs = IF e.delivery > @ THEN e.delivery ELSE @]
    [] e.type = "HINT_GIVEN" -> [m EXCEPT !.hints = Append(@, e.level)]
    [] e.type = "FOLLOW_UP_PRESENTED" ->
         [m EXCEPT !.followUps = IF e.id > @ THEN e.id ELSE @]
    [] e.type = "MILESTONE" -> [m EXCEPT !.passed = TRUE]
    [] e.type = "CANDIDATE_STATE_UPDATED" ->
         [m EXCEPT !.seen = e.seen, !.approach = @ \/ e.approach,
                   !.passes = @ + 1]
    [] OTHER -> m

\* EventLog.append: a key already used returns the earlier event unchanged.
\* The key <<>> stands for every key that only this append can carry.
Put(e, key) ==
  IF key # <<>> /\ key \in keys
  THEN UNCHANGED <<disk, keys>>
  ELSE /\ disk' = RestoreEvent(disk, e)
       /\ keys' = IF key = <<>> THEN keys ELSE keys \cup {key}

MayCommit(p, at) ==
  /\ proc[p].at = at
  /\ \E i \in DOMAIN lane : lane[i] = p
  /\ Setting.ordered => Head(lane) = p

Committed(p) ==
  [World EXCEPT !.lane = IF Head(@) = p THEN Tail(@) ELSE RemoveFirst(@, p)]

-----------------------------------------------------------------------------
(* Checkpoints, and what a chain does once its checkpoint is durable.      *)

Save(w, p, key, then) ==
  Await(w, p, [at |-> "checkpoint", image |-> w.mem, key |-> key, then |-> then])

Deliver(say) == [do |-> "deliver", say |-> say]
Done         == [do |-> "done"]
Ready        == [do |-> "ready"]
AdvanceNext  == [do |-> "advance"]

-----------------------------------------------------------------------------
(* The observation loop: at most one pass in flight.                       *)

\* Folds the captured code, runs and transcripts into memory and issues the
\* pass's first append.
Fold(w, job) ==
  LET reached == job.runs /\ ~w.mem.passed
      folded  == [w.mem EXCEPT !.seen     = IF job.rev > 0 THEN job.rev ELSE @,
                               !.passed   = @ \/ job.runs,
                               !.approach = @ \/ job.names,
                               !.passes   = @ + 1]
  IN  Await(WithMem(w, folded), Observer,
            [at |-> IF reached THEN "milestone" ELSE "observed",
             pass |-> w.mem.passes])

\* runObservations: while dirty, take everything pending and start a pass.
NextPass(w) ==
  IF ~w.live.dirty THEN Finish(w, Observer)
  ELSE LET job   == [at |-> "parsing", rev |-> w.mem.rev,
                     runs |-> w.live.runs, names |-> w.live.names]
           lower == [w.live EXCEPT !.dirty = FALSE, !.runs = FALSE,
                                   !.names = FALSE]
           taken == WithLive(w, lower)
       IN  IF w.mem.rev > 0 THEN Suspend(taken, Observer, job)
                            ELSE Fold(taken, job)

\* Defect: what arrives while a pass is in flight does not ask for another.
ScheduleWhenIdle(w) ==
  IF w.proc[Observer] = Idle THEN NextPass([w EXCEPT !.live.dirty = TRUE]) ELSE w

ScheduleObservation(w) ==
  LET marked == WithLive(w, [w.live EXCEPT !.dirty = TRUE])
  IN  IF w.proc[Observer] = Idle THEN NextPass(marked) ELSE marked

-----------------------------------------------------------------------------
(* Held turns and the silence timer.                                       *)

ClearHeldTurn(w) ==
  WithLive(w, [w.live EXCEPT !.held = {}, !.speakingHeld = {}, !.handle = FALSE])

\* Defect: a held turn whose timer is never armed.
HoldUnarmed(w, held) == [w EXCEPT !.live.held = {held}]

Hold(w, held) ==
  WithLive(w, [w.live EXCEPT !.held = {held}, !.handle = TRUE,
                             !.leaked = @ + (IF w.live.handle THEN 1 ELSE 0)])

-----------------------------------------------------------------------------
(* The gate path.                                                          *)

\* A turn carries its id and kind: intent, sure (text end probability at or
\* above the threshold), trails (mid-thought veto), repeat (isBriefRequest),
\* answerable, names (the observer would read an approach out of it).
Turn(id, kind) ==
  [id |-> id, present |-> TRUE, finalized |-> TRUE, ended |-> FALSE,
   intent |-> kind.intent, sure |-> kind.sure, trails |-> kind.trails,
   repeat |-> kind.repeat, answerable |-> kind.answerable, names |-> kind.names]

NoTurn == [present |-> FALSE, finalized |-> FALSE, ended |-> FALSE,
           repeat |-> FALSE, intent |-> "THINK_ALOUD", answerable |-> FALSE]

\* What the clock and the selection rules may say at one judgement: whether
\* the silence so far is enough, which probe is eligible, whether the
\* candidate looks stuck, whether a follow-up is eligible, whether the code
\* observation is too old.
Circumstances ==
  [enough : BOOLEAN, probe : Setting.probes, stuck : Setting.stuck,
   followUp : BOOLEAN, aged : Setting.aged]

\* buildContext.  The code-activity clocks are fixed at "quiet": an
\* activity that forbids a probe or a hint has the outcome of no eligible
\* probe and a candidate who is not stuck.
Context(w, turn, c) ==
  [stage |-> w.mem.stage, briefs |-> w.mem.briefs, redeliver |-> w.mem.redeliver,
   speaking |-> w.live.speaking, speechStarted |-> w.mem.speechStarted,
   speakingNow |-> w.live.speakingNow, turn |-> turn, hints |-> w.mem.hints,
   behind |-> w.mem.rev > w.mem.seen, coded |-> w.mem.rev > 0, aged |-> c.aged,
   moving |-> FALSE, quiet |-> TRUE, paced |-> TRUE, probe |-> c.probe,
   stuck |-> c.stuck,
   followUp |-> c.followUp /\ w.mem.followUps < FollowUpsAvailable]

\* staleGroundingReason # null, for speech citing revision `cited`.
Stale(w, grounded, cited, aged) ==
  grounded /\ (w.mem.rev # cited \/ cited = 0 \/ aged)

\* estimateTurnCompletion against the gate's threshold.
TurnEnded(turn, timed, enough) ==
  /\ turn.sure
  /\ ~turn.trails
  /\ turn.intent \in FloorYielded \/ ~timed \/ enough

\* judge(), up to its first await.
Judge(w, p, turn, attempt, timed, c) ==
  LET ended  == TurnEnded(turn, timed, c.enough)
      asked  == Decide(Context(w, [turn EXCEPT !.ended = ended], c))
      stale  == Stale(w, asked.grounded, w.mem.seen, c.aged)
  IN  Await(w, p, [at |-> "decided", opener |-> FALSE, turn |-> turn,
                   attempt |-> attempt, decision |-> IF stale THEN Silent ELSE asked,
                   cited |-> w.mem.seen,
                   short |-> timed /\ turn.sure /\ ~ended /\ ~c.enough])

\* stageSignals()
Signals(m) ==
  [stage |-> m.stage, briefs |-> m.briefs, reasoning |-> m.reasoning,
   rev |-> m.rev, approach |-> m.approach, runs |-> m.runs,
   passed |-> m.passed, followUps |-> m.followUps, remaining |-> remaining]

\* advanceStages: memory moves first, the row and the event follow; what the
\* chain does when no further stage is due is its continuation `then`.  (The
\* signals are taken of a value, m, not of an expression that TLC would
\* evaluate again for each of them.)
Advance(w, p, then, c) ==
  LET next == UNION {NextStage(Signals(m)) : m \in {w.mem}}
  IN  IF next # {}
      THEN LET to == CHOOSE to \in next : TRUE
               m  == [w.mem EXCEPT !.stage = to, !.reasoning = 0]
           IN  Await(WithMem(w, m), p,
                     [at |-> "transition", from |-> w.mem.stage, to |-> to,
                      then |-> then])
      ELSE IF then.do = "judge"
           THEN Judge(w, p, then.turn, 0, w.live.timed, c)
      ELSE IF then.do = "save" THEN Save(w, p, then.key, then.then)
      ELSE NextPass(w)

\* Defect: the two re-judgements of a held turn share a checkpoint key.
AfterJudgeSharedKey(w, p, job, say, c) ==
  IF p = Dispatcher
  THEN Advance(ScheduleObservation(
                 WithLive(w, [w.live EXCEPT !.names = @ \/ job.turn.names])),
               p, [do |-> "save", key |-> <<>>, then |-> Deliver(say)], c)
  ELSE Save(w, p, <<"silence", job.turn.id>>, Deliver(say))

\* What follows a judgement: the rest of evaluateTurn and of ingest on the
\* dispatch chain, the rest of onSilenceElapsed on a timer's.
AfterJudge(w, p, job, say, c) ==
  IF p = Dispatcher
  THEN Advance(ScheduleObservation(
                 WithLive(w, [w.live EXCEPT !.names = @ \/ job.turn.names])),
               p, [do |-> "save", key |-> <<>>, then |-> Deliver(say)], c)
  ELSE Save(w, p, <<"silence", job.turn.id, job.attempt>>, Deliver(say))

Utterance(id, d, opening, cited) ==
  [id |-> id, action |-> d.action, opening |-> opening,
   grounded |-> d.grounded, cited |-> cited]

\* What was said since the last judgement has been taken into account.
HeardOut(w) == WithMem(w, [w.mem EXCEPT !.speechStarted = FALSE])

\* The window in which the voice agent may speak opens.
Authorize(w, p, job, u, c) ==
  LET open == WithLive(w, [w.live EXCEPT !.authorized = {u}, !.speaking = TRUE])
  IN  IF job.opener
      THEN Advance(open, p, [do |-> "save", key |-> <<"ready">>,
                             then |-> Deliver({u})], c)
      ELSE AfterJudge(WithLive(HeardOut(open), [open.live EXCEPT !.timed = FALSE]),
                      p, job, {u}, c)

\* realize(): memory changes before the evidence event is appended.
Realize(w, p, job, id, c) ==
  LET d == job.decision
      Tell(v, event, key, opening) ==
        Await(v, p, [at |-> "realized", of |-> job, event |-> event, key |-> key,
                     utterance |-> Utterance(id, d, opening, job.cited)])
  IN  CASE d.action = "DELIVER_BRIEF" /\ w.mem.redeliver ->
             LET n == w.mem.redeliveries + 1
             IN  Tell(WithMem(w, [w.mem EXCEPT !.redeliver = FALSE,
                                               !.redeliveries = n]),
                      [type |-> "BRIEF_DELIVERED", delivery |-> w.mem.briefs],
                      <<"redeliver", n>>, TRUE)
        [] d.action = "DELIVER_BRIEF" /\ ~w.mem.redeliver ->
             LET n == w.mem.briefs + 1
             IN  Tell(WithMem(w, [w.mem EXCEPT !.briefs = n]),
                      [type |-> "BRIEF_DELIVERED", delivery |-> n],
                      <<"brief", n>>, n = 1)
        [] d.action \in {"GIVE_HINT_L1", "GIVE_HINT_L2"} ->
             Tell(WithMem(w, [w.mem EXCEPT !.hints = Append(@, d.level)]),
                  [type |-> "HINT_GIVEN", level |-> d.level], id, FALSE)
        [] d.action = "PRESENT_FOLLOW_UP" ->
             Tell(WithMem(w, [w.mem EXCEPT !.followUps = @ + 1]),
                  [type |-> "FOLLOW_UP_PRESENTED",
                   id |-> IF w.mem.followUps < FollowUpsAvailable
                          THEN w.mem.followUps + 1 ELSE FollowUpsAvailable],
                  id, FALSE)
        [] d.action \in {"ANSWER_CLARIFICATION", "ASK_PROBE"} ->
             Tell(w, [type |-> d.action], id, FALSE)
        [] OTHER -> Authorize(w, p, job, Utterance(id, d, FALSE, job.cited), c)

-----------------------------------------------------------------------------
(* The end of an utterance.                                                *)

\* markSpeechFinished after its outcome event, if it appended one.
CloseUtterance(w, p, u, heard, then, c) ==
  LET due    == u.opening /\ ~heard /\ w.mem.redeliveries < MaxOpeningRedeliveries
      closed == WithMem(w, [w.mem EXCEPT !.redeliver =
                              IF u.opening /\ heard THEN FALSE ELSE @ \/ due])
      key    == <<"finished", u.id>>
  IN  IF u.action = "DELIVER_BRIEF" /\ w.mem.stage = "ORAL_PROBLEM_DELIVERY"
      THEN Advance(closed, p, [do |-> "save", key |-> key, then |-> then], c)
      ELSE Save(closed, p, key, then)

\* Defect: the authorization ends, the speaking flag does not.
UnauthorizeStillSpeaking(w) == WithLive(w, [w.live EXCEPT !.authorized = {}])

Unauthorize(w) ==
  WithLive(w, [w.live EXCEPT !.speaking = FALSE, !.authorized = {}])

\* markSpeechFinished(outcome)
ReportOutcome(w, p, u, heard, then) ==
  Await(Unauthorize(w), p,
        [at |-> "outcome", utterance |-> u, heard |-> heard, then |-> then])

\* voiceContext(): an authorization whose grounding went stale is dropped.
VoiceContext(w, aged) ==
  WithLive(w, [w.live EXCEPT !.authorized =
                 {u \in @ : ~Stale(w, u.grounded, u.cited, aged)}])

\* An operation of chain p failed: each chain's own error handler.
Abort(w, p) ==
  LET dropped == Finish([w EXCEPT !.lane = RemoveFirst(@, p)], p)
  IN  IF p \in Timers THEN ClearHeldTurn(dropped)
      ELSE IF p = Observer THEN NextPass(dropped)
      ELSE dropped

-----------------------------------------------------------------------------
(* The environment: the candidate, the browser, the clock, failures.       *)

Spend(kind) == left[kind] > 0 /\ left' = [left EXCEPT ![kind] = @ - 1]

\* A committed event is put on the dispatch tail.  A process with no runtime
\* yet will restore from the history before it.
Arrive(e) ==
  /\ Put(e, <<>>)
  /\ queue' = Append(queue, [event |-> e, before |-> IF alive THEN {} ELSE {disk}])
  /\ UNCHANGED <<alive, mem, live, proc, lane, row, page, remaining>>

\* A socket hands over its next frame when the last one is ingested; a
\* reconnected browser has a new socket that does not wait for the old one.
Frame(e, cost) ==
  LET busy  == \E i \in DOMAIN queue : queue[i].event.type \notin Internal
      spent == IF busy THEN cost \cup {"socket"} ELSE cost
  IN  /\ \A kind \in spent : left[kind] > 0
      /\ left' = [kind \in DOMAIN left |->
                    IF kind \in spent THEN left[kind] - 1 ELSE left[kind]]
      /\ Arrive(e)

StartSpeaking ==
  /\ ~talking /\ talking' = TRUE
  /\ Frame([type |-> "SPEECH_STARTED"], {"talk"})

\* A client event the server accepts and consumes; this repository's browser
\* reports the same moment as SPEECH_STARTED.
BargeInOnUtterance ==
  /\ ~talking /\ page # {} /\ talking' = TRUE
  /\ Frame([type |-> "BARGE_IN"], {"barge"})

StopSpeaking ==
  /\ talking /\ talking' = FALSE
  /\ Frame([type |-> "SPEECH_STOPPED"], {})

FinishTurn ==
  /\ UNCHANGED talking
  /\ \E kind \in Setting.kinds :
       Frame([type |-> "SPEECH_FINAL", turn |-> Turn(left.turn, kind)], {"turn"})

EditCode ==
  /\ UNCHANGED talking
  /\ Frame([type |-> "CODE_DELTA", rev |-> Start.rev + 1 + Limits.edit - left.edit],
           {"edit"})

RequestRun ==
  /\ UNCHANGED talking
  /\ Frame([type |-> "RUN_REQUESTED"], {"run"})

\* The run queue's onResult appends and dispatches by itself.
CompleteRun ==
  /\ Spend("result") /\ UNCHANGED talking
  /\ \E pass \in BOOLEAN : Arrive([type |-> "RUN_COMPLETED", pass |-> pass])

ClockRuns ==
  /\ Spend("tick") /\ remaining > 0 /\ remaining' = remaining - 1
  /\ UNCHANGED <<alive, runtime, row, disk, keys, page, talking>>

-----------------------------------------------------------------------------
(* The dispatch chain.                                                     *)

\* runtimeFor on the dispatch path: rebuild from the events before this one.
CreateForDispatch ==
  /\ ~alive /\ queue # <<>> /\ alive' = TRUE
  /\ \E image \in Head(queue).before : mem' = image
  /\ UNCHANGED <<live, proc, lane, queue, row, disk, keys, page, talking,
                 remaining, left>>

\* applyCommitted, up to its first await, for each kind of event.
Apply(w, e, c) ==
  LET p     == Dispatcher
      Rest(v) == Advance(v, p, [do |-> "save", key |-> <<>>,
                                then |-> Deliver({})], c)
  IN
  CASE e.type = "CODE_DELTA" ->
         Rest(IF e.rev < w.mem.rev THEN w
              ELSE ScheduleObservation(WithMem(w, [w.mem EXCEPT !.rev = e.rev])))
    [] e.type = "RUN_REQUESTED" -> Rest(WithMem(w, [w.mem EXCEPT !.runs = 1]))
    [] e.type = "RUN_COMPLETED" ->
         Rest(ScheduleObservation(
                WithLive(WithMem(w, [w.mem EXCEPT !.runs = 1]),
                         [w.live EXCEPT !.runs = @ \/ e.pass])))
    [] e.type = "SPEECH_STARTED" ->
         LET free == ClearHeldTurn(w)
         IN  Rest(WithLive(WithMem(free, [w.mem EXCEPT !.speechStarted = TRUE,
                                                       !.stopped = FALSE]),
                           [free.live EXCEPT !.speakingNow = TRUE]))
    [] e.type = "SPEECH_STOPPED" ->
         LET quiet    == [w.live EXCEPT !.speakingNow = FALSE,
                                        !.speakingHeld = {}]
             stopped  == WithMem(w, [w.mem EXCEPT !.stopped = TRUE])
             promoted == {t \in w.live.speakingHeld : w.live.held = {}}
         IN  Rest(IF promoted = {} THEN WithLive(stopped, quiet)
                  ELSE Hold(WithLive(stopped, [quiet EXCEPT !.timed = TRUE]),
                            [turn |-> CHOOSE t \in promoted : TRUE,
                             attempt |-> 1, wait |-> "brief"]))
    [] e.type = "BARGE_IN" ->
         LET free == ClearHeldTurn(w)
         IN  Rest(WithLive(WithMem(free, [w.mem EXCEPT !.speechStarted = TRUE]),
                           [free.live EXCEPT !.speaking = FALSE, !.timed = FALSE,
                                             !.speakingNow = TRUE]))
    [] e.type = "SPEECH_FINAL" ->
         LET free == ClearHeldTurn(w)
         IN  Suspend(WithLive(free, [free.live EXCEPT !.timed = w.mem.stopped]), p,
                     [at |-> "classify", turn |-> e.turn])
    [] e.type = "SESSION_STARTED" ->
         LET d  == Decide(Context(w, NoTurn, c))
             id == IF w.mem.redeliver THEN <<"opening", w.mem.redeliveries + 1>>
                                      ELSE <<"opening", 0>>
         IN  IF d = Silent
             THEN Advance(w, p, [do |-> "save", key |-> <<"ready">>,
                                 then |-> Deliver({})], c)
             ELSE Await(w, p, [at |-> "opening", id |-> id, decision |-> d,
                               cited |-> 0, opener |-> TRUE])

\* dispatchOne: the next event of the session's tail is ingested.
Serve ==
  /\ alive /\ queue # <<>> /\ proc[Dispatcher] = Idle
  /\ \E c \in Circumstances : Become(Apply(World, Head(queue).event, c))
  /\ UNCHANGED <<alive, row, disk, keys, page, talking, remaining, left>>

\* The classifier answered: fold the turn's stage evidence, then judge it.
Classified ==
  LET p    == Dispatcher
      turn == proc[p].turn
      told == [mem EXCEPT !.reasoning = IF turn.intent \in ReasoningIntents
                                        THEN Saturate(@ + 1) ELSE @,
                          !.approach = @ \/ turn.intent = "APPROACH_COMMITMENT"]
  IN  /\ proc[p].at = "classify"
      /\ \E c \in Circumstances :
           Become(Advance(WithMem(World, told), p,
                          [do |-> "judge", turn |-> turn], c))
      /\ UNCHANGED <<alive, row, disk, keys, page, talking, remaining, left>>

-----------------------------------------------------------------------------
(* Database completions.  Only Transitioned touches the session row.       *)

Unmoved == UNCHANGED <<alive, row, page, talking, remaining, left>>

\* transitionWithEvent: the row moves with its event, or nothing does.
Transitioned(p) ==
  LET job == proc[p]
  IN  /\ MayCommit(p, "transition")
      /\ IF row = job.from
         THEN /\ row' = job.to
              /\ Put([type |-> "STATE_TRANSITIONED", to |-> job.to],
                     <<"stage", job.to>>)
              /\ \E c \in Circumstances : Become(Advance(Committed(p), p, job.then, c))
         ELSE Become(Abort(World, p)) /\ UNCHANGED <<row, disk, keys>>
      /\ UNCHANGED <<alive, page, talking, remaining, left>>

\* openInterview's ACTION_DECIDED.
Opened(p) ==
  /\ MayCommit(p, "opening")
  /\ Put([type |-> "ACTION_DECIDED", intent |-> "NONE"], proc[p].id)
  /\ \E c \in Circumstances : Become(Realize(Committed(p), p, proc[p], proc[p].id, c))
  /\ Unmoved

\* A silent judgement may hold its turn for the timer.
StaySilent(w, job) ==
  LET quiet == HeardOut(w)
  IN  IF w.live.speakingNow /\ job.attempt = 0
      THEN WithLive(quiet, [w.live EXCEPT !.speakingHeld = {job.turn}])
      ELSE IF job.attempt < 2 /\ job.short
      THEN Hold(quiet, [turn |-> job.turn, attempt |-> job.attempt + 1,
                        wait |-> "full"])
      ELSE quiet

\* judge()'s ACTION_DECIDED; speech is checked once more against the code
\* before it is realized.
Decided(p) ==
  LET job == proc[p]
      w   == Committed(p)
  IN  /\ MayCommit(p, "decided")
      /\ Put([type |-> "ACTION_DECIDED", intent |-> job.turn.intent], <<>>)
      /\ \E c \in Circumstances :
           Become(IF job.decision = Silent
                  THEN AfterJudge(StaySilent(w, job), p, job, {}, c)
                  ELSE IF Stale(w, job.decision.grounded, job.cited, c.aged)
                  THEN Await(w, p, [job EXCEPT !.at = "superseded"])
                  ELSE Realize(w, p, job, <<"turn", job.turn.id>>, c))
      /\ Unmoved

\* The freshness rejection is on record.
Superseded(p) ==
  /\ MayCommit(p, "superseded")
  /\ Put([type |-> "ACTION_DECIDED", intent |-> "NONE"], <<>>)
  /\ \E c \in Circumstances :
       Become(AfterJudge(HeardOut(Committed(p)), p, proc[p], {}, c))
  /\ Unmoved

\* The evidence event of an utterance is on record: it may be spoken.
Realized(p) ==
  /\ MayCommit(p, "realized")
  /\ Put(proc[p].event, proc[p].key)
  /\ \E c \in Circumstances :
       Become(Authorize(Committed(p), p, proc[p].of, proc[p].utterance, c))
  /\ Unmoved

\* Hands an authorized utterance to the browser; with no socket attached the
\* process closes it itself, on a chain nobody awaits.
Handed(w, say, c) ==
  IF say = {}
  THEN Become(w) /\ UNCHANGED page
  ELSE \/ TRUE \in Setting.sockets /\ Become(w) /\ page' = say
       \/ /\ FALSE \in Setting.sockets /\ w.proc[Undelivered] = Idle
          /\ UNCHANGED page
          /\ Become(IF w.live.authorized = {} THEN Unauthorize(w)
                    ELSE CloseUtterance(Unauthorize(w), Undelivered,
                           CHOOSE u \in w.live.authorized : TRUE, TRUE, Done, c))

\* The readiness request re-dispatches the session's first event.
EnqueueStart(w) ==
  [w EXCEPT !.queue = Append(@, [event |-> [type |-> "SESSION_STARTED"],
                                 before |-> {}])]

Checkpointed(p) ==
  LET job == proc[p]
      w   == Committed(p)
  IN  /\ MayCommit(p, "checkpoint")
      /\ Put([type |-> "RUNTIME_CHECKPOINT", image |-> job.image], job.key)
      /\ \E c \in Circumstances :
           CASE job.then.do = "deliver" -> Handed(Finish(w, p), job.then.say, c)
             [] job.then.do = "advance" ->
                  Become(Advance(w, p, [do |-> "pass"], c)) /\ UNCHANGED page
             [] job.then.do = "ready" ->
                  Become(EnqueueStart(Finish(w, p))) /\ UNCHANGED page
             [] OTHER -> Become(Finish(w, p)) /\ UNCHANGED page
      /\ UNCHANGED <<alive, row, talking, remaining, left>>

-----------------------------------------------------------------------------
(* The silence timer.                                                      *)

\* A timer fires.  With no held turn it does nothing; otherwise the moment is
\* recorded before anything is judged against it.
TimerFires(p) ==
  /\ alive /\ proc[p] = Idle
  /\ \/ live.handle
     \/ live.leaked > 0
  /\ \E own \in {b \in BOOLEAN : IF b THEN live.handle ELSE live.leaked > 0},
        enough \in BOOLEAN :
       LET fired == WithLive(World, IF own THEN [live EXCEPT !.handle = FALSE]
                                           ELSE [live EXCEPT !.leaked = @ - 1])
       IN  IF live.held = {} THEN ~enough /\ Become(fired)
           ELSE \E h \in live.held :
                  /\ own /\ h.wait = "full" => enough
                  /\ Become(Await(fired, p, [at |-> "elapsed", held |-> h,
                                             timed |-> live.timed,
                                             enough |-> enough]))
  /\ UNCHANGED <<alive, row, disk, keys, page, talking, remaining, left>>

\* Defect: a re-judged turn stays held.
ElapsedKeepsTurn(p) ==
  LET job == proc[p]
  IN  /\ MayCommit(p, "elapsed")
      /\ Put([type |-> "SILENCE_ELAPSED"], <<>>)
      /\ \E h \in live.held \cup {job.held}, c \in Circumstances :
           /\ c.enough = job.enough
           /\ Become(Judge(Committed(p), p, h.turn, h.attempt,
                           job.timed \/ mem.stopped, c))
      /\ Unmoved

\* reevaluate(): judges whatever turn is held by now.
Elapsed(p) ==
  LET job == proc[p]
      w   == Committed(p)
      key == <<"silence", job.held.turn.id, job.held.attempt>>
  IN  /\ MayCommit(p, "elapsed")
      /\ Put([type |-> "SILENCE_ELAPSED"], <<>>)
      /\ IF live.held = {}
         THEN Become(Save(w, p, key, Deliver({})))
         ELSE \E h \in live.held, c \in Circumstances :
                /\ c.enough = job.enough
                /\ Become(Judge(ClearHeldTurn(w), p, h.turn, h.attempt,
                                job.timed \/ mem.stopped, c))
      /\ Unmoved

-----------------------------------------------------------------------------
(* HTTP requests.                                                          *)

\* POST /voice-utterance-complete: the browser is done with its utterance.
UtteranceComplete(p) ==
  /\ proc[p] = Idle /\ page # {} /\ page' = {}
  /\ \E u \in page, heard \in BOOLEAN, aged \in Setting.aged :
       LET w == VoiceContext(World, aged)
       IN  Become(IF \E open \in w.live.authorized : open.id = u.id
                  THEN ReportOutcome(w, p, CHOOSE open \in w.live.authorized : TRUE,
                                     heard, Done)
                  ELSE w)
  /\ UNCHANGED <<alive, row, disk, keys, talking, remaining, left>>

OutcomeRecorded(p) ==
  /\ MayCommit(p, "outcome")
  /\ Put([type |-> "UTTERANCE_OUTCOME"], <<"outcome", proc[p].utterance.id>>)
  /\ \E c \in Circumstances :
       Become(CloseUtterance(Committed(p), p, proc[p].utterance, proc[p].heard,
                             proc[p].then, c))
  /\ Unmoved

\* reconcileSpeechOnReady: what is authorized and that page does not hold.
Orphaned(w, held) == {u \in w.live.authorized : \A v \in held : v.id # u.id}

\* POST /voice-ready from a page that still holds its utterance (a
\* reconnect) or none (a reload).  An authorization that page does not hold
\* is closed as never heard before the opening is offered again.
VoiceReady(p) ==
  /\ Spend("ready") /\ proc[p] = Idle /\ alive' = TRUE
  /\ \E held \in {page, {}} :
       LET w      == IF alive THEN World ELSE WithMem(World, disk)
           orphan == Orphaned(w, held)
       IN  /\ page' = held
           /\ IF orphan # {}
              THEN Become(ReportOutcome(w, p, CHOOSE u \in orphan : TRUE,
                                        FALSE, Ready))
              ELSE Become(EnqueueStart(w))
  /\ UNCHANGED <<row, disk, keys, talking, remaining>>

-----------------------------------------------------------------------------
(* Observation completions.                                                *)

Parsed ==
  /\ proc[Observer].at = "parsing"
  /\ Become(Fold(World, proc[Observer]))
  /\ UNCHANGED <<alive, row, disk, keys, page, talking, remaining, left>>

MilestoneRecorded ==
  /\ MayCommit(Observer, "milestone")
  /\ Put([type |-> "MILESTONE"], <<"milestone", proc[Observer].pass>>)
  /\ Become(Await(Committed(Observer), Observer,
                  [proc[Observer] EXCEPT !.at = "observed"]))
  /\ Unmoved

\* Defect: a pass ends without a checkpoint of its own.
StateRecordedUnsaved ==
  /\ MayCommit(Observer, "observed")
  /\ Put([type |-> "CANDIDATE_STATE_UPDATED", seen |-> mem.seen,
          approach |-> mem.approach], <<"observation", proc[Observer].pass>>)
  /\ \E c \in Circumstances :
       Become(Advance(Committed(Observer), Observer, [do |-> "pass"], c))
  /\ Unmoved

StateRecorded ==
  /\ MayCommit(Observer, "observed")
  /\ Put([type |-> "CANDIDATE_STATE_UPDATED", seen |-> mem.seen,
          approach |-> mem.approach], <<"observation", proc[Observer].pass>>)
  /\ Become(Save(Committed(Observer), Observer, <<"pass", proc[Observer].pass>>,
                 AdvanceNext))
  /\ Unmoved

-----------------------------------------------------------------------------
(* Failures.                                                               *)

\* What chain p awaits fails: the database, the classifier or the parser.
Fault(p) ==
  /\ Spend("fault") /\ proc[p] # Idle
  /\ Become(Abort(World, p))
  /\ UNCHANGED <<alive, row, disk, keys, page, talking, remaining>>

\* The process dies, or loses the session to another owner.
Crash ==
  /\ Spend("crash") /\ alive /\ alive' = FALSE
  /\ mem' = Start /\ live' = Fresh /\ lane' = <<>> /\ queue' = <<>>
  /\ proc' = [p \in Chains |-> Idle]
  /\ UNCHANGED <<row, disk, keys, page, talking, remaining>>

-----------------------------------------------------------------------------
Init ==
  /\ \E n \in SettingNames :
       left = [kind \in Kinds \cup {"setting"} |->
                 IF kind = "setting" THEN n ELSE SettingOf(n).limits[kind]]
  /\ alive = FALSE /\ mem = Start /\ live = Fresh
  /\ proc = [p \in Chains |-> Idle] /\ lane = <<>> /\ queue = <<>>
  /\ row = Start.stage /\ disk = Start /\ keys = {} /\ page = {}
  /\ talking = FALSE /\ remaining = StartRemaining

Candidate ==
  \/ StartSpeaking \/ BargeInOnUtterance \/ StopSpeaking \/ FinishTurn
  \/ EditCode \/ RequestRun \/ CompleteRun

\* What the process and its database do by themselves.
Run(p) ==
  \/ Transitioned(p) \/ Opened(p) \/ Decided(p) \/ Superseded(p)
  \/ Realized(p) \/ Checkpointed(p) \/ Elapsed(p) \/ OutcomeRecorded(p)

Observe == Parsed \/ MilestoneRecorded \/ StateRecorded

Next ==
  \/ Candidate \/ ClockRuns \/ Crash
  \/ CreateForDispatch \/ Serve \/ Classified \/ Observe
  \/ \E p \in Chains : Run(p) \/ Fault(p)
  \/ \E p \in Timers : TimerFires(p)
  \/ \E p \in Requests : UtteranceComplete(p) \/ VoiceReady(p)

Spec == Init /\ [][Next]_vars

\* Everything that takes chain p on from where it is.
Proceed(p) ==
  \/ Run(p)
  \/ p = Dispatcher /\ (CreateForDispatch \/ Serve \/ Classified)
  \/ p = Observer /\ Observe

\* The event loop runs every ready chain, the database answers every chain,
\* and an armed timer fires.  Nothing is assumed of the candidate.
FairSpec ==
  /\ Spec
  /\ \A p \in Chains : WF_vars(Proceed(p))
  /\ \A p \in Timers : WF_vars(TimerFires(p))

-----------------------------------------------------------------------------
(* Properties.                                                             *)

Quiescent == alive /\ queue = <<>> /\ \A p \in Chains : proc[p] = Idle

NoFault == left.fault = Limits.fault
NoCrash == left.crash = Limits.crash

\* Whenever the process has nothing in flight and no operation has failed,
\* a process started in its place would rebuild the very state it holds: the
\* checkpoint and the events after it lose nothing and replay nothing twice
\* (checkpoint, restore, restoreEvent, persistCheckpoint).  It holds when
\* transactions commit in the order issued, and fails when they need not.
RecoveryIsExact == Quiescent /\ NoFault => disk = mem

\* A finished turn is replied to once, however often the dispatch chain and
\* the silence timer judge it.
OneReplyPerTurn ==
  [][ \A p \in Chains :
        proc[p].at = "realized" /\ proc'[p].at # "realized" /\ alive'
          => proc[p].key \notin keys \/ left'.fault < left.fault ]_vars

\* A turn that only the clock held is judged again or given up, never
\* forgotten with its timer lost (holdForSilence, onSilenceElapsed).
HeldTurnIsSettled == live.held # {} ~> live.held = {}

\* A question asked with the floor free, and nothing said after it, is
\* answered: silence is the wrong answer to a direct question.  Turns are
\* numbered downwards, so the last one is turn 1.
LastWord ==
  /\ proc[Dispatcher].at = "classify"
  /\ proc[Dispatcher].turn.intent = "EXPLICIT_QUESTION"
  /\ Len(queue) = 1 /\ ~talking /\ left.talk = 0 /\ left.turn = 0 /\ left.barge = 0
  /\ left.fault = 0 /\ left.crash = 0
  /\ ~live.speaking /\ ~live.speakingNow
  /\ \A p \in Timers : proc[p] = Idle

LastQuestionIsAnswered == LastWord ~> (\E u \in page : u.id = <<"turn", 1>>)

\* When the browser has finished what it was given and the process is at
\* rest, the interviewer is not still marked as speaking.
NotLeftSpeaking == Quiescent /\ page = {} => ~live.speaking

\* An opening still owed when a readiness report is taken up is offered
\* again, unless somebody is speaking or the process dies.
OwedOpeningIsReoffered ==
  (/\ alive /\ mem.redeliver /\ proc[Dispatcher] = Idle
   /\ queue # <<>> /\ Head(queue).event.type = "SESSION_STARTED"
   /\ ~live.speaking /\ ~live.speakingNow)
    ~> (~alive \/ \E u \in page \cup live.authorized : u.opening)

\* However edits, runs and passes interleave, the observer ends up having
\* seen the newest revision (scheduleObservation, runObservations), in a
\* process that was not restarted and where no pass failed.
ObserverCatchesUp == <>[](alive /\ NoFault /\ NoCrash => mem.seen = mem.rev)

=============================================================================
