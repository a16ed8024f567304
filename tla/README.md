# Verification of the interview server

TLA+ models of Master Leeter, a server and a web page that conduct live coding
interviews by voice. The modules are written from the TypeScript sources under
`src/`; every definition that models code is listed with its lines in
`PROJECT.json` (`map`).

    InterviewContract      stages, actions, what is permitted
      StageAdvance         when a round leaves a stage
      ResponseGate         whether to speak, and what kind of thing to say
      Scenario             what the scenario's author lets be said, and when
        InterviewRound     whole rounds, one event at a time             MCRound
          RoundProofs        what it may say, and that it winds down, proved
        InterviewRuntime   one session in one process, awaits and all    MCRuntime
          RuntimeProofs      its types and the speaking window, proved
      SessionLog           one session, several processes, one database
        SessionLogProofs     its type and safety invariants, proved
    InputStream            what browser and server promise of the input
      SessionChannel       outbox, sockets, tickets, log; implements it  MCChannel
        SessionChannelProofs the refinement, proved
    Attendance             being there: lease, clock, sweep, page
      Preparation          how interviews are made and admitted          MCBooking
        PreparationProofs    admission, credit and preparations, proved
    ReportJobs             grading, leases, recovery
      Erasure              deletion over it                              MCErasure
        ErasureProofs        reports that stand, deletions that hold, proved
    VoiceInput, UtteranceLifecycle
      VoiceSession         the browser's voice between three parties     MCVoice
        VoiceProofs          what is told as heard was heard, proved
    Vad, TurnCompletion
      Prosody, Intent
        TurnTaking           from a microphone to the floor              MCTurnTaking
    ModelJudge             what a predicted run comes to
      RunQueue  Breakers  SpeechCache  Microphone                        MCServices
        ServicesProofs       queue and cache, proved
      Observer             what the interviewer knows of the candidate
        Report               what a report takes from the log
          Grading            a reloaded page, the two graders            MCEvidence

`tlc -config <Run>.cfg <Module>` repeats a run of section 3, `tlapm
<Module>Proofs.tla` the proofs of section 4.

## 1. The system

API paths below are relative to `src/apps/api/src/modules/`, `web` is
`src/apps/web/lib/`.

| Component | State | Operations | Interaction | What makes it correct |
|---|---|---|---|---|
| Contract `packages/contracts/src/interview-state.ts` | none | `isActionAllowed`, `isTransitionAllowed` | read by gate, runtime, stores | the stage graph is acyclic; it ends in EVALUATION |
| Stage rules `orchestrator/stage-advance.ts` | none | `nextStage` | after every event | time pressure wins; no step outside the graph |
| Gate `orchestrator/gate.ts`, `policy.ts` | none | `decideAction` | called per judgement | questions are answered, hints climb a ladder, nothing is said over anybody |
| Scenario `scenario/` | pinned content | triggers, probes, follow-ups, facts | read by the gate | nothing is said the author's triggers do not admit, nor too often |
| Runtime `orchestrator/runtime.ts` | checkpointed fields, and live ones (held turn, timer, authorization, observation loop) | `ingest`, `onSilenceElapsed`, `markSpeechFinished`, `reconcileSpeechOnReady`, `runObservations`, `restore` | log, row, classifier, observer, dispatcher | one reply per turn, exact recovery, no wedge |
| Dispatcher `session/index.ts` | runtimes, dispatch tails, authorizations | `dispatch`, `createRuntime`, `deliver`, `voice-ready`, `voice-utterance-complete`, `finalizeSession`, the sweep | between sockets, HTTP, timers, runtime, database | events in order, a failure does not block the tail, the end seals |
| Event log `session/pg-event-log.ts` | `session_events`, `runtime_inputs` | `append` | every writer | keyed, fenced by token, nothing after the end |
| Ownership `session/runtime-ownership.ts` | `session_runtime_owners`, handles | `claim`, `renew`, `verify`, heartbeat | before every runtime append | one writer at a time; a dead owner's session becomes claimable |
| Lifecycle `session/pg-lifecycle.ts`, `session-store.ts` | `interview_sessions` | create, transition, pause, `endWithReport` | runtime, finalizer, preparation | admission limits hold; row and event move together |
| Channel `session/channel.ts`, `ws.ts`, `auth/pg-socket-tickets.ts`, `web/session-client.ts`, `session-transport.ts` | watermark, tickets, outbox | `handleClientEvent`, resend, `REPLAY_FROM` | browser to log to dispatcher | stored once, in order, acknowledged only when stored |
| Connection lease `session/lease.ts` | since when a session is disconnected | connect, disconnect, `/resume`, abandon | the clock, the sweep | time is credited once; what started ends |
| Preparation `preparation/` | `interview_preparations`, workers | analyse, confirm, restate, complete, delete | admission, model provider | a preparation becomes one interview |
| Report jobs `report/index.ts`, `pg-report-store.ts` | `session_reports` | enqueue, claim, progress, complete, fail, recover, regenerate | after the end | a lost worker's result is refused; a report settles |
| Deletion `privacy/` | `privacy_deletion_requests` | request, claim, hide, redact, erase, complete | all stores | nothing outlives a completed deletion; it completes |
| Observer `observer/` | candidate state, milestones | one pass over code, runs, transcripts | in the runtime's loop | agrees with the log; milestones are earned |
| Readers `report/evaluator.ts`, `independent-evaluator.ts`, `session/resume.ts` | none | report, grades, resumed page | read the log | they tell of the same interview |
| Run queue `runner/queue.ts`, `model-judge.ts` | pending runs, places | enqueue, drain, judge | RUN_REQUESTED in, RUN_COMPLETED out | bounded; every run is answered |
| Breakers `lib/provider-circuit.ts`, `orchestrator/gemini-classifier.ts` | open until, probe | acquire, verdict | before provider calls | a provider that is back is used again |
| Speech cache `realtime/utterance-audio.ts` | memory, disk, in-flight renders | ensure, prewarm, get | delivery | a line is played as one recording of its words |
| Browser voice `web/voice-session.ts`, `realtime-voice.ts`, `utterance-lifecycle.ts` | connection, utterance, watchdogs, outcome reports | dial, rotate, speak, report | provider, server, candidate | an outcome is told, and told truly |
| Microphone `web/voice-session.ts` | stream, graph, device | start, choose, recover | browser devices | capture comes back |
| Turn taking `web/vad.ts`, `turn-predictor.ts`, `orchestrator/turn-completion.ts`, `classifier.ts` | floor, runs of voice and quiet | frame, boundary, judge | page to runtime | not cut short; not left waiting |

**What is hard about it.** A session's process is a set of asynchronous chains
over shared fields; every `await` lets the others in. Memory usually moves before
the database does, an event may be durable before it is ingested, and a process
may lose its session at any point and come back with the token it once had.
Recovery is a checkpoint and the events after it. Speech, once authorized, is
reported back by a browser that may reload, reconnect or disappear, and that
itself sits between a provider, a speaker and a microphone that fail one by one.
Reports, deletions and preparations are worked on by any replica under leases
that may run out. `PROJECT.json` (`hazards`) lists where each of these bites, and
which property watches it.

## 2. The models

**Contract, stage rules, gate, scenario.** Pure. `Decide(c)` is the rules of
`decide()` in their order and the filter that turns a decision the stage does not
permit into silence. *Scenario* evaluates the authored triggers, selects probe and
follow-up, keeps the uses and unlocks the facts.

**InterviewRound** makes `ingest` one step, so that a round can be followed through
every stage with the selection of *Scenario*. An observation pass completes between
two events.

**InterviewRuntime.** One live session in one process. A *chain* is one
asynchronous call: the dispatcher, the observer, each timer, each HTTP request, the
un-awaited close. `proc[p]` says what chain `p` awaits and what it holds in local
variables; an action is the completion of that await and the synchronous code up to
the next one. `mem` is `RuntimeCheckpoint`, `live` the other fields, `queue` the
dispatch tail, `lane` the connections in the order they were asked, `row` and `keys`
the database, `page` the utterance the browser holds. `disk` is what `restore` would
make of the log now: every append folds its event into it by `restoreEvent`'s rules.
`RecoveryIsExact` is then `disk = mem`.

**SessionLog.** One session shared by several API processes through one database. A
database transaction is one action, since all of them lock the session row first; a
process may act on stale knowledge between any two. What waits on a process's tail
outlives its lease, and an event makes the process claim again and restore only what
came before that event (`beforeSeq`); a readiness report dispatches SESSION_STARTED
again and restores everything. Transitions follow the stage graph but are otherwise
free. Tokens are numbers where the code has UUIDs; only properties use their order.

**SessionChannel and InputStream.** *InputStream* is the promise: inputs are numbered,
the record holds them without a gap and once each, and an input is told as delivered
only once on record. *SessionChannel* has the page's outbox, numbering from
`/resume`, tickets, two sockets with their frames, the serial queue of `ws.ts`, the
watermark read before and written after the append, `REPLAY_FROM`, reloads, a second
page, a restart and the end. `KeepsItsPromise` is the refinement, with the log as
`kept`. It assumes one API process (SessionLog has several), and appends that
commit in the order they were asked for.

**Attendance and Preparation.** The interview's row, the lease map of a process, the
page's calls and sockets, the clock and the sweep; and over it the making of
interviews through one admission transaction, with analysis, restatement and
completion workers on each process. An HTTP call takes any time and may be lost; time
passes in units of which the grace, the abandonment limit and the expected length are
multiples.

**ReportJobs and Erasure.** Each action is one statement to the database or one call
to a grader. *Erasure* adds requests, the steps of a deletion over the stores, and the
maintenance loop, and races them with the jobs.

**VoiceSession** (with *VoiceInput*, *UtteranceLifecycle*). `page` is one VoiceSession
object; a handler maps a page to the next, and handlers call each other as the methods
do. Around it move the server (one authorization at a time), the provider (turns on a
socket that drops, stalls, is rotated) and the candidate. `air` is the turn the
provider produces, `wake` what the socket still carries of earlier ones: a frame has no
mark of its turn, and the page takes it for the utterance it asked for last. A report
is tried three times and a readiness report four, in the code's order.

**TurnTaking** (with *Vad*, *Prosody*, *Intent*, *TurnCompletion*). Time passes a frame
at a time. The room's level and the sounds are chosen; detector, tail, transcript,
reading and completion are the code's. What is due happens within `MaxLag` frames.

**Observer, Report, Grading.** A pass as `observeOnce` runs it, with what it
makes of code, runs and transcripts; the log with its checkpoints; a crash and the
replay. The three readers are functions of that log.

**RunQueue, Breakers, SpeechCache, Microphone.** Four services without common state;
*MCServices* chooses one per behaviour. *RunQueue* has the session around the queue too:
its sockets come and go, and a dispatch may find that no runtime can be built.

## 3. The runs

| Run | Question | Properties |
|---|---|---|
| Conversation | two turns, speech, the timer, an utterance's report, edits against code-grounded decisions | RecoveryIsExact, OneReplyPerTurn, HeldTurnIsSettled, LastQuestionIsAnswered |
| Sessions | a new session with two readiness reports, a barge-in and a crash; edits and runs against passes with a failure, or in a process that dies | NotLeftSpeaking, OwedOpeningIsReoffered, ObserverCatchesUp |
| Round | whole rounds with every rule and the scenario's own selection | KeepsToTheScenario, WindsDownUnderPressure |
| Ownership | two processes, two faults, a lease lost and claimed again with an event waiting, readiness, an end | OwnersInTurn, RestoredIsComplete, SealIsFinal, InputsAccounted, AckedIsDurable, InputsGetThrough |
| Channel | two pages, two sockets, drops, reloads, a restart, the end | KeepsItsPromise, EndKeepsEverything, OutboxDrains |
| Afterwards | a report on two replicas; a session's and an account's deletion, next to support or a regeneration | ReadyReportStands, ReportSettles, NothingOutlivesDeletion, DeletionCompletes |
| Booking | preparations and direct sessions on two replicas; a candidate who comes and goes | AdmissionHolds, ReadyIsOneInterview, CreditedOnce, StartedEnds |
| Voice | two utterances and one kind of trouble, or two that meet: late frames, a suspended output, reports given up | CompletedWasHeard, UtterancesEnd, AuthorizationCloses, WordsGetThrough |
| Silence | four conversations in three rooms, one with a cough | NeverCutShort, FinishedIsAnswered |
| Services | the queue with sockets and runtimes that are not there, the breakers, the cache, the microphone | NoPlaceIsWasted, RunsAreAnswered, VoiceComesBack, PlayedWhole, MicrophoneComesBack |
| Evidence | edits, runs, claims and remarks observed, a failed parse or a crash, then read | ObserverAgrees, MilestonesAreEarned, ReadersAgree |
| Repeats | **violated**: are failures told as repeated the same? | RepeatsAreRepeats |

*Repeats* shows a disagreement with a comment in the source: the judge begins every
error text with its own notice, so three different errors count as one repeated
(`PROJECT.json`, `findings`).

### Bounds
Every kind of environment step has a budget (`Limits`, `Budget`, `Trouble`,
`Settings`), zero where it is not named; a run explores every setting it lists, each
exhaustively. Troubles are separated into settings where they do not meet in the code.

- *Conversation*: two turns are the least at which a held turn meets its successor,
  one stretch of speech lets a turn be held on either ground. *Sessions*: two
  readiness reports are a retry or a reload; two run results are what one observation
  window can swallow. `Saturate` caps counters of which only "two or more" is asked.
  One timer and one request may be in flight, so a leaked timer fires in turn with the
  armed one.
- *Round*: the MOCK policy (hint level 2, three hints), a scenario cut from
  `content/scenarios/conveyor-rescan/v1.yaml`, and two settings: edges (every floor,
  openings lost and heard, time running out in every stage) and what the author wrote.
  Clocks stand on both sides of each threshold. Ties in a follow-up's relevance are
  abstracted, and which fact a question asks for is part of the turn.
- *Ownership*: two faults let a process lose its lease, a second take it, and the
  first return or the second fail; one client input and two other events (results,
  stage changes, readiness reports, requests to end) put work on the tail of a process
  that is fenced meanwhile. More is what the proofs are for.
- *Channel*: two inputs before a reload or second tab are enough for a hole and for a
  number used twice; three inputs against a limit of two waiting frames close a socket
  (the code's 64). `OutboxDrains` excepts an ended interview, a failed operation, a
  number another page used, and more inputs waiting than a socket may have pending.
- *Afterwards*: two graders, two attempts; two deleters, so that one takes over from
  another that stalled. A regeneration meets a deletion, and one running worker. It does
  not meet a crash of its own process: that loses the job for good (section 5).
- *Booking*: one active interview and one a month, so both limits bite with two keys of
  one user and one of another. Grace 1, abandonment 2, length 2: every order occurs.
- *Voice*: two utterances (a report in flight while the next begins), three
  credentials, two dials. The failed calls are as many as make the page give up: three
  for a report, four for a report and the readiness after a reload. One setting has late
  frames, one a suspended output with speech.
- *Silence*: a frame is 250 ms where the code's is 20 ms; the adaptation rates and the
  frame counts are scaled with it; the hangover is the page's 500 ms
  (`web/voice-session.ts:345-358`). A cough is two frames, the least the detector takes
  for speech. Levels are whole dB, the logistic is a table.
- *Services*: three runs of two sessions with one place and a queue of one, a session
  without a socket and a dispatch without a runtime wherever they fall; two callers
  of one circuit; two processes on the cache's directory; two microphones, one choice,
  three hardware changes.
- *Evidence*: two solutions (nested loop, set), three inputs, of which two may wait at
  once, one disturbance; a run ends PASSED or COMPILE_ERROR; a remark is made with
  nothing in flight, since the report only counts remarks; a grader's reply is whole,
  leaking or broken and has at most one citation, to any event and with any words.
  *Repeats* has two error lines and a third outcome.

### Fairness
No crash, fault, drop or loss is ever fair, and nothing is assumed of the candidate
but where it says so.

- InterviewRuntime: weak fairness of each chain's next step, since the event loop runs
  every ready continuation and the database answers (an answer may be a failure), and
  of an armed timer.
- SessionLog: weak fairness of claiming by whichever process a request reaches, of
  expiry when nobody holds the lease (time passes), of noticing a lost lease, of a
  transaction begun, and of the client sending again.
- SessionChannel: weak fairness of a page's and a connection's own steps; strong
  fairness of redeeming a ticket: a retry is jittered, so two tabs that revoke each
  other's tickets do not do so in step for ever.
- ReportJobs, Erasure: weak fairness of each worker's statements, of recovery (every
  five seconds) and maintenance (every minute), of a lease running out and of a retry
  becoming due. That is the passing of time.
- Preparation: weak fairness of workers, of a candidate who repeats a completion until
  it is answered, of a stale worker's time, of the clock and of the sweep.
- VoiceSession: weak fairness of what is under way settling one way or another, of a
  dial, and of the candidate turning voice on again. A suspended output is *not* resumed
  fairly: the page resumes it on a device change and at no other time.
- TurnTaking: weak fairness of time and of serving what is due. `MaxLag` bounds it.
- Services: weak fairness of a run's steps and the session's dispatch, of time at the
  breakers and of calls being answered, strong fairness of being admitted and of
  another classification; weak fairness of what the browser has to tell of devices.

### Order of commits
The chains of one process append independently: each verifies the lease, takes one of
eight pooled connections and waits for the row lock. Nothing makes two of them commit
in the order issued. A setting with `ordered` assumes that they do; *Conversation* and
*Sessions* have it throughout, and `RecoveryIsExact` needs it: without it the image of a
checkpoint taken earlier may commit behind a newer one. The passing run does not say that
the order is guaranteed. The theorem `RecoveryIsExactHolds` is about any order: it names
a commit that overtakes another as one of the three steps that can break recovery.

### Deadlock
It is checked in *Round*. The other runs end when the budgets are spent and the system
is at rest, which is no error: their configurations turn the check off, and their
liveness properties say that they do not rest too early. *Evidence* has no
liveness; `ObserverAgrees` says what holds whenever it rests.

## 4. What is proved

TLAPS proves the theorems below for every value of the constants. TLC checks the
same properties on small instances in the runs of section 3; `Typed`,
`RuntimeTypedHolds` and `StagesFormAPath` are proved only.

| Theorem | Of | Says |
|---|---|---|
| `WritersTakeTurns` | SessionLog | `OwnersInTurn`: no event of an earlier lease after one of a later |
| `SealedIsFinal` | | `SealIsFinal`: the end is the last event, and is there iff the row ended |
| `AckedIsKept` | | `AckedIsDurable` |
| `RestoresMissNothing` | | `RestoredIsComplete`: a runtime that can write knows all that others wrote, unless it was restored for an event of a lease before its own |
| `InputsAreAccounted` | | `InputsAccounted` |
| `StagesFormAPath`, `Typed` | | the transitions on record are one path, ending at the row; `TypeOK` |
| `ChannelKeepsItsPromise` | SessionChannel | `KeepsItsPromise`: it implements *InputStream* |
| `EndingIsComplete` | | `EndKeepsEverything`: who ends the interview has had everything stored |
| `ReadyStays` | Erasure, ReportJobs | `ReadyReportStands`: no late or retried worker changes a ready report |
| `DeletionIsComplete` | | `NothingOutlivesDeletion` |
| `AdmissionIsKept` | Preparation, Attendance | `AdmissionHolds`: both limits, whoever makes the interview |
| `ReadyIsItsInterview` | | `ReadyIsOneInterview`: it asks what was pinned, in the words kept |
| `TimeIsCreditedOnce` | | `CreditedOnce` |
| `CompletedIsHeard` | VoiceSession | `CompletedWasHeard`, for every utterance but one asked for behind late frames |
| `PlacesAreUsed` | RunQueue | `NoPlaceIsWasted` |
| `PlayedIsWhole` | SpeechCache | `PlayedWhole` |
| `NotLeftSpeakingHolds` | InterviewRuntime | `NotLeftSpeaking` while the utterance is accounted for; which steps lose the account, and what restores it (below) |
| `RecoveryIsExactHolds` | | `RecoveryIsExact` while log and memory agree; which steps part them, and that a crash brings them together (below) |
| `OneReplyPerTurnHolds` | | `OneReplyPerTurn`, while the process is not restarted (below) |
| `RuntimeTypedHolds` | | what every chain may await and hold; the page holds one utterance at most |
| `ScenarioIsKept` | InterviewRound | `KeepsToTheScenario`: hints, probes, follow-ups, facts |
| `PressureWindsDown` | | `WindsDownUnderPressure` (an action property) |

`ChannelHolds`, `ErasureHolds` and `BookingHolds` state the inductive invariants of
three of them as theorems, for whoever wants to prove more.

### Assumptions
They stand in the modules that declare the constants, and TLC evaluates them in
every run. Bounds are naturals and sets of processes, calls or sessions finite
(`LogAssumption`, `ChannelAssumption`, `ReportAssumption`, `ErasureAssumption`,
`AttendanceAssumption`, `RunQueueAssumption`). The others have their ground in the
code:

- `PolicyAssumption`, `HintAssumption`: what every policy of
  `orchestrator/policy.ts` satisfies; more time for a follow-up than for the wrap-up.
- `ScenarioAssumption`: a probe may be asked at least once, and no two have one id
  (`scenario/loader.ts`, `assertInternallyConsistent`).
- `RuntimeAssumption`: a setting starts from fields of their types.
  `ChainsAssumption`: the names of timers, requests and the three fixed chains differ.
  `NotLeftSpeakingHolds` and `RecoveryIsExactHolds` assume nothing more (below).
  `OneReplyPerTurnHolds` assumes only that the process, once there, does not die: the
  counters that key the openings are restored from checkpoints, so after a crash they
  may hand a key out again (section 5). Failed operations and any order of commits are
  covered; the property's exception for a chain that fails is not needed.
- `RoundAssumption`: the clock of a round never shows more than at its start.
- `PreparationAssumption`, `SettingsAssumption`: a limit of nothing is no
  deployment; what a setting starts with was admitted, at most one interview of a
  user, and is not what it then prepares.
- `VoiceAssumption`: a setting names what is spoken, and whether frames may be late.
- `SpeechCacheAssumption`: recordings are numbered from 1; 0 is that there is none.

### Two theorems that name what breaks them
`NotLeftSpeaking` and `RecoveryIsExact` do not hold of every behaviour of the code, so no
theorem can say that they do. Both theorems say instead, of *every* behaviour of `Spec`,
that an invariant holds at first and implies the property, which single steps can end it,
and where it holds again.

`NotLeftSpeakingHolds`. The invariant is `Window`. It ends only in a step that
- `Collides`: two chains come to have an utterance under way at once, the later
  authorization replacing the earlier (`runtime.ts:1059`);
- `Loses`: a chain fails, or its transition is refused, with its utterance under way;
- `Outlives`: an utterance's end is reported after `voiceContext` dropped its
  authorization as stale (section 5).

It holds again as soon as state is `Hushed` (an interruption, an outcome, a crash) or an
utterance is authorized with no other under way (`Sole`).

`RecoveryIsExactHolds`. The invariant is `Exact`. It ends only in a step that
- `Overtakes`: a commit that another was issued before (pooled connections);
- `Swallows`: a checkpoint whose key is in the log already (a second readiness report,
  section 5);
- `Fails`: an operation of a chain fails.

It holds again after a crash that finds the log's stage at the row's (`Kept`). The
causes are real: given a budget for it, TLC finds for each a behaviour of 10 to 30 states
that violates the property (which excepts a session in which something failed itself).
The settings of *Sessions* and *Conversation* that check the two properties leave the
causes out, which is why both pass there as they stand.

### The inductive invariants
No property is inductive alone. What each rests on:

**SessionLog** (`SafetyInv`).
- `TurnInv`: no token exceeds the number handed out, and the live lease carries
  the newest. A write is accepted only under the live lease, so it cannot follow
  a newer one.
- `RestoredInv`: completeness also of a history that is *being* loaded, under
  the token it is loaded for. The re-verification in `createRuntime` is what
  carries it over to the runtime. A history cut before an event is complete if that
  event is of the lease it is loaded under: nobody else has written since.
- `PathInv`: every stage in the log ranks at or below the row's stage. The stage
  an accepted transition enters ranks above, so its key `stage:<to>` is unused
  and the event is really appended. This is where the proof needs the graph to be
  acyclic; the source relies on it without saying so.
- `AccountInv`: checkpoints and tails name positions within the log. `SealInv`: all
  ends share one key. `WorkFits`: the write a process has prepared is one it prepared
  itself, under the token its work was begun with.

**SessionChannel** (`ChannelInv`). What is in an outbox, on a wire, in an inbox or in
hand was numbered by its page (`PageInv`, `FrameInv`). A connection is held by one
page at most, carries that page's frames only, and an acknowledgement on it is of an
input of that page on record (`HeldInv`): with two tabs numbering apart, that is what
keeps one from settling the other's inputs. Neither the watermark nor what a frame
expects on its way in is beyond the record (`MarkInv`). It may be behind it, and is,
after the rewind told of in section 5; the frame's key, not the watermark, is what
stops a second copy. A connection is in the lane once, with a frame to be stored
(`LaneInv`). `StepIsPromised` then maps every step to one of *InputStream*'s or to none.

**ReportJobs and Erasure** (`ErasureInv`). `Clean(s)` says that nothing readable is in a
session's report row or in the hands of a worker whose token the row carries. A worker
from before the deletion may hold readable grades for ever; its token left with the
row, and `FreshIsFree` says that a token in anybody's hands is not given out again.
`DeletersInv` says for each step of a deletion which stores it has behind it, unless a
step failed, in which case it does not complete. `RequestsInv` says a completed one
stays true: nothing redacted is written in full again.

**Preparation and Attendance** (`BookingInv`). `LockInv`: at most one worker is past
admission, the one in the lock, and what it counted there still holds when it inserts.
`CreditInv`: the pause on record, *with what every call under way has yet to record*,
fits with the grace between the interview's beginning and the moment from which time is
being lost. The sum over calls is kept as a function of sets of calls (`Adds`), since a
fold cannot be reasoned about by induction here. `BookInv`: what a completion worker has
in hand at each stage agrees with the row, and a pin and a wording once written stay.

**VoiceSession** (`VInv`). What is owed of the utterance being spoken is what waits in
the speaker and what its source has still to send; a source is complete only with nothing
to send (`Counted`). For that, the line must carry audio of the utterance it was asked
for, and none of one that was completed (`Aired`), and the speaker must play the utterance
spoken now and no other (`Uttered`). All this is said of utterances that were not asked
for behind a `wake`. Most handlers leave it alone (`Aside`); those that end an utterance
empty it (`Quiet`).

**InterviewRuntime** (`RuntimeTyped`, `Window`, `Exact`, `Answerable`). While the
interviewer is marked as speaking, an authorization is open and the browser holds its
utterance, or the one chain that will hand it over does. A chain's code is a function
from a world to a world, so the lemmas on its operators say what the chain awaits next and what it does with the
utterance it carries; a step is then one of six things done to the window, which
`StepCases` lists: it leaves it alone, opens it, hands it over, closes it, forgets the
authorization, or offers an owed opening again. `WindowStep` is the induction but for the
three named causes.

For recovery (`Exact`): every chain that awaits the database stands in the line once
(`Lined`); one after another the chains in line take the session row, transition by
transition, to the stage memory is in already (`Path`); no key of a transition beyond
the row's stage is used, so its event is really appended (`Entered`, from the graph
being acyclic); and once the tail is ingested and nobody has more to do than what the
line shows, committing the line brings the log to memory (`Sync`). Until then the log
may be anything: a chain that is going to write a checkpoint of all memory is `Busy`.
The proof thereby says why a checkpoint closes every ingestion, pass, judgement and
utterance: the last of them to be answered is a `Saved` one, or moves the stage alone.

For the replies (`Answerable`): the key of a reply still to be given is owed in one place,
by one chain or by one held turn, and no event was appended under it (`Whole`). Keys of
openings are below the counters in memory; the finished turns in the tail that are yet
to be ingested are numbered apart from each other, from those dealt with, and from those
to come (`Lines`). A turn moves between the tail, the classifier, the gate and the two
places that hold it (`live.held`, `live.speakingHeld`), and each of the steps takes the
key from where it was; a chain that fails drops it.

**RunQueue** (`RunInv`). A run waits once and at the stage that says so; an event in a
session's line is the only one of its run, at the stage it speaks of. Then a place is
freed by `drain()` or followed by it. **SpeechCache** (`CacheInv`): what a process holds
is of one verified recording; what lies on disk is of verified ones, *perhaps of two*,
and is not believed then.

**InterviewRound** (`Kept`). The hints given are 1, 2, ... up to the ceiling and the
budget; uses and follow-ups are within what the author wrote. `Granted` says what a
decision may be, rule by rule; `Chosen` adds the scenario's choice; `RealizedIsKept`
that saying it counts it. Winding down is by the distance of a stage from the wrap-up
(`Left`): each step of `advanceStages` shortens it, and `STAGE_ADVANCE_LIMIT` exceeds it.

The proofs are laid out alike: lemmas on the operators, then one per action that says
what it changes and that the invariant survives, then `Next`. The last step of each
theorem is propositional temporal logic.

### Only model-checked
- Liveness everywhere (`InputsGetThrough`, `OutboxDrains`, `ReportSettles`,
  `DeletionCompletes`, `StartedEnds`, `FinishedIsAnswered`, ...): the proof system has no
  rule for fairness.
- The three readers (`ReadersAgree`), `ObserverAgrees`, `MilestonesAreEarned`: they
  compare a state with a replay of the whole log, a recursion or fold over it, and what
  such a definition computes for every log is an induction the installed provers cannot do.
- `NeverCutShort` counts frames through tables of numbers, scaled for the run.

## 5. What the models showed of the code

Beside the run *Repeats*, writing and checking the models met the following. Where a
property has an exception for it, the property's comment says so.

**Recovery and order.**
- A checkpoint written while an acknowledged edit is not yet ingested hides that edit
  from recovery (`orchestrator/runtime.ts:456`), though `docs/PRODUCTION_PLAN.md:140`
  asks to restore "without losing acknowledged code". On the dispatch path
  `createRuntime` cuts the history before the pending event
  (`session/index.ts:406-409`) and starts at the last checkpoint *there*: an edit
  appended before that checkpoint, whose own checkpoint lies behind the pending event,
  is lost, and the interviewer holds older code than the page until the next edit.
- The same cut loses the events of another process: one that lost its lease with an
  event on its tail, and claims the session again after another owner wrote and let go,
  goes live with what came before that event (`session/index.ts:406-408`, from `:454`).
  `RestoredIsComplete` has this as its exception.
- A checkpoint's image is taken before its append (`runtime.ts:649`); appends need not
  commit in order, and the older image can become the one recovery starts from.
- A second readiness report dispatches the same SESSION_STARTED again
  (`session/index.ts:1173-1195`), and the checkpoint of that ingestion has the key of the
  first, `event:${event.seq}` (`runtime.ts:428`, `:649-657`): it is not appended, and
  what the second ingestion changed is not on record until the next checkpoint.
- The redelivery counter of the opening lives in checkpoints only: a crash after a
  re-offer reuses its utterance id (`runtime.ts:566`, against `:1283-1284`).
- A pass splices the pending runs before it parses (`runtime.ts:1654`, `:1659`); a
  parse that throws, or a crash with a checkpoint in between, loses the run to the
  observer, against `runtime.ts:413-414`. Milestone keys are made of the pass number,
  so after a recovery a new milestone can fall on an old key. `finalizeSession` seals
  before the runtime has settled, so the last pass's milestones are refused.
- An input that commits between the settled tail and the end transaction is sealed
  unresolved (`session/index.ts:792-795`).

**Speech.**
- An edit during a code-grounded utterance makes its completion report stale: 409, and
  the interviewer stays marked as speaking (`session/index.ts:1212`, `:563-564`).
  `NotLeftSpeaking` is checked in settings without such utterances;
  `NotLeftSpeakingHolds` covers them and names the step (`Outlives`).
- `web/realtime-voice.ts:370-376` says that what a cancelled request still sends is
  discarded. Late frames are told apart by one flag, and the next request sets it again
  (`:351`): a frame of the cancelled utterance that arrives then is played, and told, as
  the new one's (`:655-660`), which can be told as completed before anybody has heard it.
  A setting of *Voice* has such frames; `CompletedWasHeard` excepts the utterances asked
  for behind them (`mixed`), and TLC finds it violated without the exception.
- While the output plays there is no deadline (`web/voice-session.ts:686-687`), and a
  suspended output is resumed only on a device change (`:1370`). If the browser suspends
  it before the source is complete, the utterance never ends: the exception `Suspended`.
- A report of an outcome is given up after its third failure (`:793`), a readiness report
  after its fourth (`:825`). The server then believes that the interviewer speaks until
  something else closes the authorization: the exception `untold`.
- Words transcribed and not yet passed on are dropped when voice is turned off
  (`stop`, `:1144`), and on a reload.
- Speech that starts while a decision is being recorded does not stop the utterance
  (`runtime.ts:1059`, against `docs/adr/ADR-009-turn-integrity-and-endpointing.md:5`).
- A readiness report closes an authorization whose delivery is under way
  (`session/index.ts:1184`).
- `docs/VOICE_RELIABILITY.md:63` says callbacks check the connection instance;
  `onDisconnected` (`web/voice-session.ts:555-562`) does not. The close event of a socket
  that a rotation replaced arrives after `replacingVoice` is false (`:341-343`) and is
  taken for the loss of the new connection, which dials again and uses up another
  credential (`realtime/token.ts:85-93`). `finishInput` may return before the last
  words are in.
- `web/vad.ts:19-22` says a false speech start only costs a beat of silence, but
  SPEECH_STARTED clears the held turn (`runtime.ts:696-699`): a cough long enough to be
  speech forgets a turn that waits for its answer. *Silence* has one, and
  `FinishedIsAnswered` excepts the turns it took back (`talkedOver`).
- Head and tail of a cached line may come from different recordings when the line was
  rendered again between the two requests (`realtime/utterance-audio.ts:263`,
  `session/index.ts:1241-1285`).

**Channel, clock and jobs.**
- More than 64 waiting inputs are resent in one burst, which `ws.ts:115` answers by
  closing the socket, again after every reconnect.
- `channel.ts:133` says a replayed event must not rewind the counter; the comparison
  uses the number expected before the append, so an old connection can. The next input
  is then answered with `REPLAY_FROM` although nothing was lost; the log stays right.
- Two tabs number their inputs apart, and a `/resume` that fails starts at 0: an input
  whose number is taken never reaches the log. The grader takes the last edit in log
  order, the resumed page and the runtime the newest revision: with two numberings they
  are different texts.
- The lease is in memory: after a restart, abandonment is never noticed
  (`session/lease.ts:98`); the interview ends by its clock. A pause whose write fails
  after the lease was reset is not credited. An interview that was never started is
  never due and holds its user's slot.
- A job found RUNNING with an expired lease is claimed whatever its attempts
  (`report/pg-report-store.ts:67`). `regenerate` deletes and enqueues in two
  statements: a crash between them leaves an ended session without a job, and recovery
  joins existing rows only (`:55-60`). A support report that passed its access check may be stored after the
  deletion completed, against `privacy/deletion.ts:181-183`.
- Two concurrent requests with one idempotency key: the second may get
  ACTIVE_SESSION_EXISTS. A pinned question that is retired leaves its preparation
  unstartable; a resume deleted while it is analysed leaves it ANALYZING; a preparation
  deleted while it completes leaves an active interview.

**Scenario.**
- `validateScenarioTriggers` has no caller, though `scenario/triggers.ts:198-203` says
  it runs at load time; a bad trigger throws inside the gate.
- The family detector knows four ids; four ACTIVE scenarios use others. For them
  "solved optimally" is never true, follow-ups are never eligible and claims are never
  compared; FOLLOW_UP may still be entered on passing tests and time.
- A probe that is eligible and may not be asked in the stage blocks the unsolicited
  hint (`gate.ts:246-269`). Any probe unlocks the AFTER_PROBE facts
  (`clarification.ts:109-114`). A second requested hint in IMPLEMENTATION becomes
  silence.

**Microphone and queue.** A loss reported during a recovery is ignored, so two losses in
one recovery can leave no capture; `stop()` during `start()` leaves a live microphone
(against `web/app/interview/[sessionId]/page.tsx:300-301`). The run queue is in memory:
a restart loses every run in it. A run whose result was recorded but whose dispatch
failed is told as unavailable. `runner/queue.ts:56-59` says that being told is
information and silence is not; but a request dispatched where no runtime can
be built is dropped without a word (`session/index.ts:454-455`), and what is pushed while
no socket is attached is kept nowhere (`:232-240`). `RunsAreAnswered` counts both (`lost`).

## 6. Not modelled

- Texts, prompts, wording, audio samples, logging, metrics, layout: no property is
  about them. A transcript is its intent and what the rules ask of it; a revision of
  the code is what its snapshot tells apart.
- Pitch extraction and the patterns of the word rules: what a frame's pitch is and
  which rule a sentence matches are chosen by the environment.
- Speculative classification: it substitutes a cached answer of the same classifier
  for the same text. `SILENCE_ELAPSED` from outside: nothing dispatches it.
- The provider's stored resumption handle, the voice tool relay, ducking, room tone,
  the latency ledger, the mint limiter's window (one choice in *Breakers*).
- The sandboxes that would execute code; the text, voice, speech and identity providers
  are external, and their failures are steps of the module that calls them.
- Bearer authentication, rate limits, draining a server, the switch that stops writes,
  consent, alerts: single checks or single statements that nothing interleaves with.
- The stage driver, the session review, the simulation and evaluation harnesses:
  tooling that runs the system from outside. Pages other than the interview.
- Recovery's batch limit of ten jobs, the prewarm pool's size, the HTTP run route that
  no page calls, and the in-memory variants of the stores.
- The process's reaction to an unhandled rejection, a setting of its environment.

## 7. The plan

1. SessionChannel over SessionLog, so that several processes serve one page's sockets.
2. The runtime with two judgements against one hint budget, and a checkpoint that fails
   after an authorization.
3. The stored resumption handle next to the rotation in VoiceSession.
