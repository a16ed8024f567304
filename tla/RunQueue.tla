------------------------------ MODULE RunQueue ------------------------------
(***************************************************************************)
(* Code runs: asked for over a session's channel, queued by the process,    *)
(* judged, recorded, shown to the observer and answered                     *)
(* (session/runs.ts, runner/queue.ts, and onResult / onUnavailable and      *)
(* dispatch in session/index.ts).                                           *)
(*                                                                         *)
(* One step is what the code does between two awaits.  A session's events   *)
(* are dispatched one at a time and in order, and a finished run's result   *)
(* waits in that line while it still holds its place in the queue.  What a  *)
(* session is sent reaches the sockets attached at that moment, and there   *)
(* may be none.  The process does not crash here: the queue is in memory,   *)
(* so a crash loses every run in it (SessionLog models what the log keeps). *)
(***************************************************************************)
EXTENDS ModelJudge, Sequences, FiniteSets, Functions

CONSTANTS Runs, RunSessions, SessionOf, \* the run requests, their sessions
          Concurrency, MaxDepth         \* RunQueueOptions

ASSUME RunQueueAssumption ==
  /\ Concurrency \in Nat \ {0} /\ MaxDepth \in Nat \ {0}
  /\ SessionOf \in [Runs -> RunSessions]

VARIABLES live,    \* the sessions that have not ended
          attached, \* sessionPushers: those with a socket on this process
          line,    \* per session: the events waiting to be dispatched
          stage,   \* per run: how far it has come
          pending, \* RunQueue.pending
          context, \* runContext: the runs the process can attribute
          verdict, \* per run: the status its result names
          told,    \* per run: what its session was sent about it: a status, or ERROR
          lost,    \* history: the runs dropped, or answered, where nobody heard it
          record,  \* the runs with a RUN_COMPLETED in the log
          seen     \* the runs whose completion the observer was handed

runVars == <<live, attached, line, stage, pending, context, verdict, told, lost, record, seen>>

Stages == {"idle", "asked", "pending", "executing", "recording", "dispatching", "done"}
Asked(r) == [type |-> "RUN_REQUESTED", run |-> r]
Completed(r) == [type |-> "RUN_COMPLETED", run |-> r]

Active(st) == {r \in Runs : st[r] \in {"executing", "recording", "dispatching"}}

RunInit ==
  /\ live = RunSessions /\ attached = RunSessions /\ lost = {}
  /\ line = [s \in RunSessions |-> <<>>]
  /\ stage = [r \in Runs |-> "idle"] /\ pending = <<>> /\ context = {}
  /\ verdict = [r \in Runs |-> "none"] /\ told = [r \in Runs |-> <<>>]
  /\ record = {} /\ seen = {}

\* drain(): the runs at the head of the queue take the places that are free.
Drain(st, queue) ==
  LET free  == Concurrency - Cardinality(Active(st))
      n     == IF Len(queue) < free THEN Len(queue) ELSE free
      first == {queue[i] : i \in 1..n}
  IN  /\ stage' = [r \in Runs |-> IF r \in first THEN "executing" ELSE st[r]]
      /\ pending' = SubSeq(queue, n + 1, Len(queue))

\* pushToSession, to whichever sockets the session has here.
Tell(r, message) ==
  IF SessionOf[r] \in attached
  THEN told' = [told EXCEPT ![r] = Append(@, message)] /\ UNCHANGED lost
  ELSE lost' = lost \union {r} /\ UNCHANGED told
Untold == UNCHANGED <<told, lost>>
Popped(s) == line' = [line EXCEPT ![s] = Tail(@)]

-----------------------------------------------------------------------------
(* The request.                                                            *)

\* session-client requestRun and the channel: recorded, then dispatched.
RequestRun(r) ==
  LET s == SessionOf[r] IN
  /\ stage[r] = "idle" /\ s \in live /\ s \in attached
  /\ stage' = [stage EXCEPT ![r] = "asked"]
  /\ line' = [line EXCEPT ![s] = Append(@, Asked(r))]
  /\ UNCHANGED <<live, attached, pending, context, verdict, told, lost, record, seen>>

\* The session is over: finalized, its row and its log closed.
EndRunSession(s) ==
  /\ s \in live /\ live' = live \ {s}
  /\ UNCHANGED <<attached, line, stage, pending, context, verdict, told, lost, record, seen>>

\* attachSessionSocket: the page connects, to this process or to another, and
\* its socket closes.
SocketMoves(s) ==
  /\ attached' \in {attached \union {s}, attached \ {s}}
  /\ UNCHANGED <<live, line, stage, pending, context, verdict, told, lost, record, seen>>

\* enqueueRun and RunQueue.enqueue.
EnqueueRun(r, queueUp) ==
  \/ /\ ~queueUp \/ Len(pending) >= MaxDepth
     /\ Tell(r, "ERROR")                \* RUNNER_UNAVAILABLE, RUNNER_BUSY
     /\ stage' = [stage EXCEPT ![r] = "done"]
     /\ UNCHANGED <<pending, context>>
  \/ /\ queueUp /\ Len(pending) < MaxDepth
     /\ context' = context \union {r}
     /\ Drain([stage EXCEPT ![r] = "pending"], Append(pending, r))
     /\ Untold

\* dispatchOne and handleRunRequestedEvent: the request at the head of its
\* session's line is refused, dropped or queued.  A store that fails makes the
\* dispatch fail, which the socket answers with INTERNAL; a process that can
\* build no runtime (another owns the session, its scenario does not match its
\* pin, its history cannot be read) returns without a word.
Handle(s) ==
  /\ line[s] # <<>> /\ Head(line[s]).type = "RUN_REQUESTED"
  /\ LET r == Head(line[s]).run IN
     \/ /\ lost' = lost \union {r}
        /\ stage' = [stage EXCEPT ![r] = "done"]
        /\ UNCHANGED <<pending, context, told>>
     \/ /\ s \in live
        /\ Tell(r, "ERROR")             \* INVALID_RUN, UNKNOWN_REVISION, INTERNAL
        /\ stage' = [stage EXCEPT ![r] = "done"]
        /\ UNCHANGED <<pending, context>>
     \/ /\ s \in live
        /\ \E queueUp \in BOOLEAN : EnqueueRun(r, queueUp)
  /\ Popped(s)
  /\ UNCHANGED <<live, attached, verdict, record, seen>>

-----------------------------------------------------------------------------
(* The run: RunQueue.run, with the place it holds freed in its finally.    *)

\* Defect: the place is freed, and the queue waits for the next request.
DoneUndrained(r) ==
  /\ stage' = [stage EXCEPT ![r] = "done"] /\ UNCHANGED pending

Done(r) == Drain([stage EXCEPT ![r] = "done"], pending)

\* onUnavailable.
Unavailable(r) ==
  /\ context' = context \ {r}
  /\ Tell(r, "ERROR")                   \* RUNNER_UNAVAILABLE
  /\ Done(r)

\* Defect: a judge that cannot be reached fails outside the try.
FailsUncaught(r) ==
  /\ stage[r] = "executing"
  /\ \E http \in Answers : Failures(http) # {}
  /\ Done(r)
  /\ UNCHANGED <<live, attached, line, context, verdict, told, lost, record, seen>>

\* execute throws: the language is not supported, or the model's call failed.
Fails(r) ==
  /\ stage[r] = "executing"
  /\ \E http \in Answers : Failures(http) # {}
  /\ Unavailable(r)
  /\ UNCHANGED <<live, attached, line, verdict, record, seen>>

\* execute returns, and onResult begins: the context is taken, and a run
\* nobody can attribute is dropped.
Executed(r) ==
  /\ stage[r] = "executing"
  /\ \E reply \in Replies : verdict' = [verdict EXCEPT ![r] = Result(reply)]
  /\ IF r \in context
     THEN /\ stage' = [stage EXCEPT ![r] = "recording"]
          /\ context' = context \ {r} /\ UNCHANGED pending
     ELSE Done(r) /\ UNCHANGED context
  /\ UNCHANGED <<live, attached, line, told, lost, record, seen>>

\* eventLog.append of the completion, and dispatch of what was appended.
Record(r) ==
  /\ stage[r] = "recording" /\ SessionOf[r] \in live
  /\ record' = record \union {r}
  /\ line' = [line EXCEPT ![SessionOf[r]] = Append(@, Completed(r))]
  /\ stage' = [stage EXCEPT ![r] = "dispatching"]
  /\ UNCHANGED <<live, attached, pending, context, verdict, told, lost, seen>>

\* The append is refused: the session has ended, or the store failed.
RecordFails(r) ==
  /\ stage[r] = "recording"
  /\ Unavailable(r)
  /\ UNCHANGED <<live, attached, line, verdict, record, seen>>

\* dispatchOne of the completion.  Without a runtime it is skipped; a lookup
\* that fails sends onResult to the catch, with the result already recorded.
Observe(s) ==
  /\ line[s] # <<>> /\ Head(line[s]).type = "RUN_COMPLETED"
  /\ LET r == Head(line[s]).run IN
     \/ /\ s \in live /\ seen' = seen \union {r}
        /\ Tell(r, verdict[r]) /\ Done(r) /\ UNCHANGED context
     \/ /\ UNCHANGED seen
        /\ Tell(r, verdict[r]) /\ Done(r) /\ UNCHANGED context
     \/ Unavailable(r) /\ UNCHANGED seen
  /\ Popped(s)
  /\ UNCHANGED <<live, attached, verdict, record>>

-----------------------------------------------------------------------------
\* A model call ends within its timeout, and promises settle: each goes on.
RunStep(r) == Fails(r) \/ Executed(r) \/ Record(r) \/ RecordFails(r)
Dispatch(s) == Handle(s) \/ Observe(s)
RunNext == \/ \E r \in Runs : RequestRun(r) \/ RunStep(r)
           \/ \E s \in RunSessions : EndRunSession(s) \/ SocketMoves(s) \/ Dispatch(s)
RunSpec == RunInit /\ [][RunNext]_runVars

-----------------------------------------------------------------------------
(* A run nobody can start waits only because every place is taken: nothing *)
(* polls the queue, so a place that is freed without being given away       *)
(* leaves what waits stuck until somebody else asks for a run.              *)
NoPlaceIsWasted ==
  /\ Cardinality(Active(stage)) <= Concurrency
  /\ pending # <<>> => Cardinality(Active(stage)) = Concurrency

(* Whoever asks for a run is told how it came out: a result, or that there  *)
(* will be none ("silence is not", runner/queue.ts:59).  The queue itself   *)
(* forgets no run; two ways of losing one lie around it.  A process without *)
(* a runtime for the session drops the request in dispatchOne (session/     *)
(* index.ts:454-455), and an answer pushed while no socket is attached is   *)
(* kept nowhere (:232-240).                                                 *)
RunsAreAnswered ==
  \A r \in Runs : stage[r] = "asked" ~> told[r] # <<>> \/ r \in lost

=============================================================================
