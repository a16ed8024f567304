------------------------------ MODULE SessionLog ------------------------------
(***************************************************************************)
(* The evidence log of one session in Postgres and the API processes that  *)
(* write it (session/pg-event-log.ts, pg-lifecycle.ts,                     *)
(* runtime-ownership.ts, and the parts of session/index.ts that call       *)
(* them).  Every database transaction locks the session row, so it is one  *)
(* step here; what a process does between two transactions is not.         *)
(*                                                                         *)
(* A process that serves a session holds a lease on it.  What its runtime  *)
(* and its socket append carries the lease's token and is refused once the *)
(* lease is somebody else's.  Run results and the end of the session carry *)
(* no token and may be written by any process.                             *)
(***************************************************************************)
EXTENDS Integers, Sequences, InterviewContract

CONSTANTS Nodes,      \* the API processes
          MaxInputs,  \* events the client sends
          MaxOthers,  \* run results, stage changes the evidence calls for,
                      \* requests to end, readiness reports of the voice: in all
          MaxFaults   \* expiries under a live holder, crashes, errors, restarts

ASSUME LogAssumption == {MaxInputs, MaxOthers, MaxFaults} \subseteq Nat

VARIABLES
  log,     \* session_events
  row,     \* interview_sessions: [state, ended]
  owner,   \* session_runtime_owners: [token, live]; token 0: no row
  minted,  \* tokens claimed so far
  inputs,  \* runtime_inputs not completed, as positions in the log
  held,    \* per process, the token of its handle; 0: none
  rt,      \* per process, the live runtime: [token, upto, cut, stage]
  work,    \* per process, what its dispatcher has under way
  tail,    \* per process, the positions dispatched and not yet ingested; Started
  chan,    \* per process, the client event its socket is committing
  ending,  \* per process, the end it has prepared
  acked,   \* client events acknowledged to the client
  left     \* what remains of the bounds

db    == <<log, row, owner, minted, inputs>>
nodes == <<held, rt, work, tail, chan, ending>>
vars  == <<db, nodes, acked, left>>

Types == {"INPUT", "RUN_COMPLETED", "STATE_TRANSITIONED", "RUNTIME_CHECKPOINT",
          "SESSION_ENDED"}
First == "ORAL_PROBLEM_DELIVERY"

\* SESSION_STARTED, in the log before everything modelled here: a readiness
\* report dispatches it again.
Started == 0

\* An event: ref is the client sequence of an input, the number of a run, the
\* position a checkpoint completes; token is 0 when the writer gave none.
Ev(type, ref, token) ==
  [type |-> type, ref |-> ref, from |-> First, to |-> First, token |-> token]

TransitionEv(from, to, token) ==
  [type |-> "STATE_TRANSITIONED", ref |-> 0, from |-> from, to |-> to, token |-> token]

NoRuntime == [token |-> 0, upto |-> 0, cut |-> FALSE, stage |-> First]
NoEvent   == Ev("INPUT", 0, 0)
Idle      == [at |-> "idle", token |-> 0, upto |-> 0, cut |-> FALSE, stage |-> First,
              ev |-> NoEvent]
NoCall    == [seq |-> 0, token |-> 0]
NotEnding == -1

-----------------------------------------------------------------------------
(* The database.                                                           *)

\* The idempotency key: one event of a kind for each ref and target stage.
SameKey(e, f) == e.type = f.type /\ e.ref = f.ref /\ e.to = f.to

Recorded(e) == \E i \in DOMAIN log : SameKey(log[i], e)

Appended(e) == IF Recorded(e) THEN log ELSE Append(log, e)

\* Defect: any live lease will do, whoever holds it.
OwnsAnyLease(token) == owner.live /\ ~row.ended

\* assertRuntimeOwner
Owns(token) == owner.token = token /\ owner.live /\ ~row.ended

\* Defect: a lease can be claimed only where none was ever written.
ClaimableOnce == owner.token = 0 /\ ~row.ended

\* claim: no row, or an expired one.
Claimable == ~owner.live /\ ~row.ended

CanRenew(n) == held[n] # 0 /\ Owns(held[n])

IsTransition(e) == e.type = "STATE_TRANSITIONED"

\* The stage a runtime restored from this log is in.
Restores(l, stage) ==
  \/ stage = First /\ \A i \in DOMAIN l : ~IsTransition(l[i])
  \/ \E i \in DOMAIN l : /\ IsTransition(l[i]) /\ l[i].to = stage
                         /\ \A j \in DOMAIN l : j > i => ~IsTransition(l[j])

Fault == left.faults > 0 /\ left' = [left EXCEPT !.faults = @ - 1]
Other == left.others > 0 /\ left' = [left EXCEPT !.others = @ - 1]

-----------------------------------------------------------------------------
(* Leases: RuntimeOwnerHandles and PgRuntimeOwnership.                     *)

\* Any request for the session makes its process ask for the lease.
Claim(n) ==
  /\ held[n] = 0 /\ Claimable
  /\ owner' = [token |-> minted + 1, live |-> TRUE] /\ minted' = minted + 1
  /\ held' = [held EXCEPT ![n] = minted + 1]
  /\ UNCHANGED <<log, row, inputs, rt, work, tail, chan, ending, acked, left>>

\* lost(): the handle and the runtime go together.
Lose(n) ==
  /\ held' = [held EXCEPT ![n] = 0]
  /\ rt' = [rt EXCEPT ![n] = NoRuntime]

\* A heartbeat or a request finds that the lease cannot be renewed.
LoseHandle(n) ==
  /\ held[n] # 0 /\ ~CanRenew(n)
  /\ Lose(n)
  /\ UNCHANGED <<db, work, tail, chan, ending, acked, left>>

\* The renewal fails and leaves the lease behind.
RenewError(n) ==
  /\ held[n] # 0 /\ Fault
  /\ Lose(n)
  /\ UNCHANGED <<db, work, tail, chan, ending, acked>>

\* A lease runs out: for free when no process holds it.
Expire ==
  /\ owner.live
  /\ owner' = [owner EXCEPT !.live = FALSE]
  /\ IF \E n \in Nodes : held[n] = owner.token THEN Fault ELSE UNCHANGED left
  /\ UNCHANGED <<log, row, minted, inputs, nodes, acked>>

Forget(n) ==
  /\ held' = [held EXCEPT ![n] = 0]
  /\ rt' = [rt EXCEPT ![n] = NoRuntime]
  /\ work' = [work EXCEPT ![n] = Idle]
  /\ tail' = [tail EXCEPT ![n] = <<>>]
  /\ chan' = [chan EXCEPT ![n] = NoCall]
  /\ ending' = [ending EXCEPT ![n] = NotEnding]

Crash(n) == Fault /\ Forget(n) /\ UNCHANGED <<db, acked>>

\* An orderly stop deletes the lease, if it is still this process's.
Close(n) ==
  /\ held[n] # 0 /\ Fault /\ Forget(n)
  /\ owner' = IF owner.token = held[n] THEN [token |-> 0, live |-> FALSE] ELSE owner
  /\ UNCHANGED <<log, row, minted, inputs, acked>>

-----------------------------------------------------------------------------
(* Client events: SessionChannel.handleClientEvent over the token-carrying *)
(* log, and the dispatch of what was committed.                            *)

\* The client sends the first event it has no acknowledgement for, on
\* whichever socket it has now; the session is open as far as that process
\* has read.
Submit(n) ==
  /\ chan[n] = NoCall /\ CanRenew(n) /\ acked < MaxInputs
  /\ chan' = [chan EXCEPT ![n] = [seq |-> acked, token |-> held[n]]]
  /\ UNCHANGED <<db, held, rt, work, tail, ending, acked, left>>

\* Defect: the client is told before the transaction has been accepted.
CommitInputAckedEarly(n, heard) ==
  LET e  == Ev("INPUT", chan[n].seq, chan[n].token)
      ok == Owns(chan[n].token) /\ ~Recorded(e)
  IN  /\ chan[n] # NoCall
      /\ chan' = [chan EXCEPT ![n] = NoCall]
      /\ log' = IF ok THEN Append(log, e) ELSE log
      /\ inputs' = IF ok THEN inputs \cup {Len(log) + 1} ELSE inputs
      /\ tail' = IF ok THEN [tail EXCEPT ![n] = Append(@, Len(log) + 1)] ELSE tail
      /\ acked' = IF heard /\ chan[n].seq = acked THEN acked + 1 ELSE acked
      /\ IF heard THEN UNCHANGED left ELSE Fault
      /\ UNCHANGED <<row, owner, minted, held, rt, work, ending>>

\* The append: refused, found already there, or new.  The acknowledgement
\* may be lost on its way to the client.
CommitInput(n, heard) ==
  LET e     == Ev("INPUT", chan[n].seq, chan[n].token)
      ok    == Owns(chan[n].token)
      fresh == ok /\ ~Recorded(e)
  IN  /\ chan[n] # NoCall
      /\ chan' = [chan EXCEPT ![n] = NoCall]
      /\ log' = IF fresh THEN Append(log, e) ELSE log
      /\ inputs' = IF fresh THEN inputs \cup {Len(log) + 1} ELSE inputs
      /\ tail' = IF fresh THEN [tail EXCEPT ![n] = Append(@, Len(log) + 1)] ELSE tail
      /\ acked' = IF ok /\ heard /\ chan[n].seq = acked THEN acked + 1 ELSE acked
      /\ IF heard THEN UNCHANGED left ELSE Fault
      /\ UNCHANGED <<row, owner, minted, held, rt, work, ending>>

\* Defect: a result that comes late is still written.
RunCompletesLate(n) ==
  LET e == Ev("RUN_COMPLETED", left.others, 0)
  IN  /\ Other
      /\ log' = Appended(e)
      /\ tail' = [tail EXCEPT ![n] = Append(@, Len(log'))]
      /\ UNCHANGED <<row, owner, minted, inputs, held, rt, work, chan, ending, acked>>

\* RunQueue's onResult: appended without a token, dispatched where it ran.
RunCompletes(n) ==
  LET e == Ev("RUN_COMPLETED", left.others, 0)
  IN  /\ ~row.ended /\ Other
      /\ log' = Appended(e)
      /\ tail' = [tail EXCEPT ![n] = Append(@, Len(log'))]
      /\ UNCHANGED <<row, owner, minted, inputs, held, rt, work, chan, ending, acked>>

\* voice-ready: reconcileSpeechOnReady restores a runtime at once, ahead of what
\* waits; dispatch(started, true) waits its turn.
Slipped(s, k) == SubSeq(s, 1, k) \o <<Started>> \o SubSeq(s, k + 1, Len(s))

VoiceReady(n) ==
  /\ CanRenew(n) /\ Other
  /\ \E k \in 0..Len(tail[n]) :
       /\ work[n] # Idle => k > 0
       /\ tail' = [tail EXCEPT ![n] = Slipped(@, k)]
  /\ UNCHANGED <<db, held, rt, work, chan, ending, acked>>

-----------------------------------------------------------------------------
(* The dispatcher of a process: dispatchOne, createRuntime, and the        *)
(* runtime's own appends.                                                  *)

Dispatching(n) == tail[n] # <<>> /\ work[n] = Idle

Popped(n) == tail' = [tail EXCEPT ![n] = Tail(@)]

\* verify(): the lease this work was begun under is still the process's own.
Verified(n) == held[n] = work[n].token /\ CanRenew(n)

\* The work is given up; a lease that could not be renewed is lost with it.
GiveUp(n) ==
  /\ work' = [work EXCEPT ![n] = Idle]
  /\ Popped(n)
  /\ IF held[n] = work[n].token THEN Lose(n) ELSE UNCHANGED <<held, rt>>

\* No lease, so no runtime: the event stays in the log and nothing more.
Drop(n) ==
  /\ Dispatching(n) /\ ~CanRenew(n) /\ (held[n] # 0 \/ ~Claimable)
  /\ Lose(n) /\ Popped(n)
  /\ UNCHANGED <<db, work, chan, ending, acked, left>>

\* createRuntime reads the history under the lease it has just confirmed.  For
\* an event it keeps what comes before the event, for a readiness report all.
ReadHistory(n) ==
  /\ Dispatching(n) /\ rt[n] = NoRuntime /\ CanRenew(n)
  /\ LET e == Head(tail[n])
     IN  work' = [work EXCEPT ![n] = [Idle EXCEPT !.at = "load", !.token = held[n],
                    !.cut = e # Started,
                    !.upto = IF e = Started THEN Len(log) ELSE e - 1]]
  /\ UNCHANGED <<db, held, rt, tail, chan, ending, acked, left>>

\* The history restored; the runtime goes live and ingests the event.
GoesLive(n, token) ==
  \E stage \in States :
    /\ Restores(SubSeq(log, 1, work[n].upto), stage)
    /\ rt' = [rt EXCEPT ![n] = [token |-> token, upto |-> work[n].upto,
                                cut |-> work[n].cut, stage |-> stage]]
    /\ work' = [work EXCEPT ![n].at = "ingest", ![n].token = token,
                            ![n].stage = stage]
    /\ UNCHANGED <<held, tail>>

\* Defect: whatever lease the process holds by now is taken for the one the
\* history was read under.
InstallUnderAnyLease(n) ==
  /\ work[n].at = "load"
  /\ IF CanRenew(n) THEN GoesLive(n, held[n]) ELSE GiveUp(n)
  /\ UNCHANGED <<db, chan, ending, acked, left>>

\* The lease is verified once more before the runtime goes live.
Install(n) ==
  /\ work[n].at = "load"
  /\ IF Verified(n) THEN GoesLive(n, work[n].token) ELSE GiveUp(n)
  /\ UNCHANGED <<db, chan, ending, acked, left>>

\* The runtime is live already.
Begin(n) ==
  /\ Dispatching(n) /\ rt[n] # NoRuntime /\ CanRenew(n)
  /\ work' = [work EXCEPT ![n] = [Idle EXCEPT !.at = "ingest", !.upto = rt[n].upto,
                                              !.token = rt[n].token,
                                              !.stage = rt[n].stage]]
  /\ UNCHANGED <<db, held, rt, tail, chan, ending, acked, left>>

\* advanceStages: the runtime's stage moves first, then it is committed.
\* Nothing verifies the lease but the database.
StartTransition(n, to) ==
  /\ work[n].at = "ingest" /\ Other
  /\ IsTransitionAllowed(work[n].stage, to) /\ to # "EVALUATION"
  /\ work' = [work EXCEPT ![n].at = "transition", ![n].stage = to,
                          ![n].ev = TransitionEv(work[n].stage, to, work[n].token)]
  /\ rt' = IF rt[n].token = work[n].token THEN [rt EXCEPT ![n].stage = to] ELSE rt
  /\ UNCHANGED <<db, held, tail, chan, ending, acked>>

\* The checkpoint that completes the event, its lease verified before it is
\* sent.
StartCheckpoint(n) ==
  /\ work[n].at = "ingest"
  /\ IF Verified(n)
     THEN /\ work' = [work EXCEPT ![n].at = "checkpoint",
                        ![n].ev = Ev("RUNTIME_CHECKPOINT", Head(tail[n]), work[n].token)]
          /\ UNCHANGED <<held, rt, tail>>
     ELSE GiveUp(n)
  /\ UNCHANGED <<db, chan, ending, acked, left>>

\* transitionWithEvent
TransitionAccepted(n) == Owns(work[n].token) /\ row.state = work[n].ev.from

CommitTransition(n) ==
  /\ work[n].at = "transition"
  /\ IF TransitionAccepted(n)
     THEN /\ row' = [row EXCEPT !.state = work[n].ev.to]
          /\ log' = Appended(work[n].ev)
          /\ work' = [work EXCEPT ![n].at = "ingest", ![n].ev = NoEvent]
          /\ UNCHANGED tail
     ELSE /\ work' = [work EXCEPT ![n] = Idle] /\ Popped(n)
          /\ UNCHANGED <<row, log>>
  /\ UNCHANGED <<owner, minted, inputs, held, rt, chan, ending, acked, left>>

\* Defect: the input is not marked completed.
CommitCheckpointOnly(n) ==
  /\ work[n].at = "checkpoint"
  /\ work' = [work EXCEPT ![n] = Idle]
  /\ log' = IF Owns(work[n].token) THEN Appended(work[n].ev) ELSE log
  /\ Popped(n)
  /\ UNCHANGED <<row, owner, minted, inputs, held, rt, chan, ending, acked, left>>

\* appendInTransaction of a checkpoint, which completes its input.
CommitCheckpoint(n) ==
  LET fresh == Owns(work[n].token) /\ ~Recorded(work[n].ev)
  IN  /\ work[n].at = "checkpoint"
      /\ work' = [work EXCEPT ![n] = Idle]
      /\ log' = IF fresh THEN Append(log, work[n].ev) ELSE log
      /\ inputs' = IF fresh THEN inputs \ {work[n].ev.ref} ELSE inputs
      /\ Popped(n)
      /\ UNCHANGED <<row, owner, minted, held, rt, chan, ending, acked, left>>

\* A transaction that fails: the ingest is given up, the runtime stays.
CommitFails(n) ==
  /\ work[n].at \in {"transition", "checkpoint"} /\ Fault
  /\ work' = [work EXCEPT ![n] = Idle] /\ Popped(n)
  /\ UNCHANGED <<db, held, rt, chan, ending, acked>>

-----------------------------------------------------------------------------
(* The end: finalizeSession and endWithReport.                             *)

\* The process waits for its own dispatches, then goes to the database.  The
\* sweep expects no input in particular, the candidate's request every one
\* that was acknowledged.
Finalize(n, expected) ==
  /\ ending[n] = NotEnding /\ tail[n] = <<>> /\ expected \in {0, acked}
  /\ Other
  /\ ending' = [ending EXCEPT ![n] = expected]
  /\ UNCHANGED <<db, held, rt, work, tail, chan, acked>>

\* MAX(client_seq) against the sequence the request names.
InputsDurable(expected) ==
  expected = 0 \/ \E i \in DOMAIN log : log[i].type = "INPUT" /\ log[i].ref >= expected - 1

EndSession(n) ==
  /\ ending[n] # NotEnding
  /\ ending' = [ending EXCEPT ![n] = NotEnding]
  /\ IF InputsDurable(ending[n])
     THEN /\ row' = [state |-> "EVALUATION", ended |-> TRUE]
          /\ log' = Appended(Ev("SESSION_ENDED", 0, 0))
          /\ rt' = [rt EXCEPT ![n] = NoRuntime]
     ELSE UNCHANGED <<row, log, rt>>
  /\ UNCHANGED <<owner, minted, inputs, held, work, tail, chan, acked, left>>

-----------------------------------------------------------------------------
Init ==
  /\ log = <<>> /\ row = [state |-> First, ended |-> FALSE]
  /\ owner = [token |-> 0, live |-> FALSE] /\ minted = 0 /\ inputs = {}
  /\ held = [n \in Nodes |-> 0] /\ rt = [n \in Nodes |-> NoRuntime]
  /\ work = [n \in Nodes |-> Idle] /\ tail = [n \in Nodes |-> <<>>]
  /\ chan = [n \in Nodes |-> NoCall] /\ ending = [n \in Nodes |-> NotEnding]
  /\ acked = 0 /\ left = [others |-> MaxOthers, faults |-> MaxFaults]

Lease(n)  == Claim(n) \/ LoseHandle(n) \/ RenewError(n) \/ Crash(n) \/ Close(n)
Client(n) == \/ Submit(n)
             \/ \E heard \in BOOLEAN : CommitInput(n, heard)
             \/ RunCompletes(n) \/ VoiceReady(n)
Ingest(n) == \/ Drop(n) \/ ReadHistory(n) \/ Install(n) \/ Begin(n)
             \/ \E to \in States : StartTransition(n, to)
             \/ StartCheckpoint(n)
             \/ CommitTransition(n) \/ CommitCheckpoint(n) \/ CommitFails(n)
End(n)    == (\E expected \in 0..MaxInputs : Finalize(n, expected)) \/ EndSession(n)

Next == Expire \/ \E n \in Nodes : Lease(n) \/ Client(n) \/ Ingest(n) \/ End(n)

Spec == Init /\ [][Next]_vars

\* Requests keep coming, heartbeats run, a lease nobody renews runs out, a
\* transaction begun is finished, and the client goes on sending until it is
\* acknowledged, wherever it is let in.
Fairness ==
  /\ WF_vars(\E n \in Nodes : Claim(n))
  /\ WF_vars(Expire /\ UNCHANGED left)
  /\ WF_vars(\E n \in Nodes : Submit(n))
  /\ \A n \in Nodes : WF_vars(LoseHandle(n)) /\ WF_vars(CommitInput(n, TRUE))

FairSpec == Spec /\ Fairness

-----------------------------------------------------------------------------
\* The type invariant, in parts.
Events == [type : Types, ref : Nat, from : States, to : States, token : Nat]

LogTyped ==
  /\ log \in Seq(Events)
  /\ row \in [state : States, ended : BOOLEAN]
  /\ inputs \subseteq Nat

LeaseTyped ==
  /\ owner \in [token : Nat, live : BOOLEAN] /\ minted \in Nat
  /\ owner.token <= minted /\ (owner.live => owner.token > 0)
  /\ held \in [Nodes -> 0..minted]

RuntimesTyped ==
  /\ rt \in [Nodes -> [token : 0..minted, upto : Nat, cut : BOOLEAN, stage : States]]
  /\ work \in [Nodes -> [at : {"idle", "load", "ingest", "transition", "checkpoint"},
                        token : 0..minted, upto : Nat, cut : BOOLEAN, stage : States,
                        ev : Events]]

RequestsTyped ==
  /\ tail \in [Nodes -> Seq(Nat)]
  /\ \A n \in Nodes : work[n].at # "idle" => tail[n] # <<>>
  /\ chan \in [Nodes -> [seq : Nat, token : 0..minted]]
  /\ ending \in [Nodes -> Nat \cup {NotEnding}]

BoundsTyped ==
  acked \in Nat /\ left \in [others : Nat, faults : Nat]

TypeOK ==
  LogTyped /\ LeaseTyped /\ RuntimesTyped /\ RequestsTyped /\ BoundsTyped

\* Once an event of a later lease is in the log, none of an earlier lease is
\* written after it: a process that lost its lease, slow or stopped and come
\* back, never writes into its successor's interview.
OwnersInTurn ==
  \A i, j \in DOMAIN log :
    i < j /\ log[i].token > 0 /\ log[j].token > 0 => log[i].token <= log[j].token

\* A runtime that can still write has restored everything any other runtime
\* or socket wrote under a lease, when a readiness report restored it or an
\* event written under its own lease: what the log holds beyond the history it
\* kept is its own lease's doing (createRuntime reads after the claim and
\* verifies before going live).  The exception is what `beforeSeq` does: a
\* process restored for a run's result, or for an event of a lease it held
\* before, keeps only what came before that event, and another process may
\* have written after it.
RestoredIsComplete ==
  \A n \in Nodes :
    /\ rt[n].token # 0 /\ rt[n].token = owner.token
    /\ rt[n].cut => log[rt[n].upto + 1].token = rt[n].token
    => \A i \in DOMAIN log :
         i > rt[n].upto => log[i].token \in {0, rt[n].token}

\* The stages recorded in the log are one path through the contract's graph,
\* each leaving the stage the one before entered, and it ends where the
\* session row is until the session ends.
StagePath ==
  /\ \A j \in DOMAIN log : IsTransition(log[j]) =>
       /\ IsTransitionAllowed(log[j].from, log[j].to)
       /\ Restores(SubSeq(log, 1, j - 1), log[j].from)
  /\ ~row.ended => Restores(log, row.state)

\* The end of the session is the last event of its log, and is there as soon
\* as the row says so: what the evaluator reads never changes.
SealIsFinal ==
  /\ \A i \in DOMAIN log : log[i].type = "SESSION_ENDED" => i = Len(log)
  /\ row.ended <=> \E i \in DOMAIN log : log[i].type = "SESSION_ENDED"

\* The inputs listed as unresolved are exactly the client events that no
\* checkpoint completes.
InputsAccounted ==
  inputs = {p \in DOMAIN log :
              /\ log[p].type = "INPUT"
              /\ \A q \in DOMAIN log :
                   ~(log[q].type = "RUNTIME_CHECKPOINT" /\ log[q].ref = p)}

\* What the client was told is stored is in the log, through every crash,
\* takeover and lost acknowledgement.
AckedIsDurable ==
  \A c \in 0..(acked - 1) : \E i \in DOMAIN log : log[i].type = "INPUT" /\ log[i].ref = c

\* A client that keeps sending is acknowledged, whichever processes come and
\* go, unless the session ends.
InputsGetThrough ==
  \A c \in 0..(MaxInputs - 1) : (acked = c) ~> (acked > c \/ row.ended)

=============================================================================
