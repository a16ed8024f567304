--------------------------- MODULE SessionLogProofs ---------------------------
(***************************************************************************)
(* Proofs about SessionLog: its types and its safety properties, for every *)
(* set of processes and every value of the bounds.                         *)
(*                                                                         *)
(* The parts of the type invariant concern one or two variables each, and  *)
(* most actions leave those alone.  So a lemma per group of variables says *)
(* how a step can change them (...Steps), and each part is preserved by    *)
(* those changes rather than by each action.                               *)
(*                                                                         *)
(* Each safety property is a conjunct of an invariant of its own (TurnInv, *)
(* SealInv, RestoredInv, PathInv, AccountInv), strengthened by what makes  *)
(* it inductive.  They share two facts about a step: what a dispatcher may *)
(* have under way after it (WorkChanges) and what it may write to the log  *)
(* and the row (LogWrites).                                                *)
(***************************************************************************)
EXTENDS SessionLog, SequenceTheorems, TLAPS

(* The type invariant. *)

\* Every event the writers of the log build is a well-formed event.
LEMMA EventsAreTyped ==
  /\ \A type \in Types, ref, token \in Nat : Ev(type, ref, token) \in Events
  /\ \A from, to \in States, token \in Nat : TransitionEv(from, to, token) \in Events
BY DEF Ev, TransitionEv, Events, Types, First, States

\* The initial state is well typed.
LEMMA InitTyped == Init => TypeOK
<1> SUFFICES ASSUME Init PROVE TypeOK
  OBVIOUS
<1>1. First \in States /\ NoEvent \in Events
  BY EventsAreTyped DEF First, States, NoEvent, Types
<1>2. LogTyped
  BY <1>1 DEF Init, LogTyped
<1>3. LeaseTyped
  BY DEF Init, LeaseTyped
<1>4. RuntimesTyped
  BY <1>1 DEF Init, RuntimesTyped, NoRuntime, Idle
<1>5. RequestsTyped
  BY DEF Init, RequestsTyped, NoCall, NotEnding, Idle
<1>6. BoundsTyped
  BY LogAssumption DEF Init, BoundsTyped
<1>7. QED
  BY <1>2, <1>3, <1>4, <1>5, <1>6 DEF TypeOK

\* Only five steps write the log, the session row or the list of inputs.
LEMMA LogSteps ==
  ASSUME [Next]_vars
  PROVE  \/ UNCHANGED <<log, row, inputs>>
         \/ \E n \in Nodes : \/ \E heard \in BOOLEAN : CommitInput(n, heard)
                             \/ RunCompletes(n)
                             \/ CommitTransition(n)
                             \/ CommitCheckpoint(n)
                             \/ EndSession(n)
<1> DEFINE Written(n) == \/ \E heard \in BOOLEAN : CommitInput(n, heard)
                         \/ RunCompletes(n)
                         \/ CommitTransition(n)
                         \/ CommitCheckpoint(n)
                         \/ EndSession(n)
           Kept == UNCHANGED <<log, row, inputs>>
<1>1. CASE UNCHANGED vars
  BY <1>1 DEF vars, db
<1>2. CASE Expire
  BY <1>2 DEF Expire, nodes
<1>3. ASSUME NEW n \in Nodes, Lease(n) PROVE Kept
  BY <1>3 DEF Lease, Claim, LoseHandle, RenewError, Crash, Close, db
<1>4. ASSUME NEW n \in Nodes, Client(n) PROVE Kept \/ Written(n)
  BY <1>4 DEF Client, Submit, VoiceReady, db
<1>5. ASSUME NEW n \in Nodes, Ingest(n) PROVE Kept \/ Written(n)
  BY <1>5 DEF Ingest, Drop, ReadHistory, Install, Begin, StartTransition, StartCheckpoint,
              CommitFails, db
<1>6. ASSUME NEW n \in Nodes, End(n) PROVE Kept \/ Written(n)
  BY <1>6 DEF End, Finalize, db
<1>7. QED
  BY <1>1, <1>2, <1>3, <1>4, <1>5, <1>6 DEF Next

\* What they write is well typed.
LEMMA LogTypedNext == ASSUME TypeOK, [Next]_vars PROVE LogTyped'
<1>0. /\ log \in Seq(Events) /\ row \in [state : States, ended : BOOLEAN]
      /\ inputs \subseteq Nat
      /\ \A n \in Nodes : work[n].ev \in Events
  BY DEF TypeOK, LogTyped, RuntimesTyped
<1>a. \A e \in Events : Append(log, e) \in Seq(Events) /\ Appended(e) \in Seq(Events)
  BY <1>0 DEF Appended
<1>1. CASE UNCHANGED <<log, row, inputs>>
  BY <1>0, <1>1 DEF LogTyped
<1>2. ASSUME NEW n \in Nodes, NEW heard \in BOOLEAN, CommitInput(n, heard) PROVE LogTyped'
  <2>1. Ev("INPUT", chan[n].seq, chan[n].token) \in Events
    BY EventsAreTyped DEF TypeOK, RequestsTyped, LeaseTyped, Types
  <2>2. UNCHANGED row /\ inputs' \in {inputs, inputs \cup {Len(log) + 1}}
    BY <1>2 DEF CommitInput
  <2>3. log' \in {log, Append(log, Ev("INPUT", chan[n].seq, chan[n].token))}
    BY <1>2 DEF CommitInput
  <2>4. log' \in Seq(Events)
    BY <1>0, <1>a, <2>1, <2>3
  <2>5. inputs' \subseteq Nat
    BY <1>0, <2>2
  <2>6. QED
    BY <1>0, <2>2, <2>4, <2>5 DEF LogTyped
<1>3. ASSUME NEW n \in Nodes, RunCompletes(n) PROVE LogTyped'
  <2>1. Ev("RUN_COMPLETED", left.others, 0) \in Events
    BY EventsAreTyped DEF TypeOK, BoundsTyped, Types
  <2>2. QED
    BY <1>0, <1>a, <1>3, <2>1 DEF RunCompletes, LogTyped
<1>4. ASSUME NEW n \in Nodes, CommitTransition(n) PROVE LogTyped'
  <2>1. log' \in {log, Appended(work[n].ev)} /\ inputs' = inputs
    BY <1>4 DEF CommitTransition
  <2>2. row' \in {row, [row EXCEPT !.state = work[n].ev.to]}
    BY <1>4 DEF CommitTransition
  <2>3. row' \in [state : States, ended : BOOLEAN]
    BY <1>0, <2>2 DEF Events
  <2>4. QED
    BY <1>0, <1>a, <2>1, <2>3 DEF LogTyped
<1>5. ASSUME NEW n \in Nodes, CommitCheckpoint(n) PROVE LogTyped'
  <2>1. log' \in {log, Append(log, work[n].ev)} /\ row' = row
    BY <1>5 DEF CommitCheckpoint
  <2>2. inputs' \in {inputs, inputs \ {work[n].ev.ref}}
    BY <1>5 DEF CommitCheckpoint
  <2>3. QED
    BY <1>0, <1>a, <2>1, <2>2 DEF LogTyped
<1>6. ASSUME NEW n \in Nodes, EndSession(n) PROVE LogTyped'
  <2>1. Ev("SESSION_ENDED", 0, 0) \in Events
    BY EventsAreTyped DEF Types
  <2>2. log' \in {log, Appended(Ev("SESSION_ENDED", 0, 0))}
    BY <1>6 DEF EndSession
  <2>3. row' \in {row, [state |-> "EVALUATION", ended |-> TRUE]} /\ inputs' = inputs
    BY <1>6 DEF EndSession
  <2>4. log' \in Seq(Events)
    BY <1>0, <1>a, <2>1, <2>2
  <2>5. row \in [state : States, ended : BOOLEAN] /\ "EVALUATION" \in States
    BY <1>0 DEF States
  <2>6. row' \in [state : States, ended : BOOLEAN]
    <3>1. CASE row' = row
      BY <2>5, <3>1
    <3>2. CASE row' = [state |-> "EVALUATION", ended |-> TRUE]
      BY <2>5, <3>2
    <3>3. QED
      BY <2>3, <3>1, <3>2
  <2>7. QED
    BY <1>0, <2>3, <2>4, <2>6 DEF LogTyped
<1>7. QED
  BY <1>1, <1>2, <1>3, <1>4, <1>5, <1>6, LogSteps

\* How the lease and the handles on it change: the lease runs out, is claimed, is
\* deleted by the process that stops, or a process lets go of its handle.
LEMMA LeaseSteps ==
  ASSUME [Next]_vars
  PROVE  \/ UNCHANGED <<held, owner, minted>>
         \/ owner' = [owner EXCEPT !.live = FALSE] /\ UNCHANGED <<held, minted>>
         \/ \E n \in Nodes : \/ Claim(n) \/ Close(n)
                             \/ held' = [held EXCEPT ![n] = 0] /\ UNCHANGED <<owner, minted>>
<1> DEFINE Frees(n) == held' = [held EXCEPT ![n] = 0] /\ UNCHANGED <<owner, minted>>
           Keeps    == UNCHANGED <<held, owner, minted>>
<1>1. Expire => owner' = [owner EXCEPT !.live = FALSE] /\ UNCHANGED <<held, minted>>
  BY DEF Expire, nodes
<1>2. ASSUME NEW n \in Nodes, LoseHandle(n) \/ RenewError(n) \/ Crash(n) \/ Drop(n) PROVE Frees(n)
  BY <1>2 DEF LoseHandle, RenewError, Crash, Drop, Lose, Forget, db
<1>3. ASSUME NEW n \in Nodes, Install(n) \/ StartCheckpoint(n) PROVE Frees(n) \/ Keeps
  BY <1>3 DEF Install, StartCheckpoint, GoesLive, GiveUp, Lose, db
<1>4. ASSUME NEW n \in Nodes, Client(n) \/ End(n) PROVE Keeps
  BY <1>4 DEF Client, End, Submit, CommitInput, RunCompletes, VoiceReady, Finalize, EndSession, db
<1>5. ASSUME NEW n \in Nodes, \/ ReadHistory(n) \/ Begin(n) \/ CommitTransition(n)
                              \/ CommitCheckpoint(n) \/ CommitFails(n)
                              \/ \E to \in States : StartTransition(n, to)
      PROVE  Keeps
  BY <1>5 DEF ReadHistory, Begin, CommitTransition, CommitCheckpoint, CommitFails, StartTransition, db
<1>6. CASE UNCHANGED vars
  BY <1>6 DEF vars, db, nodes
<1>7. QED
  BY <1>1, <1>2, <1>3, <1>4, <1>5, <1>6 DEF Next, Lease, Ingest

\* Tokens are minted upwards, and nobody holds one that was not minted.
LEMMA LeaseTypedNext == ASSUME TypeOK, [Next]_vars PROVE LeaseTyped' /\ minted <= minted'
<1> USE DEF LeaseTyped
<1>0. LeaseTyped
  BY DEF TypeOK
<1>1. CASE UNCHANGED <<held, owner, minted>>
  BY <1>0, <1>1
<1>2. CASE owner' = [owner EXCEPT !.live = FALSE] /\ UNCHANGED <<held, minted>>
  <2>1. owner' \in [token : Nat, live : BOOLEAN] /\ owner'.token = owner.token /\ ~owner'.live
    BY <1>0, <1>2
  <2>2. QED
    BY <1>0, <1>2, <2>1
<1>3. ASSUME NEW n \in Nodes, Claim(n) PROVE LeaseTyped' /\ minted <= minted'
  BY <1>0, <1>3 DEF Claim
<1>4. ASSUME NEW n \in Nodes, Close(n) PROVE LeaseTyped' /\ minted <= minted'
  BY <1>0, <1>4 DEF Close, Forget
<1>5. ASSUME NEW n \in Nodes, held' = [held EXCEPT ![n] = 0], UNCHANGED <<owner, minted>>
      PROVE  LeaseTyped' /\ minted <= minted'
  BY <1>0, <1>5
<1>6. QED
  BY <1>1, <1>2, <1>3, <1>4, <1>5, LeaseSteps

\* The bounds of the model count down to zero and no further.
LEMMA BoundsTypedNext == ASSUME TypeOK, [Next]_vars PROVE BoundsTyped'
<1>0. acked \in Nat /\ left \in [others : Nat, faults : Nat]
  BY DEF TypeOK, BoundsTyped
<1>1. Fault \/ Other => left' \in [others : Nat, faults : Nat]
  BY <1>0 DEF Fault, Other
<1>2. CASE UNCHANGED <<left, acked>>
  BY <1>0, <1>2 DEF BoundsTyped
<1>3. CASE UNCHANGED acked /\ (Fault \/ Other)
  BY <1>0, <1>1, <1>3 DEF BoundsTyped
<1>4. Expire => UNCHANGED acked /\ (Fault \/ UNCHANGED left)
  BY DEF Expire
<1>5. ASSUME NEW n \in Nodes, Lease(n) PROVE UNCHANGED acked /\ (Fault \/ UNCHANGED left)
  BY <1>5 DEF Lease, Claim, LoseHandle, RenewError, Crash, Close
<1>6. ASSUME NEW n \in Nodes, NEW heard \in BOOLEAN, CommitInput(n, heard) PROVE BoundsTyped'
  <2>1. acked' \in Nat /\ (Fault \/ UNCHANGED left)
    BY <1>0, <1>6 DEF CommitInput
  <2>2. QED
    BY <1>0, <1>1, <2>1 DEF BoundsTyped
<1>7. ASSUME NEW n \in Nodes, RunCompletes(n) \/ VoiceReady(n) PROVE UNCHANGED acked /\ Other
  BY <1>7 DEF RunCompletes, VoiceReady
<1>8. ASSUME NEW n \in Nodes, NEW to \in States, StartTransition(n, to)
      PROVE  UNCHANGED acked /\ Other
  BY <1>8 DEF StartTransition
<1>9. ASSUME NEW n \in Nodes, \/ Submit(n) \/ Drop(n) \/ ReadHistory(n) \/ Install(n)
                              \/ Begin(n) \/ StartCheckpoint(n) \/ EndSession(n)
                              \/ CommitTransition(n) \/ CommitCheckpoint(n) \/ CommitFails(n)
      PROVE  UNCHANGED acked /\ (Fault \/ UNCHANGED left)
  BY <1>9 DEF Submit, Drop, ReadHistory, Install, Begin, StartCheckpoint, EndSession,
     CommitTransition, CommitCheckpoint, CommitFails
<1>10. ASSUME NEW n \in Nodes, NEW expected \in 0..MaxInputs, Finalize(n, expected)
       PROVE  UNCHANGED acked /\ Other
  BY <1>10 DEF Finalize
<1>11. CASE UNCHANGED vars
  BY <1>2, <1>11 DEF vars
<1>12. QED
  BY <1>2, <1>3, <1>4, <1>5, <1>6, <1>7, <1>8, <1>9, <1>10, <1>11
     DEF Next, Client, Ingest, End

\* The values of a runtime and of a dispatcher's work when m tokens were minted.
Live(m) == [token : 0..m, upto : Nat, cut : BOOLEAN, stage : States]
Works(m) == [at : {"idle", "load", "ingest", "transition", "checkpoint"},
             token : 0..m, upto : Nat, cut : BOOLEAN, stage : States, ev : Events]

\* The runtime that goes live with the history that work w read.
Installed(w, stage) ==
  [token |-> w.token, upto |-> w.upto, cut |-> w.cut, stage |-> stage]

\* A process's runtime is forgotten, goes live, or moves to another stage.
LEMMA RtSteps ==
  ASSUME [Next]_vars
  PROVE  \/ UNCHANGED rt
         \/ \E n \in Nodes :
              \/ rt' = [rt EXCEPT ![n] = NoRuntime]
              \/ /\ work[n].at = "load"
                 /\ \E stage \in States :
                      rt' = [rt EXCEPT ![n] = Installed(work[n], stage)]
              \/ \E to \in States : rt' = [rt EXCEPT ![n].stage = to]
<1>1. Expire => UNCHANGED rt
  BY DEF Expire, nodes
<1>2. ASSUME NEW n \in Nodes, \/ LoseHandle(n) \/ RenewError(n) \/ Crash(n) \/ Close(n)
                              \/ Drop(n)
      PROVE rt' = [rt EXCEPT ![n] = NoRuntime]
  BY <1>2 DEF LoseHandle, RenewError, Crash, Close, Drop, Lose, Forget
<1>3. ASSUME NEW n \in Nodes, StartCheckpoint(n) \/ EndSession(n)
      PROVE UNCHANGED rt \/ rt' = [rt EXCEPT ![n] = NoRuntime]
  BY <1>3 DEF StartCheckpoint, GiveUp, Lose, EndSession
<1>4. ASSUME NEW n \in Nodes, Install(n)
      PROVE  \/ UNCHANGED rt
             \/ rt' = [rt EXCEPT ![n] = NoRuntime]
             \/ /\ work[n].at = "load"
                /\ \E stage \in States :
                     rt' = [rt EXCEPT ![n] = Installed(work[n], stage)]
  BY <1>4 DEF Install, GoesLive, GiveUp, Lose, Installed
<1>5. ASSUME NEW n \in Nodes, NEW to \in States, StartTransition(n, to)
      PROVE UNCHANGED rt \/ rt' = [rt EXCEPT ![n].stage = to]
  BY <1>5 DEF StartTransition
<1>6. ASSUME NEW n \in Nodes, \/ Claim(n) \/ Client(n) \/ ReadHistory(n) \/ Begin(n)
                              \/ CommitTransition(n) \/ CommitCheckpoint(n) \/ CommitFails(n)
                              \/ \E expected \in 0..MaxInputs : Finalize(n, expected)
      PROVE  UNCHANGED rt
  BY <1>6 DEF Claim, Client, Submit, CommitInput, RunCompletes, VoiceReady, ReadHistory, Begin,
     CommitTransition, CommitCheckpoint, CommitFails, Finalize
<1>7. CASE UNCHANGED vars
  BY <1>7 DEF vars, nodes
<1>8. QED
  BY <1>1, <1>2, <1>3, <1>4, <1>5, <1>6, <1>7 DEF Next, Lease, Ingest, End

\* A live runtime has a token that was minted.
LEMMA RtTypedNext ==
  ASSUME TypeOK, [Next]_vars PROVE rt' \in [Nodes -> Live(minted')]
<1>1. minted \in Nat /\ minted' \in Nat /\ minted <= minted'
  BY LeaseTypedNext DEF TypeOK, LeaseTyped
<1>2. /\ rt \in [Nodes -> Live(minted)]
      /\ \A n \in Nodes : /\ work[n].token \in 0..minted /\ work[n].upto \in Nat
                         /\ work[n].cut \in BOOLEAN
  BY DEF TypeOK, RuntimesTyped, Live
<1>3. Live(minted) \subseteq Live(minted') /\ NoRuntime \in Live(minted)
  BY <1>1 DEF Live, NoRuntime, First, States
<1>4. CASE UNCHANGED rt
  BY <1>2, <1>3, <1>4
<1>5. ASSUME NEW n \in Nodes, NEW r \in Live(minted), rt' = [rt EXCEPT ![n] = r]
      PROVE  rt' \in [Nodes -> Live(minted')]
  BY <1>2, <1>3, <1>5
<1>6. ASSUME NEW n \in Nodes, NEW to \in States, rt' = [rt EXCEPT ![n].stage = to]
      PROVE  rt' \in [Nodes -> Live(minted')]
  <2>1. [rt[n] EXCEPT !.stage = to] \in Live(minted)
    BY <1>2 DEF Live
  <2>2. QED
    BY <1>2, <1>3, <1>6, <2>1
<1>7. \A n \in Nodes, stage \in States : Installed(work[n], stage) \in Live(minted)
  BY <1>2 DEF Live, Installed
<1>8. QED
  BY <1>3, <1>4, <1>5, <1>6, <1>7, RtSteps

\* How a dispatcher's work changes.
LEMMA WorkSteps ==
  ASSUME [Next]_vars
  PROVE  \/ UNCHANGED work
         \/ \E n \in Nodes :
              \/ work' = [work EXCEPT ![n] = Idle]
              \/ ReadHistory(n) \/ Install(n) \/ Begin(n) \/ StartCheckpoint(n)
              \/ CommitTransition(n)
              \/ \E to \in States : StartTransition(n, to)
<1>1. Expire => UNCHANGED work
  BY DEF Expire, nodes
<1>2. ASSUME NEW n \in Nodes, \/ Crash(n) \/ Close(n) \/ CommitCheckpoint(n) \/ CommitFails(n)
      PROVE  work' = [work EXCEPT ![n] = Idle]
  BY <1>2 DEF Crash, Close, Forget, CommitCheckpoint, CommitFails
<1>3. ASSUME NEW n \in Nodes, \/ Claim(n) \/ LoseHandle(n) \/ RenewError(n)
                              \/ Client(n) \/ Drop(n) \/ End(n)
      PROVE  UNCHANGED work
  BY <1>3 DEF Claim, LoseHandle, RenewError, Client, Submit, CommitInput, RunCompletes,
     VoiceReady, Drop, End, Finalize, EndSession
<1>4. CASE UNCHANGED vars
  BY <1>4 DEF vars, nodes
<1>5. QED
  BY <1>1, <1>2, <1>3, <1>4 DEF Next, Lease, Ingest

\* A dispatcher's work is well typed.
LEMMA WorkTypedNext ==
  ASSUME TypeOK, [Next]_vars PROVE work' \in [Nodes -> Works(minted')]
<1>1. minted \in Nat /\ minted' \in Nat /\ minted <= minted'
  BY LeaseTypedNext DEF TypeOK, LeaseTyped
<1>2. /\ work \in [Nodes -> Works(minted)]
      /\ rt \in [Nodes -> Live(minted)] /\ held \in [Nodes -> 0..minted]
      /\ tail \in [Nodes -> Seq(Nat)]
      /\ \A n \in Nodes : work[n].at # "idle" => tail[n] # <<>>
  BY DEF TypeOK, LeaseTyped, RuntimesTyped, RequestsTyped, Live, Works
<1>3. Works(minted) \subseteq Works(minted') /\ Idle \in Works(minted) /\ NoEvent \in Events
  <2>1. NoEvent \in Events /\ First \in States
    BY EventsAreTyped DEF NoEvent, Types, First, States
  <2>2. QED
    BY <1>1, <2>1 DEF Works, Idle
<1>4. ASSUME NEW n \in Nodes, NEW w \in Works(minted), work' = [work EXCEPT ![n] = w]
      PROVE  work' \in [Nodes -> Works(minted')]
  BY <1>2, <1>3, <1>4
<1>5. CASE UNCHANGED work
  BY <1>2, <1>3, <1>5
<1>6. ASSUME NEW n \in Nodes, ReadHistory(n) PROVE work' \in [Nodes -> Works(minted')]
  <2>1. PICK u \in Nat, cut \in BOOLEAN :
          work' = [work EXCEPT ![n] = [Idle EXCEPT !.at = "load", !.token = held[n],
                                                   !.cut = cut, !.upto = u]]
    <3>1. Len(log) \in Nat
      BY DEF TypeOK, LogTyped
    <3>2. Head(tail[n]) \in Nat
      BY <1>2, <1>6 DEF ReadHistory, Dispatching
    <3>3. CASE Head(tail[n]) = 0
      BY <1>6, <3>1, <3>3 DEF ReadHistory, Started
    <3>4. CASE Head(tail[n]) # 0
      <4>1. Head(tail[n]) - 1 \in Nat
        BY <3>2, <3>4
      <4>2. QED
        BY <1>6, <3>4, <4>1 DEF ReadHistory, Started
    <3>5. QED
      BY <3>3, <3>4
  <2>2. [Idle EXCEPT !.at = "load", !.token = held[n], !.cut = cut, !.upto = u]
          \in Works(minted)
    BY <1>2, <1>3 DEF Works
  <2>3. QED
    BY <1>4, <2>1, <2>2
<1>7. ASSUME NEW n \in Nodes, Install(n) PROVE work' \in [Nodes -> Works(minted')]
  <2>1. \/ work' = [work EXCEPT ![n] = Idle]
        \/ \E stage \in States :
             work' = [work EXCEPT ![n].at = "ingest", ![n].token = work[n].token,
                                  ![n].stage = stage]
    BY <1>7 DEF Install, GoesLive, GiveUp
  <2>2. \A stage \in States : [work[n] EXCEPT !.at = "ingest", !.token = work[n].token,
                                              !.stage = stage] \in Works(minted)
    BY <1>2 DEF Works
  <2>3. CASE work' = [work EXCEPT ![n] = Idle]
    BY <1>3, <1>4, <2>3
  <2>4. ASSUME NEW stage \in States,
               work' = [work EXCEPT ![n].at = "ingest", ![n].token = work[n].token,
                                    ![n].stage = stage]
        PROVE  work' \in [Nodes -> Works(minted')]
    <3>1. work' = [work EXCEPT ![n] = [work[n] EXCEPT !.at = "ingest",
                                         !.token = work[n].token, !.stage = stage]]
      BY <1>2, <2>4
    <3>2. QED
      BY <1>4, <2>2, <3>1
  <2>5. QED
    BY <2>1, <2>3, <2>4
<1>8. ASSUME NEW n \in Nodes, Begin(n) PROVE work' \in [Nodes -> Works(minted')]
  <2>1. work' = [work EXCEPT ![n] = [Idle EXCEPT !.at = "ingest", !.upto = rt[n].upto,
                                                 !.token = rt[n].token,
                                                 !.stage = rt[n].stage]]
    BY <1>8 DEF Begin
  <2>2. [Idle EXCEPT !.at = "ingest", !.upto = rt[n].upto, !.token = rt[n].token,
                     !.stage = rt[n].stage] \in Works(minted)
    BY <1>2, <1>3 DEF Works, Live
  <2>3. QED
    BY <1>4, <2>1, <2>2
<1>9. ASSUME NEW n \in Nodes, NEW to \in States, StartTransition(n, to)
      PROVE  work' \in [Nodes -> Works(minted')]
  <2>1. work' = [work EXCEPT ![n].at = "transition", ![n].stage = to,
                     ![n].ev = TransitionEv(work[n].stage, to, work[n].token)]
    BY <1>9 DEF StartTransition
  <2>2. TransitionEv(work[n].stage, to, work[n].token) \in Events
    BY <1>1, <1>2, EventsAreTyped DEF Works
  <2>3. [work[n] EXCEPT !.at = "transition", !.stage = to,
                        !.ev = TransitionEv(work[n].stage, to, work[n].token)]
          \in Works(minted)
    BY <1>2, <2>2 DEF Works
  <2>4. QED
    BY <1>2, <1>4, <2>1, <2>3
<1>10. ASSUME NEW n \in Nodes, StartCheckpoint(n) PROVE work' \in [Nodes -> Works(minted')]
  <2> DEFINE e == Ev("RUNTIME_CHECKPOINT", Head(tail[n]), work[n].token)
  <2>1. \/ work' = [work EXCEPT ![n] = Idle]
        \/ work' = [work EXCEPT ![n].at = "checkpoint", ![n].ev = e]
    BY <1>10 DEF StartCheckpoint, GiveUp
  <2>2. Head(tail[n]) \in Nat /\ work[n].token \in Nat
    BY <1>1, <1>2, <1>10 DEF StartCheckpoint, Works
  <2>3. e \in Events
    BY <2>2, EventsAreTyped DEF Types
  <2>4. [work[n] EXCEPT !.at = "checkpoint", !.ev = e] \in Works(minted)
    BY <1>2, <2>3 DEF Works
  <2>5. QED
    BY <1>2, <1>3, <1>4, <2>1, <2>4
<1>11. ASSUME NEW n \in Nodes, CommitTransition(n) PROVE work' \in [Nodes -> Works(minted')]
  <2>1. \/ work' = [work EXCEPT ![n] = Idle]
        \/ work' = [work EXCEPT ![n].at = "ingest", ![n].ev = NoEvent]
    BY <1>11 DEF CommitTransition
  <2>2. [work[n] EXCEPT !.at = "ingest", !.ev = NoEvent] \in Works(minted)
    BY <1>2, <1>3 DEF Works
  <2>3. QED
    BY <1>2, <1>3, <1>4, <2>1, <2>2
<1>12. QED
  BY <1>3, <1>4, <1>5, <1>6, <1>7, <1>8, <1>9, <1>10, <1>11, WorkSteps

\* How the requests a process is serving change.
LEMMA RequestsSteps ==
  ASSUME [Next]_vars
  PROVE  \/ UNCHANGED <<chan, ending>>
         \/ \E n \in Nodes :
              \/ chan' = [chan EXCEPT ![n] = NoCall]
                 /\ ending' \in {ending, [ending EXCEPT ![n] = NotEnding]}
              \/ Submit(n)
              \/ \E expected \in 0..MaxInputs : Finalize(n, expected)
              \/ UNCHANGED chan /\ ending' = [ending EXCEPT ![n] = NotEnding]
<1>1. Expire => UNCHANGED <<chan, ending>>
  BY DEF Expire, nodes
<1>2. ASSUME NEW n \in Nodes, Ingest(n) PROVE UNCHANGED <<chan, ending>>
  BY <1>2 DEF Ingest, Drop, ReadHistory, Install, Begin, StartTransition, StartCheckpoint,
     CommitTransition, CommitCheckpoint, CommitFails
<1>3. ASSUME NEW n \in Nodes, \/ Claim(n) \/ LoseHandle(n) \/ RenewError(n)
                              \/ RunCompletes(n) \/ VoiceReady(n)
      PROVE  UNCHANGED <<chan, ending>>
  BY <1>3 DEF Claim, LoseHandle, RenewError, RunCompletes, VoiceReady
<1>4. ASSUME NEW n \in Nodes, Crash(n) \/ Close(n)
      PROVE  chan' = [chan EXCEPT ![n] = NoCall] /\ ending' = [ending EXCEPT ![n] = NotEnding]
  BY <1>4 DEF Crash, Close, Forget
<1>5. ASSUME NEW n \in Nodes, NEW heard \in BOOLEAN, CommitInput(n, heard)
      PROVE  chan' = [chan EXCEPT ![n] = NoCall] /\ ending' = ending
  BY <1>5 DEF CommitInput
<1>6. ASSUME NEW n \in Nodes, EndSession(n)
      PROVE  UNCHANGED chan /\ ending' = [ending EXCEPT ![n] = NotEnding]
  BY <1>6 DEF EndSession
<1>7. CASE UNCHANGED vars
  BY <1>7 DEF vars, nodes
<1>8. QED
  BY <1>1, <1>2, <1>3, <1>4, <1>5, <1>6, <1>7 DEF Next, Lease, Client, End

\* A readiness report among what is dispatched leaves the rest as it was.
LEMMA SlippedIn ==
  ASSUME NEW s \in Seq(Nat), NEW k \in 0..Len(s)
  PROVE  /\ Slipped(s, k) \in Seq(Nat) /\ Slipped(s, k) # <<>>
         /\ \A i \in DOMAIN Slipped(s, k) :
              Slipped(s, k)[i] = 0 \/ \E j \in DOMAIN s : Slipped(s, k)[i] = s[j]
<1> DEFINE a == SubSeq(s, 1, k)
           b == SubSeq(s, k + 1, Len(s))
<1>1. a \in Seq(Nat) /\ Len(a) = k /\ \A i \in 1..k : a[i] = s[i] /\ i \in DOMAIN s
  OBVIOUS
<1>2. b \in Seq(Nat) /\ \A i \in DOMAIN b : b[i] = s[k + i] /\ k + i \in DOMAIN s
  OBVIOUS
<1>3. /\ <<Started>> \in Seq(Nat) /\ Len(<<Started>>) = 1 /\ <<Started>>[1] = 0
  BY DEF Started
<1> DEFINE c == a \o <<Started>>
<1> HIDE DEF a, b
<1>4. c \in Seq(Nat) /\ Len(c) = k + 1 /\ c[k + 1] = 0 /\ \A i \in 1..k : c[i] = a[i]
  BY <1>1, <1>3
<1> HIDE DEF c
<1>5. /\ c \o b \in Seq(Nat) /\ Len(c \o b) = k + 1 + Len(b)
      /\ \A i \in 1..(k + 1) : (c \o b)[i] = c[i]
      /\ \A i \in 1..(k + 1 + Len(b)) : i > k + 1 => (c \o b)[i] = b[i - (k + 1)]
  <2>1. c \o b \in Seq(Nat) /\ Len(c \o b) = Len(c) + Len(b)
    BY <1>2, <1>4, ConcatProperties
  <2>2. ASSUME NEW i \in 1..(Len(c) + Len(b))
        PROVE  (c \o b)[i] = IF i <= Len(c) THEN c[i] ELSE b[i - Len(c)]
    BY <1>2, <1>4, ConcatProperties
  <2>3. Len(c) = k + 1 /\ Len(b) \in Nat /\ k \in Nat
    BY <1>2, <1>4
  <2>4. QED
    BY <2>1, <2>2, <2>3
<1>6. Slipped(s, k) = c \o b
  BY DEF Slipped, a, b, c
<1>7. Len(b) \in Nat /\ DOMAIN b = 1..Len(b) /\ DOMAIN (c \o b) = 1..(k + 1 + Len(b))
  BY <1>2, <1>5
<1>8. c \o b # <<>>
  BY <1>5, <1>7
<1>9. ASSUME NEW i \in 1..(k + 1 + Len(b))
      PROVE  (c \o b)[i] = 0 \/ \E j \in DOMAIN s : (c \o b)[i] = s[j]
  <2>1. CASE i <= k
    BY <1>1, <1>4, <1>5, <2>1
  <2>2. CASE i = k + 1
    BY <1>4, <1>5, <2>2
  <2>3. CASE i > k + 1
    <3>1. i - (k + 1) \in DOMAIN b
      BY <1>7, <2>3
    <3>2. QED
      BY <1>2, <1>5, <2>3, <3>1
  <2>4. QED
    BY <1>7, <2>1, <2>2, <2>3
<1>10. QED
  BY <1>5, <1>6, <1>7, <1>8, <1>9

\* A dispatcher with work under way has the event it works on at the head of its
\* tail: the two are set and cleared together.
LEMMA TailSteps ==
  ASSUME TypeOK, [Next]_vars
  PROVE  \/ UNCHANGED <<tail, work>>
         \/ \E n \in Nodes :
              \/ tail' = [tail EXCEPT ![n] = <<>>] /\ work' = [work EXCEPT ![n] = Idle]
              \/ /\ UNCHANGED work
                 /\ \E p \in 0..Len(log') : tail' = [tail EXCEPT ![n] = Append(@, p)]
              \/ /\ UNCHANGED work
                 /\ \E k \in 0..Len(tail[n]) : tail' = [tail EXCEPT ![n] = Slipped(@, k)]
              \/ Popped(n) /\ tail[n] # <<>> /\ work' = [work EXCEPT ![n] = Idle]
              \/ UNCHANGED tail /\ tail[n] # <<>> /\ \E w : work' = [work EXCEPT ![n] = w]
<1> DEFINE Clears(n) == tail' = [tail EXCEPT ![n] = <<>>] /\ work' = [work EXCEPT ![n] = Idle]
           Extends(n) == /\ UNCHANGED work
                         /\ \E p \in 0..Len(log') : tail' = [tail EXCEPT ![n] = Append(@, p)]
           Slips(n) == /\ UNCHANGED work
                       /\ \E k \in 0..Len(tail[n]) :
                            tail' = [tail EXCEPT ![n] = Slipped(@, k)]
           Pops(n) == Popped(n) /\ tail[n] # <<>> /\ work' = [work EXCEPT ![n] = Idle]
           Ingests(n) == /\ UNCHANGED tail /\ tail[n] # <<>>
                         /\ \E w : work' = [work EXCEPT ![n] = w]
           Keeps == UNCHANGED <<tail, work>>
<1>0. /\ \A n \in Nodes : work[n].at # "idle" => tail[n] # <<>>
      /\ work = [n \in Nodes |-> work[n]]
      /\ log \in Seq(Events) /\ log' \in Seq(Events)
  BY LogTypedNext DEF TypeOK, RequestsTyped, RuntimesTyped, LogTyped
<1>1. Expire => Keeps
  BY DEF Expire, nodes
<1>2. ASSUME NEW n \in Nodes, \/ Claim(n) \/ LoseHandle(n) \/ RenewError(n) \/ Submit(n) \/ End(n)
      PROVE  Keeps
  BY <1>2 DEF Claim, LoseHandle, RenewError, Submit, End, Finalize, EndSession
<1>3. ASSUME NEW n \in Nodes, Crash(n) \/ Close(n) PROVE Clears(n)
  BY <1>3 DEF Crash, Close, Forget
<1>4. ASSUME NEW n \in Nodes, NEW heard \in BOOLEAN, CommitInput(n, heard)
      PROVE  Extends(n) \/ Keeps
  <2> DEFINE e == Ev("INPUT", chan[n].seq, chan[n].token)
  <2>1. \/ Keeps
        \/ /\ tail' = [tail EXCEPT ![n] = Append(@, Len(log) + 1)] /\ UNCHANGED work
           /\ log' = Append(log, e)
    BY <1>4 DEF CommitInput
  <2> HIDE DEF e
  <2>2. log' = Append(log, e) => Len(log) + 1 \in 0..Len(log')
    BY <1>0
  <2>3. QED
    BY <2>1, <2>2
<1>5. ASSUME NEW n \in Nodes, RunCompletes(n) PROVE Extends(n)
  <2>1. Len(log') \in 0..Len(log')
    BY <1>0
  <2>2. QED
    BY <1>5, <2>1 DEF RunCompletes
<1>6. ASSUME NEW n \in Nodes, CommitCheckpoint(n) \/ CommitFails(n)
      PROVE  Pops(n)
  BY <1>0, <1>6 DEF CommitCheckpoint, CommitFails
<1>7. ASSUME NEW n \in Nodes, Drop(n) PROVE Pops(n)
  <2>1. Popped(n) /\ tail[n] # <<>> /\ work' = work /\ work[n] = Idle
    BY <1>7 DEF Drop, Dispatching
  <2>2. QED
    BY <1>0, <2>1
<1>8. ASSUME NEW n \in Nodes, ReadHistory(n) \/ Begin(n)
      PROVE  Ingests(n)
  BY <1>8 DEF ReadHistory, Begin, Dispatching
<1>9. ASSUME NEW n \in Nodes, Install(n) PROVE Ingests(n) \/ Pops(n)
  <2>1. tail[n] # <<>>
    BY <1>0, <1>9 DEF Install
  <2>2. CASE Verified(n)
    <3>1. PICK stage \in States :
            /\ work' = [work EXCEPT ![n].at = "ingest", ![n].token = work[n].token,
                                    ![n].stage = stage]
            /\ tail' = tail
      BY <1>9, <2>2 DEF Install, GoesLive
    <3>2. work' = [work EXCEPT ![n] = [work[n] EXCEPT !.at = "ingest",
                                         !.token = work[n].token, !.stage = stage]]
      BY <1>0, <3>1
    <3>3. QED
      BY <2>1, <3>1, <3>2
  <2>3. CASE ~Verified(n)
    BY <1>9, <2>1, <2>3 DEF Install, GiveUp
  <2>4. QED
    BY <2>2, <2>3
<1>10. ASSUME NEW n \in Nodes, StartCheckpoint(n) PROVE Ingests(n) \/ Pops(n)
  <2>1. tail[n] # <<>>
    BY <1>0, <1>10 DEF StartCheckpoint
  <2>2. CASE Verified(n)
    BY <1>10, <2>1, <2>2 DEF StartCheckpoint
  <2>3. CASE ~Verified(n)
    BY <1>10, <2>1, <2>3 DEF StartCheckpoint, GiveUp
  <2>4. QED
    BY <2>2, <2>3
<1>11. ASSUME NEW n \in Nodes, NEW to \in States, StartTransition(n, to) PROVE Ingests(n)
  BY <1>0, <1>11 DEF StartTransition
<1>12. ASSUME NEW n \in Nodes, CommitTransition(n) PROVE Ingests(n) \/ Pops(n)
  <2>1. tail[n] # <<>>
    BY <1>0, <1>12 DEF CommitTransition
  <2>2. CASE TransitionAccepted(n)
    BY <1>12, <2>1, <2>2 DEF CommitTransition
  <2>3. CASE ~TransitionAccepted(n)
    BY <1>12, <2>1, <2>3 DEF CommitTransition
  <2>4. QED
    BY <2>2, <2>3
<1>13. ASSUME NEW n \in Nodes, VoiceReady(n) PROVE Slips(n)
  BY <1>13 DEF VoiceReady
<1>14. UNCHANGED vars => Keeps
  BY DEF vars, nodes
<1> HIDE DEF Clears, Extends, Slips, Pops, Ingests, Keeps
<1>15. Keeps \/ \E n \in Nodes : Clears(n) \/ Extends(n) \/ Slips(n) \/ Pops(n) \/ Ingests(n)
  BY <1>1, <1>2, <1>3, <1>4, <1>5, <1>6, <1>7, <1>8, <1>9, <1>10, <1>11, <1>12, <1>13, <1>14
     DEF Next, Lease, Client, Ingest, Keeps
<1>16. QED
  BY <1>15 DEF Clears, Extends, Slips, Pops, Ingests, Keeps

\* So a dispatcher that works has an event to complete.
LEMMA RequestsTypedNext == ASSUME TypeOK, [Next]_vars PROVE RequestsTyped'
<1> DEFINE Dispatched == /\ tail' \in [Nodes -> Seq(Nat)]
                         /\ \A n \in Nodes : work'[n].at # "idle" => tail'[n] # <<>>
           Called == /\ chan' \in [Nodes -> [seq : Nat, token : 0..minted']]
                     /\ ending' \in [Nodes -> Nat \cup {NotEnding}]
<1>0. /\ tail \in [Nodes -> Seq(Nat)]
      /\ \A n \in Nodes : work[n].at # "idle" => tail[n] # <<>>
      /\ DOMAIN work = Nodes
      /\ log' \in Seq(Events)
  BY LogTypedNext DEF TypeOK, RequestsTyped, RuntimesTyped, LogTyped
<1>1. Dispatched
  <2>1. CASE UNCHANGED <<tail, work>>
    BY <1>0, <2>1
  <2>2. ASSUME NEW n \in Nodes,
               tail' = [tail EXCEPT ![n] = <<>>], work' = [work EXCEPT ![n] = Idle]
        PROVE  Dispatched
    BY <1>0, <2>2 DEF Idle
  <2>3. ASSUME NEW n \in Nodes, NEW p \in 0..Len(log'),
               tail' = [tail EXCEPT ![n] = Append(@, p)], UNCHANGED work
        PROVE  Dispatched
    <3>1. p \in Nat
      BY <1>0
    <3>2. tail[n] \in Seq(Nat)
      BY <1>0
    <3>3. Append(tail[n], p) \in Seq(Nat) /\ Append(tail[n], p) # <<>>
      BY <3>1, <3>2
    <3>4. QED
      BY <1>0, <2>3, <3>3
  <2>4. ASSUME NEW n \in Nodes,
               Popped(n), tail[n] # <<>>, work' = [work EXCEPT ![n] = Idle]
        PROVE  Dispatched
    <3>1. Tail(tail[n]) \in Seq(Nat)
      BY <1>0, <2>4
    <3>2. QED
      BY <1>0, <2>4, <3>1 DEF Popped, Idle
  <2>5. ASSUME NEW n \in Nodes, NEW w,
               UNCHANGED tail, tail[n] # <<>>, work' = [work EXCEPT ![n] = w]
        PROVE  Dispatched
    BY <1>0, <2>5
  <2>6. ASSUME NEW n \in Nodes, NEW k \in 0..Len(tail[n]),
               tail' = [tail EXCEPT ![n] = Slipped(@, k)], UNCHANGED work
        PROVE  Dispatched
    <3>1. tail[n] \in Seq(Nat)
      BY <1>0
    <3>2. Slipped(tail[n], k) \in Seq(Nat) /\ Slipped(tail[n], k) # <<>>
      BY <3>1, SlippedIn
    <3>3. QED
      BY <1>0, <2>6, <3>2
  <2>7. QED
    BY <2>1, <2>2, <2>3, <2>4, <2>5, <2>6, TailSteps
<1>2. Called
  <2>1. /\ chan \in [Nodes -> [seq : Nat, token : 0..minted]]
        /\ ending \in [Nodes -> Nat \cup {NotEnding}]
        /\ held \in [Nodes -> 0..minted] /\ acked \in Nat
        /\ minted \in Nat /\ minted' \in Nat /\ minted <= minted'
    BY LeaseTypedNext DEF TypeOK, RequestsTyped, LeaseTyped, BoundsTyped
  <2>2. chan \in [Nodes -> [seq : Nat, token : 0..minted']]
    BY <2>1
  <2>3. CASE UNCHANGED <<chan, ending>>
    BY <2>1, <2>2, <2>3
  <2>4. ASSUME NEW n \in Nodes, chan' = [chan EXCEPT ![n] = NoCall],
               ending' \in {ending, [ending EXCEPT ![n] = NotEnding]}
        PROVE  Called
    BY <2>1, <2>2, <2>4 DEF NoCall
  <2>5. ASSUME NEW n \in Nodes, Submit(n) PROVE Called
    BY <2>1, <2>2, <2>5 DEF Submit
  <2>6. ASSUME NEW n \in Nodes, NEW expected \in 0..MaxInputs, Finalize(n, expected) PROVE Called
    BY <2>1, <2>2, <2>6 DEF Finalize
  <2>7. ASSUME NEW n \in Nodes, UNCHANGED chan, ending' = [ending EXCEPT ![n] = NotEnding]
        PROVE  Called
    BY <2>1, <2>2, <2>7
  <2>8. QED
    BY <2>3, <2>4, <2>5, <2>6, <2>7, RequestsSteps
<1>3. QED
  BY <1>1, <1>2 DEF RequestsTyped

\* Every step keeps the parts of the type invariant.
LEMMA NextTyped == TypeOK /\ [Next]_vars => TypeOK'
<1> SUFFICES ASSUME TypeOK, [Next]_vars PROVE TypeOK'
  OBVIOUS
<1>1. RuntimesTyped'
  BY RtTypedNext, WorkTypedNext DEF RuntimesTyped, Live, Works
<1>2. QED
  BY <1>1, LogTypedNext, LeaseTypedNext, RequestsTypedNext, BoundsTypedNext DEF TypeOK

\* The type invariant holds in every reachable state.
THEOREM Typed == Spec => []TypeOK
BY InitTyped, NextTyped, PTL DEF Spec

-----------------------------------------------------------------------------
(* What a dispatcher has under way. *)

\* A pending write is the one its dispatcher prepared, under its own lease.
FitsWork(w) ==
  /\ w.at = "transition" =>
       /\ w.ev = TransitionEv(w.ev.from, w.ev.to, w.token)
       /\ IsTransitionAllowed(w.ev.from, w.ev.to)
  /\ w.at = "checkpoint" => w.ev = Ev("RUNTIME_CHECKPOINT", w.ev.ref, w.token)

WorkFits == \A n \in Nodes : FitsWork(work[n])

\* The history w has read for the event at the head of n's tail: all of it, or
\* what comes before that event.
Restored(n, w) ==
  /\ ~w.cut => w.upto = Len(log)
  /\ w.cut => tail[n] # <<>> /\ Head(tail[n]) # Started /\ w.upto = Head(tail[n]) - 1

\* A step changes the work of one dispatcher at most, and what it then has
\* under way was prepared by that very step.
LEMMA WorkChanges ==
  ASSUME TypeOK, [Next]_vars
  PROVE  \/ UNCHANGED work
         \/ \E n \in Nodes :
              /\ \A m \in Nodes \ {n} : work'[m] = work[m]
              /\ FitsWork(work'[n])
              /\ work'[n].at = "load" =>
                   UNCHANGED log /\ Restored(n, work'[n])
              /\ work'[n].at = "checkpoint" =>
                   /\ tail[n] # <<>> /\ work'[n].ev.ref = Head(tail[n])
                   /\ UNCHANGED log
<1> DEFINE Sets(n, w) == work' = [work EXCEPT ![n] = w]
           Good(n, w) == /\ FitsWork(w)
                         /\ w.at = "load" => UNCHANGED log /\ Restored(n, w)
                         /\ w.at = "checkpoint" =>
                              /\ tail[n] # <<>> /\ w.ev.ref = Head(tail[n])
                              /\ UNCHANGED log
<1>1. work = [n \in Nodes |-> work[n]]
  BY DEF TypeOK, RuntimesTyped
<1> HIDE DEF Good
<1>2. ASSUME NEW n, NEW w, w.at \in {"idle", "ingest"} PROVE Good(n, w)
  BY <1>2 DEF Good, FitsWork
<1>3. ASSUME NEW n \in Nodes, Sets(n, Idle) PROVE \E w : Sets(n, w) /\ Good(n, w)
  <2>1. Good(n, Idle)
    BY DEF Good, FitsWork, Idle
  <2>2. QED
    BY <1>3, <2>1
<1>4. ASSUME NEW n \in Nodes, ReadHistory(n) PROVE \E w : Sets(n, w) /\ Good(n, w)
  <2> DEFINE w == [Idle EXCEPT !.at = "load", !.token = held[n],
                     !.cut = Head(tail[n]) # Started,
                     !.upto = IF Head(tail[n]) = Started THEN Len(log) ELSE Head(tail[n]) - 1]
  <2>1. Sets(n, w) /\ UNCHANGED log
    BY <1>4 DEF ReadHistory, db
  <2>2. w.at = "load" /\ Restored(n, w)
    BY <1>4 DEF Idle, Restored, Started, ReadHistory, Dispatching
  <2> HIDE DEF w
  <2>3. QED
    BY <2>1, <2>2 DEF Good, FitsWork
<1>5. ASSUME NEW n \in Nodes, Begin(n) PROVE \E w : Sets(n, w) /\ Good(n, w)
  <2> DEFINE w == [Idle EXCEPT !.at = "ingest", !.upto = rt[n].upto,
                               !.token = rt[n].token, !.stage = rt[n].stage]
  <2>1. Sets(n, w)
    BY <1>5 DEF Begin
  <2>2. w.at = "ingest"
    BY DEF Idle
  <2> HIDE DEF w
  <2>3. Good(n, w)
    BY <1>2, <2>2
  <2>4. QED
    BY <2>1, <2>3
<1>6. ASSUME NEW n \in Nodes, Install(n) PROVE \E w : Sets(n, w) /\ Good(n, w)
  <2>1. CASE Verified(n)
    <3>1. PICK stage \in States :
            work' = [work EXCEPT ![n].at = "ingest", ![n].token = work[n].token,
                                 ![n].stage = stage]
      BY <1>6, <2>1 DEF Install, GoesLive
    <3> DEFINE w == [work[n] EXCEPT !.at = "ingest", !.token = work[n].token,
                                    !.stage = stage]
    <3>2. Sets(n, w)
      BY <1>1, <3>1
    <3>3. w.at = "ingest"
      BY DEF TypeOK, RuntimesTyped
    <3> HIDE DEF w
    <3>4. Good(n, w)
      BY <1>2, <3>3
    <3>5. QED
      BY <3>2, <3>4
  <2>2. CASE ~Verified(n)
    BY <1>3, <1>6, <2>2 DEF Install, GiveUp
  <2>3. QED
    BY <2>1, <2>2
<1>7. ASSUME NEW n \in Nodes, NEW to \in States, StartTransition(n, to)
      PROVE  \E w : Sets(n, w) /\ Good(n, w)
  <2> DEFINE e == TransitionEv(work[n].stage, to, work[n].token)
             w == [work[n] EXCEPT !.at = "transition", !.stage = to, !.ev = e]
  <2>1. Sets(n, w) /\ IsTransitionAllowed(work[n].stage, to)
    BY <1>1, <1>7 DEF StartTransition
  <2>2. w.at = "transition" /\ w.ev = e /\ w.token = work[n].token
    BY DEF TypeOK, RuntimesTyped
  <2>3. e.from = work[n].stage /\ e.to = to
    BY DEF TransitionEv
  <2>4. Good(n, w)
    BY <2>1, <2>2, <2>3 DEF Good, FitsWork
  <2>5. QED
    BY <2>1, <2>4
<1>8. ASSUME NEW n \in Nodes, StartCheckpoint(n) PROVE \E w : Sets(n, w) /\ Good(n, w)
  <2> DEFINE e == Ev("RUNTIME_CHECKPOINT", Head(tail[n]), work[n].token)
             w == [work[n] EXCEPT !.at = "checkpoint", !.ev = e]
  <2>1. Sets(n, w) \/ Sets(n, Idle)
    BY <1>1, <1>8 DEF StartCheckpoint, GiveUp
  <2>2. w.at = "checkpoint" /\ w.ev = e /\ w.token = work[n].token
    BY DEF TypeOK, RuntimesTyped
  <2>3. e = Ev("RUNTIME_CHECKPOINT", e.ref, work[n].token) /\ e.ref = Head(tail[n])
    BY DEF Ev
  <2>4. tail[n] # <<>> /\ UNCHANGED log
    BY <1>8 DEF StartCheckpoint, TypeOK, RequestsTyped, db
  <2>5. Good(n, w)
    BY <2>2, <2>3, <2>4 DEF Good, FitsWork
  <2> HIDE DEF w
  <2>6. QED
    BY <1>3, <2>1, <2>5
<1>9. ASSUME NEW n \in Nodes, CommitTransition(n) PROVE \E w : Sets(n, w) /\ Good(n, w)
  <2> DEFINE w == [work[n] EXCEPT !.at = "ingest", !.ev = NoEvent]
  <2>1. Sets(n, w) \/ Sets(n, Idle)
    BY <1>1, <1>9 DEF CommitTransition
  <2>2. w.at = "ingest"
    BY DEF TypeOK, RuntimesTyped
  <2> HIDE DEF w
  <2>3. QED
    BY <1>2, <1>3, <2>1, <2>2
<1>10. UNCHANGED work \/ \E n \in Nodes : \E w : Sets(n, w) /\ Good(n, w)
  BY <1>3, <1>4, <1>5, <1>6, <1>7, <1>8, <1>9, WorkSteps
<1>11. \A n \in Nodes : \A w :
         Sets(n, w) => work'[n] = w /\ \A m \in Nodes \ {n} : work'[m] = work[m]
  BY <1>1
<1>12. ASSUME NEW n \in Nodes, NEW w, Sets(n, w), Good(n, w)
       PROVE  /\ \A m \in Nodes \ {n} : work'[m] = work[m]
              /\ Good(n, work'[n])
  BY <1>11, <1>12
<1>13. ASSUME NEW n \in Nodes, NEW w, Sets(n, w), Good(n, w)
       PROVE  \E m \in Nodes : /\ \A k \in Nodes \ {m} : work'[k] = work[k]
                               /\ Good(m, work'[m])
  BY <1>12, <1>13
<1> DEFINE Changed == \E n \in Nodes : /\ \A m \in Nodes \ {n} : work'[m] = work[m]
                                       /\ Good(n, work'[n])
<1>14. UNCHANGED work \/ Changed
  <2> HIDE DEF Sets
  <2>1. QED
    BY <1>10, <1>13
<1>15. QED
  BY <1>14 DEF Good

\* Preparing a write is the only way to have one under way.
LEMMA WorkFitsNext == ASSUME TypeOK, WorkFits, [Next]_vars PROVE WorkFits'
BY WorkChanges DEF WorkFits

\* No write is under way at first.
LEMMA WorkFitsInit == Init => WorkFits
BY DEF Init, WorkFits, FitsWork, Idle

\* An append in terms of positions.
LEMMA AppendFacts ==
  ASSUME TypeOK, NEW e \in Events, log' = Append(log, e)
  PROVE  /\ Len(log) \in Nat /\ DOMAIN log = 1..Len(log) /\ DOMAIN log' = 1..(Len(log) + 1)
         /\ \A i \in DOMAIN log : log'[i] = log[i]
         /\ log'[Len(log) + 1] = e
         /\ Len(log') = Len(log) + 1
BY DEF TypeOK, LogTyped

-----------------------------------------------------------------------------
(* What a step may write. *)

\* An input, a run result or a checkpoint, while the session is open.
Adds(e) ==
  /\ e \in Events /\ e.type \notin {"STATE_TRANSITIONED", "SESSION_ENDED"}
  /\ e.token # 0 => Owns(e.token)
  /\ ~row.ended /\ log' = Append(log, e) /\ row' = row

\* A stage change: the row and the log move together.
Moves(e) ==
  /\ e = TransitionEv(e.from, e.to, e.token) /\ e \in Events
  /\ Owns(e.token) /\ IsTransitionAllowed(e.from, e.to) /\ row.state = e.from
  /\ row' = [row EXCEPT !.state = e.to] /\ log' = Appended(e)

\* The end of the session.
Seals ==
  /\ row' = [state |-> "EVALUATION", ended |-> TRUE]
  /\ log' = Appended(Ev("SESSION_ENDED", 0, 0))

\* Nothing else is ever written.
LEMMA LogWrites ==
  ASSUME TypeOK, WorkFits, [Next]_vars
  PROVE  UNCHANGED <<log, row>> \/ (\E e : Adds(e) \/ Moves(e)) \/ Seals
<1>1. ASSUME NEW n \in Nodes, NEW heard \in BOOLEAN, CommitInput(n, heard)
      PROVE  UNCHANGED <<log, row>> \/ \E e : Adds(e)
  <2> DEFINE e == Ev("INPUT", chan[n].seq, chan[n].token)
  <2>1. e \in Events /\ e.type = "INPUT" /\ e.token = chan[n].token
    BY EventsAreTyped DEF TypeOK, RequestsTyped, LeaseTyped, Types, Ev
  <2>2. UNCHANGED row /\ (UNCHANGED log \/ (log' = Append(log, e) /\ Owns(chan[n].token)))
    BY <1>1 DEF CommitInput
  <2>3. Owns(chan[n].token) => ~row.ended
    BY DEF Owns
  <2> HIDE DEF e
  <2>4. QED
    BY <2>1, <2>2, <2>3 DEF Adds
<1>2. ASSUME NEW n \in Nodes, RunCompletes(n)
      PROVE  UNCHANGED <<log, row>> \/ \E e : Adds(e)
  <2> DEFINE e == Ev("RUN_COMPLETED", left.others, 0)
  <2>1. e \in Events /\ e.type = "RUN_COMPLETED" /\ e.token = 0
    BY EventsAreTyped DEF TypeOK, BoundsTyped, Types, Ev
  <2>2. UNCHANGED row /\ (UNCHANGED log \/ (log' = Append(log, e) /\ ~row.ended))
    BY <1>2 DEF RunCompletes, Appended
  <2> HIDE DEF e
  <2>3. QED
    BY <2>1, <2>2 DEF Adds
<1>3. ASSUME NEW n \in Nodes, CommitTransition(n)
      PROVE  UNCHANGED <<log, row>> \/ \E e : Moves(e)
  <2>1. CASE TransitionAccepted(n)
    <3>1. /\ work[n].ev \in Events /\ Owns(work[n].token) /\ row.state = work[n].ev.from
          /\ row' = [row EXCEPT !.state = work[n].ev.to] /\ log' = Appended(work[n].ev)
          /\ work[n].at = "transition"
      BY <1>3, <2>1 DEF CommitTransition, TransitionAccepted, TypeOK, RuntimesTyped
    <3>2. /\ work[n].ev = TransitionEv(work[n].ev.from, work[n].ev.to, work[n].token)
          /\ IsTransitionAllowed(work[n].ev.from, work[n].ev.to)
      BY <3>1 DEF WorkFits, FitsWork
    <3>3. work[n].ev.token = work[n].token
      BY <3>2 DEF TransitionEv
    <3>4. QED
      BY <3>1, <3>2, <3>3 DEF Moves
  <2>2. CASE ~TransitionAccepted(n)
    BY <1>3, <2>2 DEF CommitTransition
  <2>3. QED
    BY <2>1, <2>2
<1>4. ASSUME NEW n \in Nodes, CommitCheckpoint(n)
      PROVE  UNCHANGED <<log, row>> \/ \E e : Adds(e)
  <2>1. /\ work[n].at = "checkpoint" /\ row' = row /\ work[n].ev \in Events
        /\ UNCHANGED log \/ (log' = Append(log, work[n].ev) /\ Owns(work[n].token))
    BY <1>4 DEF CommitCheckpoint, TypeOK, RuntimesTyped
  <2>2. work[n].ev = Ev("RUNTIME_CHECKPOINT", work[n].ev.ref, work[n].token)
    BY <2>1 DEF WorkFits, FitsWork
  <2>3. work[n].ev.type = "RUNTIME_CHECKPOINT" /\ work[n].ev.token = work[n].token
    BY <2>2 DEF Ev
  <2>4. Owns(work[n].token) => ~row.ended
    BY DEF Owns
  <2>5. QED
    BY <2>1, <2>3, <2>4 DEF Adds
<1>5. ASSUME NEW n \in Nodes, EndSession(n)
      PROVE  UNCHANGED <<log, row>> \/ Seals
  BY <1>5 DEF EndSession, Seals
<1>6. QED
  BY <1>1, <1>2, <1>3, <1>4, <1>5, LogSteps

\* So the log grows by one event at a time, and an event with a token is
\* written by the holder of the lease.
LEMMA LogGrows ==
  ASSUME TypeOK, NEW e, Adds(e) \/ Moves(e) \/ (Seals /\ e = Ev("SESSION_ENDED", 0, 0))
  PROVE  /\ UNCHANGED log \/ log' = Append(log, e)
         /\ e \in Events /\ (e.token # 0 => Owns(e.token))
<1>1. e = Ev("SESSION_ENDED", 0, 0) => e \in Events /\ e.token = 0
  BY EventsAreTyped DEF Types, Ev
<1>2. QED
  BY <1>1 DEF Adds, Moves, Seals, Appended

-----------------------------------------------------------------------------
(* One writer after another.  The live lease has the newest token, so what *)
(* is written under it comes after everything written under another one.   *)

\* The last lease has the newest token, and no event has a newer one.
TurnInv ==
  /\ OwnersInTurn
  /\ \A i \in DOMAIN log : log[i].token <= minted
  /\ owner.token # 0 => owner.token = minted

\* No step breaks the order of the tokens.
LEMMA TurnNext == ASSUME TypeOK, WorkFits, TurnInv, [Next]_vars PROVE TurnInv'
<1>a. owner.token \in Nat /\ minted \in Nat /\ minted' \in Nat /\ minted <= minted'
  BY LeaseTypedNext DEF TypeOK, LeaseTyped
<1>b. \A i \in DOMAIN log : log[i].token \in Nat
  <2>1. \A i \in DOMAIN log : log[i] \in Events
    BY DEF TypeOK, LogTyped
  <2>2. QED
    BY <2>1 DEF Events
<1>1. owner'.token # 0 => owner'.token = minted'
  <2>1. CASE UNCHANGED <<held, owner, minted>>
    BY <2>1 DEF TurnInv
  <2>2. CASE owner' = [owner EXCEPT !.live = FALSE] /\ UNCHANGED <<held, minted>>
    BY <2>2 DEF TypeOK, LeaseTyped, TurnInv
  <2>3. ASSUME NEW n \in Nodes, Claim(n) PROVE owner'.token # 0 => owner'.token = minted'
    BY <2>3 DEF Claim
  <2>4. ASSUME NEW n \in Nodes, Close(n) PROVE owner'.token # 0 => owner'.token = minted'
    BY <2>4 DEF Close, TurnInv
  <2>5. ASSUME NEW n \in Nodes, UNCHANGED <<owner, minted>>
        PROVE  owner'.token # 0 => owner'.token = minted'
    BY <2>5 DEF TurnInv
  <2>6. QED
    BY <2>1, <2>2, <2>3, <2>4, <2>5, LeaseSteps
<1>2. CASE UNCHANGED log
  BY <1>a, <1>b, <1>1, <1>2 DEF TurnInv, OwnersInTurn
<1>3. ASSUME NEW e \in Events, log' = Append(log, e), e.token # 0 => Owns(e.token)
      PROVE  TurnInv'
  <2>1. e.token \in Nat /\ (e.token # 0 => e.token = minted)
    BY <1>3 DEF Owns, TurnInv, Events
  <2>2. \A i \in DOMAIN log' : log'[i].token <= minted'
    BY <1>a, <1>b, <1>3, <2>1, AppendFacts DEF TurnInv
  <2>3. OwnersInTurn'
    BY <1>a, <1>b, <1>3, <2>1, AppendFacts DEF TurnInv, OwnersInTurn
  <2>4. QED
    BY <1>1, <2>2, <2>3 DEF TurnInv
<1>4. QED
  BY <1>2, <1>3, LogWrites, LogGrows

\* It holds of the empty log.
LEMMA TurnInit == Init => TurnInv
BY DEF Init, TurnInv, OwnersInTurn

-----------------------------------------------------------------------------
(* The seal.  A second end finds the first one by its key.                 *)

\* The events that end a session share one key.
SealInv ==
  /\ SealIsFinal
  /\ \A i \in DOMAIN log :
       log[i].type = "SESSION_ENDED" => SameKey(log[i], Ev("SESSION_ENDED", 0, 0))

\* No step writes after the end.
LEMMA SealNext == ASSUME TypeOK, WorkFits, SealInv, [Next]_vars PROVE SealInv'
<1>0. row \in [state : States, ended : BOOLEAN]
  BY DEF TypeOK, LogTyped
<1>1. CASE UNCHANGED <<log, row>>
  BY <1>1 DEF SealInv, SealIsFinal, SameKey
<1>2. ASSUME NEW e \in Events, e.type # "SESSION_ENDED", ~row.ended, row'.ended = row.ended,
             log' = Append(log, e)
      PROVE  SealInv'
  BY <1>2, AppendFacts DEF SealInv, SealIsFinal, SameKey
<1>3. ASSUME NEW e, Adds(e) PROVE SealInv'
  BY <1>2, <1>3 DEF Adds
<1>4. ASSUME NEW e, Moves(e) PROVE SealInv'
  <2>1. e.type = "STATE_TRANSITIONED" /\ e \in Events /\ ~row.ended /\ row'.ended = row.ended
    BY <1>0, <1>4 DEF Moves, Owns, TransitionEv
  <2>2. CASE log' = Append(log, e)
    BY <1>2, <2>1, <2>2
  <2>3. CASE log' = log
    BY <2>1, <2>3 DEF SealInv, SealIsFinal, SameKey
  <2>4. QED
    BY <1>4, <2>2, <2>3 DEF Moves, Appended
<1>5. CASE Seals
  <2> DEFINE e == Ev("SESSION_ENDED", 0, 0)
  <2>1. e \in Events /\ e.type = "SESSION_ENDED" /\ SameKey(e, e)
    BY EventsAreTyped DEF Types, Ev, SameKey
  <2>2. row'.ended
    BY <1>5 DEF Seals
  <2>3. CASE row.ended
    <3>1. Recorded(e)
      BY <2>3 DEF SealInv, SealIsFinal, Recorded
    <3>2. log' = log
      BY <1>5, <3>1 DEF Seals, Appended
    <3>3. QED
      BY <2>2, <2>3, <3>2 DEF SealInv, SealIsFinal, SameKey
  <2>4. CASE ~row.ended
    <3>1. \A i \in DOMAIN log : log[i].type # "SESSION_ENDED"
      BY <2>4 DEF SealInv, SealIsFinal
    <3>2. ~Recorded(e)
      BY <2>1, <3>1 DEF Recorded, SameKey
    <3>3. log' = Append(log, e)
      BY <1>5, <3>2 DEF Seals, Appended
    <3> HIDE DEF e
    <3>4. SealIsFinal'
      BY <2>1, <2>2, <3>1, <3>3, AppendFacts DEF SealIsFinal
    <3>5. \A i \in DOMAIN log' : log'[i].type = "SESSION_ENDED" => SameKey(log'[i], e)
      BY <2>1, <3>1, <3>3, AppendFacts
    <3>6. QED
      BY <3>4, <3>5 DEF SealInv, e
  <2>5. QED
    BY <1>0, <2>3, <2>4
<1>6. QED
  BY <1>1, <1>3, <1>4, <1>5, LogWrites

\* An open session has no end in its log.
LEMMA SealInit == Init => SealInv
BY DEF Init, SealInv, SealIsFinal

-----------------------------------------------------------------------------
(* Acknowledgements. *)

\* Only the commit of an input acknowledges one.
LEMMA AckedSteps ==
  ASSUME [Next]_vars
  PROVE  UNCHANGED acked \/ \E n \in Nodes, heard \in BOOLEAN : CommitInput(n, heard)
<1>1. Expire => UNCHANGED acked
  BY DEF Expire
<1>2. ASSUME NEW n \in Nodes, Lease(n) PROVE UNCHANGED acked
  BY <1>2 DEF Lease, Claim, LoseHandle, RenewError, Crash, Close
<1>3. ASSUME NEW n \in Nodes, Submit(n) \/ RunCompletes(n) \/ VoiceReady(n) \/ End(n)
      PROVE  UNCHANGED acked
  BY <1>3 DEF Submit, RunCompletes, VoiceReady, End, Finalize, EndSession
<1>4. ASSUME NEW n \in Nodes, Ingest(n) PROVE UNCHANGED acked
  BY <1>4 DEF Ingest, Drop, ReadHistory, Install, Begin, StartTransition, StartCheckpoint,
     CommitTransition, CommitCheckpoint, CommitFails
<1>5. QED
  BY <1>1, <1>2, <1>3, <1>4 DEF Next, Client, vars

\* The input with client sequence c is in the log l.
Stored(l, c) == \E i \in DOMAIN l : l[i].type = "INPUT" /\ l[i].ref = c

\* What is acknowledged is appended by the same transaction, or was before.
LEMMA AckedNext ==
  ASSUME TypeOK, WorkFits, AckedIsDurable, [Next]_vars PROVE AckedIsDurable'
<1>0. acked \in Nat
  BY DEF TypeOK, BoundsTyped
<1>1. \A c \in 0..(acked - 1) : Stored(log, c)
  BY DEF AckedIsDurable, Stored
<1>2. \A c : Stored(log, c) => Stored(log', c)
  <2>1. CASE UNCHANGED log
    BY <2>1 DEF Stored
  <2>2. ASSUME NEW e \in Events, log' = Append(log, e)
        PROVE  \A c : Stored(log, c) => Stored(log', c)
    <3>1. ASSUME NEW c, NEW i \in DOMAIN log, log[i].type = "INPUT", log[i].ref = c
          PROVE  i \in DOMAIN log' /\ log'[i].type = "INPUT" /\ log'[i].ref = c
      BY <2>2, <3>1, AppendFacts
    <3>2. QED
      BY <3>1 DEF Stored
  <2>3. QED
    BY <2>1, <2>2, LogWrites, LogGrows
<1>3. ASSUME NEW n \in Nodes, NEW heard \in BOOLEAN, CommitInput(n, heard)
      PROVE  acked' = acked \/ (acked' = acked + 1 /\ Stored(log', acked))
  <2> DEFINE e == Ev("INPUT", chan[n].seq, chan[n].token)
  <2>1. e \in Events /\ e.type = "INPUT" /\ e.ref = chan[n].seq
    BY EventsAreTyped DEF TypeOK, RequestsTyped, LeaseTyped, Types, Ev
  <2>2. CASE Recorded(e)
    <3>1. Stored(log, chan[n].seq)
      BY <2>1, <2>2 DEF Recorded, SameKey, Stored
    <3>2. QED
      BY <1>2, <1>3, <3>1 DEF CommitInput
  <2>3. CASE ~Recorded(e)
    <3>1. CASE Owns(chan[n].token)
      <4>1. log' = Append(log, e)
        BY <1>3, <2>3, <3>1 DEF CommitInput
      <4> HIDE DEF e
      <4>2. Stored(log', chan[n].seq)
        BY <2>1, <4>1, AppendFacts DEF Stored
      <4>3. QED
        BY <1>3, <4>2 DEF CommitInput
    <3>2. CASE ~Owns(chan[n].token)
      BY <1>3, <3>2 DEF CommitInput
    <3>3. QED
      BY <3>1, <3>2
  <2>4. QED
    BY <2>2, <2>3
<1>4. CASE acked' = acked
  BY <1>1, <1>2, <1>4 DEF AckedIsDurable, Stored
<1>5. CASE acked' = acked + 1 /\ Stored(log', acked)
  <2>1. \A c \in 0..acked : c = acked \/ c \in 0..(acked - 1)
    BY <1>0
  <2>2. \A c \in 0..acked : Stored(log', c)
    BY <1>1, <1>2, <1>5, <2>1
  <2>3. QED
    BY <1>0, <1>5, <2>2 DEF AckedIsDurable, Stored
<1>6. acked' = acked \/ (acked' = acked + 1 /\ Stored(log', acked))
  BY <1>3, AckedSteps
<1>7. QED
  BY <1>4, <1>5, <1>6

\* Nothing is acknowledged at first.
LEMMA AckedInit == Init => AckedIsDurable
BY DEF Init, AckedIsDurable

-----------------------------------------------------------------------------
(* The path of stages.  Every stage in the log is at or before the row's,  *)
(* so a stage the row may move to is not in the log yet: the target stage  *)
(* is a sound idempotency key.                                             *)

\* The stages in the order they are passed through.
Rank == [ORAL_PROBLEM_DELIVERY |-> 0, CLARIFICATION |-> 1, APPROACH_EXPLORATION |-> 2,
         IMPLEMENTATION |-> 3, TEST_AND_DEBUG |-> 4, FOLLOW_UP |-> 5, WRAP_UP |-> 6,
         EVALUATION |-> 7]

\* Every transition the contract allows leads to a later stage.
LEMMA RanksRise ==
  ASSUME NEW from \in States, NEW to \in States, IsTransitionAllowed(from, to)
  PROVE  Rank[from] \in Nat /\ Rank[to] \in Nat /\ Rank[from] < Rank[to]
BY DEF States, IsTransitionAllowed, AllowedTransitions, Rank

\* Ranks are numbers.
LEMMA RanksAreNumbers == \A s \in States : Rank[s] \in Nat
BY DEF States, Rank

\* How one more event changes the stage a restore ends in.
LEMMA RestoresNext ==
  ASSUME NEW l \in Seq(Events), NEW e \in Events
  PROVE  /\ \A s : Restores(l, s) /\ ~IsTransition(e) => Restores(Append(l, e), s)
         /\ IsTransition(e) => Restores(Append(l, e), e.to)
<1>1. /\ DOMAIN Append(l, e) = 1..(Len(l) + 1) /\ DOMAIN l = 1..Len(l) /\ Len(l) \in Nat
      /\ \A i \in DOMAIN l : Append(l, e)[i] = l[i]
      /\ Append(l, e)[Len(l) + 1] = e
  OBVIOUS
<1>2. ASSUME NEW s, Restores(l, s), ~IsTransition(e) PROVE Restores(Append(l, e), s)
  <2>1. CASE s = First /\ \A i \in DOMAIN l : ~IsTransition(l[i])
    BY <1>1, <1>2, <2>1 DEF Restores
  <2>2. ASSUME NEW i \in DOMAIN l, IsTransition(l[i]), l[i].to = s,
               \A j \in DOMAIN l : j > i => ~IsTransition(l[j])
        PROVE  Restores(Append(l, e), s)
    BY <1>1, <1>2, <2>2 DEF Restores
  <2>3. QED
    BY <1>2, <2>1, <2>2 DEF Restores
<1>3. IsTransition(e) => Restores(Append(l, e), e.to)
  BY <1>1 DEF Restores
<1>4. QED
  BY <1>2, <1>3

\* The prefixes of a log that has grown by one event.
LEMMA Prefixes ==
  ASSUME NEW l \in Seq(Events), NEW e \in Events
  PROVE  /\ \A j \in 1..Len(l) : SubSeq(Append(l, e), 1, j - 1) = SubSeq(l, 1, j - 1)
         /\ SubSeq(Append(l, e), 1, Len(l)) = l
<1>1. \A j \in 1..Len(l) : SubSeq(Append(l, e), 1, j - 1) = SubSeq(l, 1, j - 1)
  OBVIOUS
<1>2. SubSeq(Append(l, e), 1, Len(l)) = l
  OBVIOUS
<1>3. QED
  BY <1>1, <1>2

\* Each stage change in l leaves the stage the one before entered.
Path(l) ==
  \A j \in DOMAIN l : IsTransition(l[j]) =>
    IsTransitionAllowed(l[j].from, l[j].to) /\ Restores(SubSeq(l, 1, j - 1), l[j].from)

\* No stage change in l leads beyond this stage.
Behind(l, stage) ==
  \A i \in DOMAIN l : IsTransition(l[i]) => Rank[l[i].to] <= Rank[stage]

\* While the session is open, the path ends at the row.
PathInv ==
  Path(log) /\ (~row.ended => Restores(log, row.state) /\ Behind(log, row.state))

\* A path stays one when it is extended from its end.
LEMMA PathGrows ==
  ASSUME TypeOK, Path(log), NEW e \in Events, log' = Append(log, e),
         IsTransition(e) => IsTransitionAllowed(e.from, e.to) /\ Restores(log, e.from)
  PROVE  Path(log')
<1>1. log \in Seq(Events)
  BY DEF TypeOK, LogTyped
<1>2. ASSUME NEW j \in DOMAIN log', IsTransition(log'[j])
      PROVE  /\ IsTransitionAllowed(log'[j].from, log'[j].to)
             /\ Restores(SubSeq(log', 1, j - 1), log'[j].from)
  <2>1. CASE j \in DOMAIN log
    <3>1. log'[j] = log[j] /\ SubSeq(log', 1, j - 1) = SubSeq(log, 1, j - 1)
      BY <1>1, <2>1, AppendFacts, Prefixes
    <3>2. QED
      BY <1>2, <2>1, <3>1 DEF Path
  <2>2. CASE j = Len(log) + 1
    <3>1. log'[j] = e /\ SubSeq(log', 1, j - 1) = log
      BY <1>1, <2>2, AppendFacts, Prefixes
    <3>2. QED
      BY <1>2, <3>1
  <2>3. QED
    BY <2>1, <2>2, AppendFacts
<1>3. QED
  BY <1>2 DEF Path

\* No step leaves the path.
LEMMA PathNext == ASSUME TypeOK, WorkFits, PathInv, [Next]_vars PROVE PathInv'
<1>1. log \in Seq(Events) /\ row \in [state : States, ended : BOOLEAN]
  BY DEF TypeOK, LogTyped
<1>2. CASE UNCHANGED <<log, row>>
  BY <1>2 DEF PathInv, Path, Behind
<1>3. ASSUME NEW e, Adds(e) PROVE PathInv'
  <2>1. /\ e \in Events /\ log' = Append(log, e) /\ row' = row /\ ~row.ended
        /\ ~IsTransition(e)
    BY <1>3 DEF Adds, IsTransition
  <2>2. Path(log')
    BY <2>1, PathGrows DEF PathInv
  <2>3. Restores(log', row.state)
    BY <1>1, <2>1, RestoresNext DEF PathInv
  <2>4. Behind(log', row.state)
    BY <2>1, AppendFacts DEF PathInv, Behind
  <2>5. QED
    BY <2>1, <2>2, <2>3, <2>4 DEF PathInv
<1>4. ASSUME NEW e, Moves(e) PROVE PathInv'
  <2>1. /\ e \in Events /\ ~row.ended /\ row.state = e.from
        /\ IsTransitionAllowed(e.from, e.to)
        /\ row'.state = e.to /\ log' = Appended(e)
    BY <1>1, <1>4 DEF Moves, Owns
  <2>2. IsTransition(e) /\ e.from \in States /\ e.to \in States
    BY <1>4 DEF Moves, TransitionEv, IsTransition, Events
  <2>3. Rank[row.state] < Rank[e.to] /\ Rank[row.state] \in Nat /\ Rank[e.to] \in Nat
    BY <2>1, <2>2, RanksRise
  <2>4. \A i \in DOMAIN log : IsTransition(log[i]) => Rank[log[i].to] <= Rank[row.state]
    BY <2>1 DEF PathInv, Behind
  <2>5. \A i \in DOMAIN log : IsTransition(log[i]) => Rank[log[i].to] \in Nat
    <3>1. \A i \in DOMAIN log : log[i] \in Events
      BY <1>1
    <3>2. QED
      BY <3>1, RanksAreNumbers DEF Events
  <2>6. ~Recorded(e)
    <3>1. SUFFICES ASSUME NEW i \in DOMAIN log, SameKey(log[i], e) PROVE FALSE
      BY DEF Recorded
    <3>2. IsTransition(log[i]) /\ log[i].to = e.to
      BY <2>2, <3>1 DEF SameKey, IsTransition
    <3>3. QED
      BY <2>3, <2>4, <3>2
  <2>7. log' = Append(log, e)
    BY <2>1, <2>6 DEF Appended
  <2>8. Path(log')
    BY <2>1, <2>7, PathGrows DEF PathInv
  <2>9. Restores(log', row'.state)
    BY <1>1, <2>1, <2>2, <2>7, RestoresNext
  <2>10. Behind(log', row'.state)
    BY <2>1, <2>3, <2>4, <2>5, <2>7, AppendFacts DEF Behind
  <2>11. QED
    BY <2>8, <2>9, <2>10 DEF PathInv
<1>5. CASE Seals
  <2> DEFINE e == Ev("SESSION_ENDED", 0, 0)
  <2>1. e \in Events /\ ~IsTransition(e)
    BY EventsAreTyped DEF Types, Ev, IsTransition
  <2>2. row'.ended /\ log' \in {log, Append(log, e)}
    BY <1>5 DEF Seals, Appended
  <2> HIDE DEF e
  <2>3. CASE log' = log
    BY <2>2, <2>3 DEF PathInv
  <2>4. CASE log' = Append(log, e)
    BY <2>1, <2>2, <2>4, PathGrows DEF PathInv
  <2>5. QED
    BY <2>2, <2>3, <2>4
<1>6. QED
  BY <1>2, <1>3, <1>4, <1>5, LogWrites

\* The empty log is a path.
LEMMA PathInit == Init => PathInv
<1> SUFFICES ASSUME Init PROVE PathInv
  OBVIOUS
<1>1. log = <<>> /\ row.state = First
  BY DEF Init
<1>2. QED
  BY <1>1 DEF PathInv, Path, Behind, Restores

-----------------------------------------------------------------------------
(* Inputs.  A checkpoint names a position the log had already reached, so   *)
(* an input that is appended is never completed beforehand.                 *)

\* Position q of l is the checkpoint that completes the input at p.
Completes(l, q, p) == l[q].type = "RUNTIME_CHECKPOINT" /\ l[q].ref = p

\* The inputs in l that no checkpoint completes.
Unresolved(l) ==
  {p \in DOMAIN l : l[p].type = "INPUT" /\ \A q \in DOMAIN l : ~Completes(l, q, p)}

\* The list of inputs, and what keeps a checkpoint behind the end of the log.
AccountInv ==
  /\ inputs = Unresolved(log)
  /\ \A q \in DOMAIN log : log[q].type = "RUNTIME_CHECKPOINT" => log[q].ref <= Len(log)
  /\ \A n \in Nodes : \A i \in DOMAIN tail[n] : tail[n][i] <= Len(log)
  /\ \A n \in Nodes : work[n].at = "checkpoint" => work[n].ev.ref <= Len(log)

\* What an append does to the unresolved inputs.
LEMMA UnresolvedNext ==
  ASSUME TypeOK, AccountInv, NEW e \in Events, log' = Append(log, e)
  PROVE  /\ e.type = "INPUT" => Unresolved(log') = Unresolved(log) \cup {Len(log) + 1}
         /\ e.type = "RUNTIME_CHECKPOINT" => Unresolved(log') = Unresolved(log) \ {e.ref}
         /\ e.type \notin {"INPUT", "RUNTIME_CHECKPOINT"} =>
              Unresolved(log') = Unresolved(log)
<1>1. /\ Len(log) \in Nat /\ DOMAIN log = 1..Len(log)
      /\ DOMAIN log' = DOMAIN log \cup {Len(log) + 1}
      /\ \A i \in DOMAIN log : log'[i] = log[i]
      /\ log'[Len(log) + 1] = e
  BY AppendFacts
<1>2. \A q \in DOMAIN log : ~Completes(log, q, Len(log) + 1)
  <2>1. \A q \in DOMAIN log : log[q] \in Events
    BY DEF TypeOK, LogTyped
  <2>2. \A q \in DOMAIN log : log[q].ref \in Nat
    BY <2>1 DEF Events
  <2>3. QED
    BY <1>1, <2>2 DEF AccountInv, Completes
<1>3. \A p : \A q \in DOMAIN log : Completes(log', q, p) <=> Completes(log, q, p)
  BY <1>1 DEF Completes
<1>4. \A p : Completes(log', Len(log) + 1, p) <=> e.type = "RUNTIME_CHECKPOINT" /\ e.ref = p
  BY <1>1 DEF Completes
<1>5. ASSUME e.type = "INPUT"
      PROVE  Unresolved(log') = Unresolved(log) \cup {Len(log) + 1}
  BY <1>1, <1>2, <1>3, <1>4, <1>5 DEF Unresolved
<1>6. ASSUME e.type = "RUNTIME_CHECKPOINT"
      PROVE  Unresolved(log') = Unresolved(log) \ {e.ref}
  BY <1>1, <1>3, <1>4, <1>6 DEF Unresolved
<1>7. ASSUME e.type \notin {"INPUT", "RUNTIME_CHECKPOINT"}
      PROVE  Unresolved(log') = Unresolved(log)
  BY <1>1, <1>3, <1>4, <1>7 DEF Unresolved
<1>8. QED
  BY <1>5, <1>6, <1>7

\* A step appends at most one event, and changes the list of inputs as that
\* event calls for.
Accounts(e) ==
  /\ e \in Events /\ log' = Append(log, e)
  /\ \/ e.type = "INPUT" /\ inputs' = inputs \cup {Len(log) + 1}
     \/ /\ e.type = "RUNTIME_CHECKPOINT" /\ e.ref <= Len(log)
        /\ inputs' = inputs \ {e.ref}
     \/ e.type \notin {"INPUT", "RUNTIME_CHECKPOINT"} /\ inputs' = inputs

\* Nothing else happens to the log or to the list.
LEMMA InputsSteps ==
  ASSUME TypeOK, WorkFits, AccountInv, [Next]_vars
  PROVE  UNCHANGED <<log, inputs>> \/ \E e : Accounts(e)
<1> DEFINE Goal == UNCHANGED <<log, inputs>> \/ \E e : Accounts(e)
<1>1. ASSUME NEW e \in Events, e.type \notin {"INPUT", "RUNTIME_CHECKPOINT"},
             log' = log \/ log' = Appended(e), inputs' = inputs
      PROVE  Goal
  BY <1>1 DEF Appended, Accounts
<1>2. ASSUME NEW n \in Nodes, NEW heard \in BOOLEAN, CommitInput(n, heard) PROVE Goal
  <2> DEFINE e == Ev("INPUT", chan[n].seq, chan[n].token)
  <2>1. e \in Events /\ e.type = "INPUT"
    BY EventsAreTyped DEF TypeOK, RequestsTyped, LeaseTyped, Types, Ev
  <2>2. \/ UNCHANGED <<log, inputs>>
        \/ log' = Append(log, e) /\ inputs' = inputs \cup {Len(log) + 1}
    BY <1>2 DEF CommitInput
  <2> HIDE DEF e
  <2>3. QED
    BY <2>1, <2>2 DEF Accounts
<1>3. ASSUME NEW n \in Nodes, RunCompletes(n) PROVE Goal
  <2>1. /\ Ev("RUN_COMPLETED", left.others, 0) \in Events
        /\ Ev("RUN_COMPLETED", left.others, 0).type = "RUN_COMPLETED"
    BY EventsAreTyped DEF TypeOK, BoundsTyped, Types, Ev
  <2>2. log' = Appended(Ev("RUN_COMPLETED", left.others, 0)) /\ inputs' = inputs
    BY <1>3 DEF RunCompletes
  <2>3. QED
    BY <1>1, <2>1, <2>2
<1>4. ASSUME NEW n \in Nodes, CommitTransition(n) PROVE Goal
  <2>1. inputs' = inputs /\ (log' = log \/ log' = Appended(work[n].ev))
    BY <1>4 DEF CommitTransition
  <2>2. work[n].ev = TransitionEv(work[n].ev.from, work[n].ev.to, work[n].token)
    BY <1>4 DEF CommitTransition, WorkFits, FitsWork
  <2>3. work[n].ev \in Events /\ work[n].ev.type = "STATE_TRANSITIONED"
    BY <2>2 DEF TransitionEv, TypeOK, RuntimesTyped
  <2>4. QED
    BY <1>1, <2>1, <2>3
<1>5. ASSUME NEW n \in Nodes, CommitCheckpoint(n) PROVE Goal
  <2>1. \/ UNCHANGED <<log, inputs>>
        \/ log' = Append(log, work[n].ev) /\ inputs' = inputs \ {work[n].ev.ref}
    BY <1>5 DEF CommitCheckpoint
  <2>2. /\ work[n].ev = Ev("RUNTIME_CHECKPOINT", work[n].ev.ref, work[n].token)
        /\ work[n].ev.ref <= Len(log)
    BY <1>5 DEF CommitCheckpoint, WorkFits, FitsWork, AccountInv
  <2>3. work[n].ev \in Events /\ work[n].ev.type = "RUNTIME_CHECKPOINT"
    BY <2>2 DEF Ev, TypeOK, RuntimesTyped
  <2>4. QED
    BY <2>1, <2>2, <2>3 DEF Accounts
<1>6. ASSUME NEW n \in Nodes, EndSession(n) PROVE Goal
  <2>1. /\ Ev("SESSION_ENDED", 0, 0) \in Events
        /\ Ev("SESSION_ENDED", 0, 0).type = "SESSION_ENDED"
    BY EventsAreTyped DEF Types, Ev
  <2>2. (log' = log \/ log' = Appended(Ev("SESSION_ENDED", 0, 0))) /\ inputs' = inputs
    BY <1>6 DEF EndSession
  <2>3. QED
    BY <1>1, <2>1, <2>2
<1>7. QED
  BY <1>2, <1>3, <1>4, <1>5, <1>6, LogSteps

\* The list follows the log, whose checkpoints name earlier positions.
LEMMA LogCounted ==
  ASSUME TypeOK, WorkFits, AccountInv, [Next]_vars
  PROVE  /\ inputs' = Unresolved(log')
         /\ \A q \in DOMAIN log' :
              log'[q].type = "RUNTIME_CHECKPOINT" => log'[q].ref <= Len(log')
         /\ Len(log) \in Nat /\ Len(log') \in Nat /\ Len(log) <= Len(log')
<1>1. Len(log) \in Nat
  BY DEF TypeOK, LogTyped
<1>2. CASE UNCHANGED <<log, inputs>>
  BY <1>1, <1>2 DEF AccountInv
<1>3. ASSUME NEW e, Accounts(e)
      PROVE  /\ inputs' = Unresolved(log')
             /\ \A q \in DOMAIN log' :
                  log'[q].type = "RUNTIME_CHECKPOINT" => log'[q].ref <= Len(log')
             /\ Len(log') = Len(log) + 1
  <2>1. e \in Events /\ log' = Append(log, e)
    BY <1>3 DEF Accounts
  <2>2. inputs' = Unresolved(log')
    BY <1>3, <2>1, UnresolvedNext DEF Accounts, AccountInv
  <2>3. \A q \in DOMAIN log : log[q].type = "RUNTIME_CHECKPOINT" => log[q].ref <= Len(log) + 1
    <3>1. \A q \in DOMAIN log : log[q] \in Events
      BY DEF TypeOK, LogTyped
    <3>2. \A q \in DOMAIN log : log[q].ref \in Nat
      BY <3>1 DEF Events
    <3>3. QED
      BY <1>1, <3>2 DEF AccountInv
  <2>4. e.type = "RUNTIME_CHECKPOINT" => e.ref <= Len(log) + 1
    <3>1. e.ref \in Nat
      BY <2>1 DEF Events
    <3>2. QED
      BY <1>1, <1>3, <3>1 DEF Accounts
  <2>5. QED
    BY <2>1, <2>2, <2>3, <2>4, AppendFacts
<1>4. QED
  BY <1>1, <1>2, <1>3, InputsSteps

\* A dispatched position stays in the log, so a checkpoint can name it.
LEMMA AccountNext == ASSUME TypeOK, WorkFits, AccountInv, [Next]_vars PROVE AccountInv'
<1>1. Len(log) \in Nat /\ Len(log') \in Nat /\ Len(log) <= Len(log')
  BY LogCounted
<1>2. tail \in [Nodes -> Seq(Nat)]
  BY DEF TypeOK, RequestsTyped
<1>3. \A n \in Nodes : \A i \in DOMAIN tail[n] : tail[n][i] <= Len(log)
  BY DEF AccountInv
<1>4. \A n \in Nodes : \A i \in DOMAIN tail[n] : tail[n][i] <= Len(log')
  BY <1>1, <1>2, <1>3
<1>5. \A n \in Nodes : \A i \in DOMAIN tail'[n] : tail'[n][i] <= Len(log')
  <2> DEFINE Within(s) == \A i \in DOMAIN s : s[i] <= Len(log')
  <2>1. CASE UNCHANGED tail
    BY <1>4, <2>1
  <2>2. ASSUME NEW n \in Nodes, NEW s, tail' = [tail EXCEPT ![n] = s], Within(s)
        PROVE  \A m \in Nodes : Within(tail'[m])
    <3> HIDE DEF Within
    <3>1. \A m \in Nodes : Within(tail[m])
      BY <1>4 DEF Within
    <3>2. QED
      BY <1>2, <2>2, <3>1
  <2>3. ASSUME NEW n \in Nodes, tail' = [tail EXCEPT ![n] = <<>>]
        PROVE  \A m \in Nodes : Within(tail'[m])
    <3>1. Within(<<>>)
      OBVIOUS
    <3> HIDE DEF Within
    <3>2. QED
      BY <2>2, <2>3, <3>1
  <2>4. ASSUME NEW n \in Nodes, NEW p \in 0..Len(log'),
               tail' = [tail EXCEPT ![n] = Append(@, p)]
        PROVE  \A m \in Nodes : Within(tail'[m])
    <3>1. tail[n] \in Seq(Nat) /\ p \in Nat /\ p <= Len(log')
      BY <1>1, <1>2
    <3>2. Within(Append(tail[n], p))
      BY <1>4, <3>1
    <3> HIDE DEF Within
    <3>3. QED
      BY <2>2, <2>4, <3>2
  <2>5. ASSUME NEW n \in Nodes, tail[n] # <<>>, Popped(n)
        PROVE  \A m \in Nodes : Within(tail'[m])
    <3>1. tail[n] \in Seq(Nat)
      BY <1>2
    <3>2. Within(Tail(tail[n]))
      BY <1>4, <2>5, <3>1
    <3> HIDE DEF Within
    <3>3. QED
      BY <2>2, <2>5, <3>2 DEF Popped
  <2>6. ASSUME NEW n \in Nodes, NEW k \in 0..Len(tail[n]),
               tail' = [tail EXCEPT ![n] = Slipped(@, k)]
        PROVE  \A m \in Nodes : Within(tail'[m])
    <3>1. tail[n] \in Seq(Nat)
      BY <1>2
    <3>2. Within(Slipped(tail[n], k))
      <4>1. PICK z : z = Slipped(tail[n], k)
        OBVIOUS
      <4>2. \A i \in DOMAIN z : z[i] = 0 \/ \E j \in DOMAIN tail[n] : z[i] = tail[n][j]
        BY <3>1, <4>1, SlippedIn
      <4>3. 0 <= Len(log')
        BY <1>1
      <4>4. \A j \in DOMAIN tail[n] : tail[n][j] <= Len(log')
        BY <1>4
      <4>5. Within(z)
        BY <4>2, <4>3, <4>4
      <4> HIDE DEF Within
      <4>6. QED
        BY <4>1, <4>5
    <3> HIDE DEF Within
    <3>3. QED
      BY <2>2, <2>6, <3>2
  <2>7. QED
    BY <2>1, <2>3, <2>4, <2>5, <2>6, TailSteps
<1>6. \A n \in Nodes : work'[n].at = "checkpoint" => work'[n].ev.ref <= Len(log')
  <2>1. \A n \in Nodes : work[n].at = "checkpoint" => work[n].ev.ref <= Len(log')
    <3>1. \A n \in Nodes : work[n].ev \in Events
      BY DEF TypeOK, RuntimesTyped
    <3>2. \A n \in Nodes : work[n].ev.ref \in Nat
      BY <3>1 DEF Events
    <3>3. QED
      BY <1>1, <3>2 DEF AccountInv
  <2>2. \A n \in Nodes : tail[n] # <<>> => Head(tail[n]) <= Len(log)
    <3>1. \A n \in Nodes : tail[n] # <<>> => 1 \in DOMAIN tail[n] /\ Head(tail[n]) = tail[n][1]
      BY <1>2
    <3>2. QED
      BY <1>3, <3>1
  <2>3. QED
    BY <2>1, <2>2, WorkChanges
<1>7. QED
  BY <1>5, <1>6, LogCounted DEF AccountInv

\* There is no input at first.
LEMMA AccountInit == Init => AccountInv
BY DEF Init, AccountInv, Unresolved, Idle

-----------------------------------------------------------------------------
(* Restored runtimes.  A whole history read under a lease misses nothing   *)
(* while the lease is the current one: a later claim takes a token no      *)
(* runtime has.  A history cut at an event of the same lease misses        *)
(* nothing either, since the tokens of the log never go back.              *)

\* The log l beyond position upto holds nothing written under another lease than
\* the one of this token, if that is the current one.
Complete(l, current, token, upto) ==
  token # 0 /\ token = current =>
    \A i \in DOMAIN l : i > upto => l[i].token \in {0, token}

\* What a runtime, or one being restored, has of the log: all of it, or all
\* before an event the log holds.
Kept(l, current, r) ==
  /\ ~r.cut => Complete(l, current, r.token, r.upto)
  /\ r.cut => r.upto < Len(l)

RestoredInv ==
  \A n \in Nodes : /\ Kept(log, owner.token, rt[n])
                   /\ work[n].at = "load" => Kept(log, owner.token, work[n])

\* What was kept stays kept, or its lease is over.
LEMMA KeptNext ==
  ASSUME TypeOK, WorkFits, [Next]_vars, NEW r, r.token \in 0..minted, r.upto \in Nat,
         Kept(log, owner.token, r)
  PROVE  Kept(log', owner'.token, r)
<1>1. owner'.token \in {owner.token, 0, minted + 1}
  BY LeaseSteps DEF Claim, Close, TypeOK, LeaseTyped
<1>2. minted \in Nat /\ Len(log) \in Nat
  BY DEF TypeOK, LeaseTyped, LogTyped
<1>3. CASE UNCHANGED log
  BY <1>1, <1>2, <1>3 DEF Kept, Complete
<1>4. ASSUME NEW e \in Events, log' = Append(log, e), e.token # 0 => Owns(e.token)
      PROVE  Kept(log', owner'.token, r)
  <2>1. ~r.cut => Complete(log', owner'.token, r.token, r.upto)
    BY <1>1, <1>2, <1>4, AppendFacts DEF Kept, Complete, Owns
  <2>2. r.cut => r.upto < Len(log')
    BY <1>2, <1>4, AppendFacts DEF Kept
  <2>3. QED
    BY <2>1, <2>2 DEF Kept
<1>5. QED
  BY <1>3, <1>4, LogWrites, LogGrows
 
\* Going live, and every other step, keeps what the runtimes have.
LEMMA RestoredNext ==
  ASSUME TypeOK, WorkFits, AccountInv, RestoredInv, [Next]_vars PROVE RestoredInv'
<1> DEFINE Then(r) == Kept(log', owner'.token, r)
<1>1. /\ \A n \in Nodes : /\ rt[n].token \in 0..minted /\ rt[n].upto \in Nat
                         /\ work[n].token \in 0..minted /\ work[n].upto \in Nat
      /\ rt = [n \in Nodes |-> rt[n]] /\ work = [n \in Nodes |-> work[n]]
  BY DEF TypeOK, RuntimesTyped
<1>2. ASSUME NEW n \in Nodes PROVE Then(rt[n]) /\ (work[n].at = "load" => Then(work[n]))
  <2>1. Kept(log, owner.token, rt[n])
    BY DEF RestoredInv
  <2>2. Kept(log', owner'.token, rt[n])
    BY <1>1, <2>1, KeptNext
  <2>3. work[n].at = "load" => Kept(log, owner.token, work[n])
    BY DEF RestoredInv
  <2>4. work[n].at = "load" => Kept(log', owner'.token, work[n])
    BY <1>1, <2>3, KeptNext
  <2>5. QED
    BY <2>2, <2>4
<1>3. Then(NoRuntime)
  BY DEF Kept, Complete, NoRuntime
<1>4. \A n \in Nodes : Then(rt'[n])
  <2>1. CASE UNCHANGED rt
    BY <1>2, <2>1
  <2>2. ASSUME NEW n \in Nodes, rt' = [rt EXCEPT ![n] = NoRuntime]
        PROVE  \A m \in Nodes : Then(rt'[m])
    <3> HIDE DEF Then
    <3>1. QED
      BY <1>1, <1>2, <1>3, <2>2
  <2>3. ASSUME NEW n \in Nodes, NEW stage \in States, work[n].at = "load",
               rt' = [rt EXCEPT ![n] = Installed(work[n], stage)]
        PROVE  \A m \in Nodes : Then(rt'[m])
    <3>1. Then(Installed(work[n], stage))
      BY <1>2, <2>3 DEF Installed, Kept
   <3> HIDE DEF Then
    <3>2. QED
      BY <1>1, <1>2, <2>3, <3>1
  <2>4. ASSUME NEW n \in Nodes, NEW to \in States, rt' = [rt EXCEPT ![n].stage = to]
        PROVE  \A m \in Nodes : Then(rt'[m])
    <3>1. \A m \in Nodes : /\ rt'[m].token = rt[m].token /\ rt'[m].upto = rt[m].upto
                            /\ rt'[m].cut = rt[m].cut
      BY <2>4 DEF TypeOK, RuntimesTyped
    <3>2. QED
      BY <1>2, <3>1 DEF Kept
  <2>5. QED
    BY <2>1, <2>2, <2>3, <2>4, RtSteps
<1>5. \A n \in Nodes : work'[n].at = "load" => Then(work'[n])
  <2>1. CASE UNCHANGED work
    BY <1>2, <2>1
  <2>2. \A t : UNCHANGED log => Complete(log', owner'.token, t, Len(log))
    BY DEF Complete, TypeOK, LogTyped
  <2>3. \A n \in Nodes : tail[n] # <<>> => Head(tail[n]) \in Nat /\ Head(tail[n]) <= Len(log)
    <3>1. tail \in [Nodes -> Seq(Nat)]
      BY DEF TypeOK, RequestsTyped
    <3>2. \A n \in Nodes : tail[n] # <<>> => 1 \in DOMAIN tail[n] /\ Head(tail[n]) = tail[n][1]
      BY <3>1
    <3>3. \A n \in Nodes : \A i \in DOMAIN tail[n] : tail[n][i] \in Nat /\ tail[n][i] <= Len(log)
      BY <3>1 DEF AccountInv
    <3>4. QED
      BY <3>2, <3>3
  <2>4. ASSUME NEW n \in Nodes, NEW w, UNCHANGED log, Restored(n, w) PROVE Then(w)
    <3>1. ~w.cut => Complete(log', owner'.token, w.token, w.upto)
      BY <2>2, <2>4 DEF Restored
    <3>2. w.cut => w.upto < Len(log')
      <4>1. Len(log) \in Nat /\ log' = log
        BY <2>4 DEF TypeOK, LogTyped
      <4>2. QED
        BY <2>3, <2>4, <4>1 DEF Restored
    <3>3. QED
      BY <3>1, <3>2 DEF Kept
  <2> HIDE DEF Then
  <2>5. ASSUME NEW n \in Nodes, \A m \in Nodes \ {n} : work'[m] = work[m],
               work'[n].at = "load" => UNCHANGED log /\ Restored(n, work'[n])
        PROVE  \A m \in Nodes : work'[m].at = "load" => Then(work'[m])
    BY <1>2, <2>4, <2>5
  <2>6. QED
    BY <2>1, <2>5, WorkChanges
<1>6. QED
  BY <1>4, <1>5 DEF RestoredInv

\* No runtime is live at first.
LEMMA RestoredInit == Init => RestoredInv
BY DEF Init, RestoredInv, Kept, Complete, NoRuntime, Idle

\* A history cut at an event of the runtime's own lease is complete too: what
\* comes after that event has its token or a later one, and the current lease
\* is the latest.
LEMMA RestoredIsWhole ==
  ASSUME TypeOK, TurnInv, RestoredInv PROVE RestoredIsComplete
<1> SUFFICES ASSUME NEW n \in Nodes, rt[n].token # 0, rt[n].token = owner.token,
                    rt[n].cut => log[rt[n].upto + 1].token = rt[n].token,
                    NEW i \in DOMAIN log, i > rt[n].upto
             PROVE  log[i].token \in {0, rt[n].token}
  BY DEF RestoredIsComplete
<1>1. CASE ~rt[n].cut
  <2>1. Complete(log, owner.token, rt[n].token, rt[n].upto)
    BY <1>1 DEF RestoredInv, Kept
  <2>2. QED
    BY <2>1 DEF Complete
<1>2. CASE rt[n].cut
  <2>1. rt[n].upto \in Nat /\ rt[n].upto < Len(log) /\ Len(log) \in Nat /\ DOMAIN log = 1..Len(log)
    BY <1>2 DEF TypeOK, RuntimesTyped, LogTyped, RestoredInv, Kept
  <2>2. rt[n].upto + 1 \in DOMAIN log /\ i \in Nat
    BY <2>1
  <2>3. \A j \in DOMAIN log : log[j].token \in Nat
    <3>1. \A j \in DOMAIN log : log[j] \in Events
      BY DEF TypeOK, LogTyped
    <3>2. QED
      BY <3>1 DEF Events
  <2>4. log[i].token <= rt[n].token
    BY DEF TurnInv
  <2>5. rt[n].token \in Nat /\ rt[n].token > 0
    BY DEF TypeOK, RuntimesTyped, LeaseTyped
  <2>6. CASE i = rt[n].upto + 1
    BY <1>2, <2>6
  <2>7. CASE i > rt[n].upto + 1 /\ log[i].token > 0
    <3>1. log[rt[n].upto + 1].token <= log[i].token
      BY <1>2, <2>2, <2>5, <2>7 DEF TurnInv, OwnersInTurn
    <3>2. QED
      BY <1>2, <2>3, <2>4, <2>5, <3>1
  <2>8. QED
    BY <2>1, <2>2, <2>3, <2>6, <2>7
<1>3. QED
  BY <1>1, <1>2 DEF TypeOK, RuntimesTyped

-----------------------------------------------------------------------------
(* The theorems. *)

\* The inductive invariant.
SafetyInv ==
  /\ TypeOK /\ WorkFits /\ TurnInv /\ SealInv /\ AckedIsDurable
  /\ PathInv /\ AccountInv /\ RestoredInv

\* The invariant holds initially, and no step breaks it.
LEMMA SafetyInductive ==
  /\ Init => SafetyInv
  /\ SafetyInv /\ [Next]_vars => SafetyInv'
<1>1. Init => SafetyInv
  BY InitTyped, WorkFitsInit, TurnInit, SealInit, AckedInit, RestoredInit, PathInit,
     AccountInit DEF SafetyInv
<1>2. SafetyInv /\ [Next]_vars => SafetyInv'
  BY NextTyped, WorkFitsNext, TurnNext, SealNext, AckedNext, RestoredNext,
     PathNext, AccountNext DEF SafetyInv
<1>3. QED
  BY <1>1, <1>2

\* So it holds in every reachable state.
LEMMA Safe == Spec => []SafetyInv
BY SafetyInductive, PTL DEF Spec

\* A process that lost its lease never writes after its successor has
\* (assertRuntimeOwner inside every fenced transaction).
THEOREM WritersTakeTurns == Spec => []OwnersInTurn
<1>1. SafetyInv => OwnersInTurn
  BY DEF SafetyInv, TurnInv
<1>2. QED
  BY <1>1, Safe, PTL

\* Nothing is appended to the log of an ended session, whoever tries.
THEOREM SealedIsFinal == Spec => []SealIsFinal
<1>1. SafetyInv => SealIsFinal
  BY DEF SafetyInv, SealInv
<1>2. QED
  BY <1>1, Safe, PTL

\* An input the client was told is stored is in the log for good.
THEOREM AckedIsKept == Spec => []AckedIsDurable
<1>1. SafetyInv => AckedIsDurable
  BY DEF SafetyInv
<1>2. QED
  BY <1>1, Safe, PTL

\* A runtime that can write, restored by a readiness report or for an event of
\* its own lease, has restored every event written under an earlier one:
\* createRuntime reads after the claim, and verifies before going live.
THEOREM RestoresMissNothing == Spec => []RestoredIsComplete
<1>1. SafetyInv => RestoredIsComplete
  BY RestoredIsWhole DEF SafetyInv
<1>2. QED
  BY <1>1, Safe, PTL

\* The stages in the log are a path of the contract's graph that ends at the
\* row: a stage is entered at most once, so its name is its idempotency key.
THEOREM StagesFormAPath == Spec => []StagePath
<1>1. SafetyInv => StagePath
  BY DEF SafetyInv, PathInv, Path, StagePath
<1>2. QED
  BY <1>1, Safe, PTL

\* An input is listed as unresolved exactly until its checkpoint is in the log.
THEOREM InputsAreAccounted == Spec => []InputsAccounted
<1>1. SafetyInv => InputsAccounted
  BY DEF SafetyInv, AccountInv, Unresolved, Completes, InputsAccounted
<1>2. QED
  BY <1>1, Safe, PTL
=============================================================================
