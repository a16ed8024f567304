--------------------------- MODULE ServicesProofs ---------------------------
(***************************************************************************)
(* Proofs about RunQueue, for every number of runs, sessions, places and   *)
(* every depth, and about SpeechCache, for every number of processes.      *)
(*                                                                         *)
(* The queue rests on what each run is called where: a run that waits is   *)
(* not active, and an event in a session's line is of a run at the stage   *)
(* the event speaks of, so that nothing but drain() frees a place.  The    *)
(* cache rests on every process holding what was verified, whatever lies   *)
(* on disk: the two files may be of two recordings, and are then not read. *)
(***************************************************************************)
EXTENDS RunQueue, SpeechCache, FiniteSetTheorems, FunctionTheorems, TLAPS

-----------------------------------------------------------------------------
(* The run queue.                                                          *)

Events == [type : {"RUN_REQUESTED", "RUN_COMPLETED"}, run : Runs]

\* Each run waits once, and waits when it says so; no place is wasted.
QueueInv ==
  /\ stage \in [Runs -> Stages]
  /\ pending \in Seq(Runs)
  /\ \A i, j \in 1..Len(pending) : pending[i] = pending[j] => i = j
  /\ \A i \in 1..Len(pending) : stage[pending[i]] = "pending"
  /\ IsFiniteSet(Active(stage)) /\ NoPlaceIsWasted

\* An event in a session's line is the only one there of a run of that
\* session, and the run waits for it to be dispatched.
LineInv ==
  /\ line \in [RunSessions -> Seq(Events)]
  /\ \A s \in RunSessions : \A i \in 1..Len(line[s]) :
       LET e == line[s][i]
       IN  /\ SessionOf[e.run] = s
           /\ stage[e.run] = IF e.type = "RUN_REQUESTED" THEN "asked" ELSE "dispatching"
           /\ \A j \in 1..Len(line[s]) : line[s][j].run = e.run => j = i

RunInv == QueueInv /\ LineInv

\* drain() fills the places that are free, as far as the queue goes.
LEMMA DrainFills ==
  ASSUME NEW st \in [Runs -> Stages], NEW queue \in Seq(Runs),
         IsFiniteSet(Active(st)), Cardinality(Active(st)) <= Concurrency,
         \A i, j \in 1..Len(queue) : queue[i] = queue[j] => i = j,
         \A i \in 1..Len(queue) : st[queue[i]] = "pending",
         Drain(st, queue)
  PROVE  QueueInv' /\ \A r \in Runs : st[r] # "pending" => stage'[r] = st[r]
<1> DEFINE A == Active(st)
           free == Concurrency - Cardinality(A)
           n == IF Len(queue) < free THEN Len(queue) ELSE free
           first == {queue[i] : i \in 1..n}
           f == [i \in 1..n |-> queue[i]]
<1>1. /\ Cardinality(A) \in Nat /\ Concurrency \in Nat /\ Len(queue) \in Nat
      /\ free \in Nat /\ n \in Nat /\ n <= Len(queue) /\ n <= free
      /\ n < Len(queue) => n = free
  BY RunQueueAssumption, FS_CardinalityType
<1>2. /\ stage' = [r \in Runs |-> IF r \in first THEN "executing" ELSE st[r]]
      /\ pending' = SubSeq(queue, n + 1, Len(queue))
  BY DEF Drain
<1>3. \A i \in 1..n : i \in 1..Len(queue) /\ queue[i] \in Runs
  BY <1>1
<1>4. IsFiniteSet(first) /\ Cardinality(first) = n
  <2>1. f \in Bijection(1..n, first)
    <3>1. f \in [1..n -> first]
      OBVIOUS
    <3>2. \A i, j \in 1..n : f[i] = f[j] => i = j
      BY <1>3
    <3>3. \A y \in first : \E i \in 1..n : f[i] = y
      OBVIOUS
    <3> HIDE DEF f, first, n
    <3>4. f \in Injection(1..n, first)
      BY <3>1, <3>2, Fun_IsInj
    <3>5. f \in Surjection(1..n, first)
      BY <3>1, <3>3, Fun_IsSurj
    <3> QED
      BY <3>4, <3>5 DEF Bijection
  <2> HIDE DEF f, first, n
  <2>2. IsFiniteSet(1..n) /\ Cardinality(1..n) = n
    BY <1>1, FS_Interval
  <2>3. ExistsBijection(1..n, first)
    BY <2>1 DEF ExistsBijection
  <2> QED
    BY <2>2, <2>3, FS_Bijection
<1>5. stage' \in [Runs -> Stages]
  BY <1>2 DEF Stages
<1>6. Active(stage') = A \cup first /\ A \cap first = {}
  <2>1. \A r \in first : r \in Runs /\ st[r] = "pending"
    BY <1>3
  <2> HIDE DEF first, n, f
  <2>2. \A r \in Runs : stage'[r] = IF r \in first THEN "executing" ELSE st[r]
    BY <1>2
  <2> QED
    BY <2>1, <2>2 DEF Active
<1>7. IsFiniteSet(Active(stage')) /\ Cardinality(Active(stage')) = Cardinality(A) + n
  <2> HIDE DEF A, first, n
  <2>1. IsFiniteSet(A)
    BY DEF A
  <2>2. /\ IsFiniteSet(A \cup first)
        /\ Cardinality(A \cup first) = Cardinality(A) + n - Cardinality(A \cap first)
    BY <1>4, <2>1, FS_Union
  <2>3. Cardinality(A \cap first) = 0
    BY <1>6, FS_EmptySet
  <2> QED
    BY <1>1, <1>6, <2>2, <2>3
<1> HIDE DEF n, f
<1>8. /\ pending' \in Seq(Runs) /\ Len(pending') = Len(queue) - n
      /\ \A i \in 1..Len(pending') : pending'[i] = queue[n + i] /\ n + i \in 1..Len(queue)
  BY <1>1, <1>2
<1>9. \A i, j \in 1..Len(pending') : pending'[i] = pending'[j] => i = j
  BY SMTT(30), <1>1, <1>8
<1>10. \A i \in 1..Len(pending') : stage'[pending'[i]] = "pending"
  <2> SUFFICES ASSUME NEW i \in 1..Len(pending') PROVE stage'[pending'[i]] = "pending"
    OBVIOUS
  <2>1. PICK q \in Runs : q = pending'[i] /\ q = queue[n + i] /\ n + i \in 1..Len(queue)
    BY <1>8
  <2>2. \A j \in 1..n : j # n + i /\ j \in 1..Len(queue)
    BY <1>1, <1>3, <2>1
  <2>3. q \notin first
    BY <2>1, <2>2
  <2>4. st[q] = "pending"
    BY <2>1
  <2> HIDE DEF first
  <2> QED
    BY <1>2, <2>1, <2>3, <2>4
<1>11. NoPlaceIsWasted'
  <2>1. pending' # <<>> => n = free
    BY <1>1, <1>8
  <2> HIDE DEF A
  <2>2. /\ Cardinality(Active(stage')) <= Concurrency
        /\ pending' # <<>> => Cardinality(Active(stage')) = Concurrency
    BY <1>1, <1>7, <2>1
  <2> QED
    BY <2>2 DEF NoPlaceIsWasted
<1>12. \A r \in Runs : st[r] # "pending" => stage'[r] = st[r]
  BY <1>2, <1>3
<1> QED
  BY <1>5, <1>7, <1>8, <1>9, <1>10, <1>11, <1>12 DEF QueueInv

\* A run that does not wait changes, without freeing its place.
LEMMA StageMoves ==
  ASSUME QueueInv, NEW r \in Runs, NEW new \in Stages, stage[r] # "pending", new # "pending",
         stage' = [stage EXCEPT ![r] = new], UNCHANGED pending,
         stage[r] \in {"executing", "recording", "dispatching"}
           <=> new \in {"executing", "recording", "dispatching"}
  PROVE  QueueInv' /\ stage'[r] = new /\ \A q \in Runs : q # r => stage'[q] = stage[q]
<1>1. /\ stage' \in [Runs -> Stages] /\ stage'[r] = new
      /\ \A q \in Runs : q # r => stage'[q] = stage[q]
  BY DEF QueueInv
<1>2. Active(stage') = Active(stage)
  BY <1>1 DEF Active
<1>3. \A i \in 1..Len(pending) : pending[i] # r /\ pending[i] \in Runs
  BY DEF QueueInv
<1> QED
  BY <1>1, <1>2, <1>3 DEF QueueInv, NoPlaceIsWasted

\* One that ends gives its place away.
LEMMA PlaceFreed ==
  ASSUME QueueInv, NEW r \in Runs, stage[r] # "pending", Done(r)
  PROVE  /\ QueueInv' /\ stage'[r] = "done"
         /\ \A q \in Runs : q # r /\ stage[q] # "pending" => stage'[q] = stage[q]
<1>1. PICK st : st = [stage EXCEPT ![r] = "done"]
  OBVIOUS
<1>2. /\ st \in [Runs -> Stages] /\ st[r] = "done"
      /\ \A q \in Runs : q # r => st[q] = stage[q]
  BY <1>1 DEF QueueInv, Stages
<1>3. \A i \in 1..Len(pending) : st[pending[i]] = "pending"
  BY <1>2 DEF QueueInv
<1>4. Active(st) \in SUBSET Active(stage)
  BY <1>2 DEF Active
<1>5. IsFiniteSet(Active(st)) /\ Cardinality(Active(st)) <= Concurrency
  <2>1. IsFiniteSet(Active(stage)) /\ Cardinality(Active(stage)) <= Concurrency
    BY DEF QueueInv, NoPlaceIsWasted
  <2>2. IsFiniteSet(Active(st)) /\ Cardinality(Active(st)) <= Cardinality(Active(stage))
    BY <1>4, <2>1, FS_Subset
  <2>3. /\ Cardinality(Active(st)) \in Nat /\ Cardinality(Active(stage)) \in Nat
        /\ Concurrency \in Nat
    BY <2>1, <2>2, FS_CardinalityType, RunQueueAssumption
  <2> QED
    BY <2>1, <2>2, <2>3
<1>6. Drain(st, pending)
  BY <1>1 DEF Done
<1>7. QueueInv' /\ \A q \in Runs : st[q] # "pending" => stage'[q] = st[q]
  BY <1>2, <1>3, <1>5, <1>6, DrainFills DEF QueueInv
<1> QED
  BY <1>2, <1>7

-----------------------------------------------------------------------------
(* The lines.                                                              *)

\* The runs whose events wait to be dispatched keep waiting.
Waiting(r) == stage[r] \in {"asked", "dispatching"}

\* A line is not touched.
LEMMA LineStays ==
  ASSUME LineInv, UNCHANGED line, \A r \in Runs : Waiting(r) => stage'[r] = stage[r]
  PROVE  LineInv'
<1>1. ASSUME NEW s \in RunSessions, NEW i \in 1..Len(line[s])
      PROVE  stage'[line[s][i].run] = stage[line[s][i].run]
  <2>1. line[s] \in Seq(Events)
    BY DEF LineInv
  <2>2. line[s][i].run \in Runs
    <3>1. line[s][i] \in Events
      BY <2>1
    <3> QED
      BY <3>1 DEF Events
  <2>3. stage[line[s][i].run] =
          IF line[s][i].type = "RUN_REQUESTED" THEN "asked" ELSE "dispatching"
    BY DEF LineInv
  <2>4. Waiting(line[s][i].run)
    BY <2>3 DEF Waiting
  <2> QED
    BY <2>2, <2>4
<1> QED
  BY <1>1 DEF LineInv

\* An event of a run that waited for none is put at the end of one.
LEMMA LinePushed ==
  ASSUME LineInv, NEW r \in Runs, NEW type \in {"RUN_REQUESTED", "RUN_COMPLETED"}, ~Waiting(r),
         line' = [line EXCEPT ![SessionOf[r]] = Append(@, [type |-> type, run |-> r])],
         stage'[r] = IF type = "RUN_REQUESTED" THEN "asked" ELSE "dispatching",
         \A q \in Runs : q # r => stage'[q] = stage[q]
  PROVE  LineInv'
<1> DEFINE s == SessionOf[r]
           e == [type |-> type, run |-> r]
<1>1. s \in RunSessions /\ e \in Events /\ e.run = r /\ e.type = type
  BY RunQueueAssumption DEF Events
<1> HIDE DEF e, s
<1>2. line' = [line EXCEPT ![s] = Append(line[s], e)]
  BY DEF e, s
<1>3. /\ line' \in [RunSessions -> Seq(Events)]
      /\ line'[s] = Append(line[s], e) /\ \A t \in RunSessions : t # s => line'[t] = line[t]
      /\ line[s] \in Seq(Events)
  BY <1>1, <1>2 DEF LineInv
<1>4. /\ Len(line'[s]) = Len(line[s]) + 1 /\ line'[s][Len(line[s]) + 1] = e
      /\ Len(line[s]) \in Nat
      /\ \A i \in 1..Len(line[s]) : line'[s][i] = line[s][i]
  BY <1>1, <1>3
<1>5. \A t \in RunSessions : \A i \in 1..Len(line[t]) :
        line[t][i] \in Events /\ line[t][i].run \in Runs /\ line[t][i].run # r
  <2> SUFFICES ASSUME NEW t \in RunSessions, NEW i \in 1..Len(line[t])
               PROVE  line[t][i] \in Events /\ line[t][i].run \in Runs /\ line[t][i].run # r
    OBVIOUS
  <2>1. line[t] \in Seq(Events)
    BY DEF LineInv
  <2>2. line[t][i] \in Events
    BY <2>1
  <2> QED
    BY <2>2 DEF LineInv, Waiting, Events
<1>6. ASSUME NEW t \in RunSessions, NEW i \in 1..Len(line'[t])
      PROVE  LET x == line'[t][i]
             IN  /\ SessionOf[x.run] = t
                 /\ stage'[x.run] = IF x.type = "RUN_REQUESTED" THEN "asked" ELSE "dispatching"
                 /\ \A j \in 1..Len(line'[t]) : line'[t][j].run = x.run => j = i
  <2>1. CASE t = s /\ i = Len(line[s]) + 1
    <3>1. line'[t][i] = e
      BY <1>4, <2>1
    <3>2. \A j \in 1..Len(line'[t]) : j # i => line'[t][j].run # r
      BY <1>4, <1>5, <2>1
    <3>3. SessionOf[r] = t
      BY <2>1 DEF s
    <3>4. \A j \in 1..Len(line'[t]) : line'[t][j].run = r => j = i
      BY <3>2
    <3> QED
      BY <1>1, <3>1, <3>3, <3>4
  <2>2. CASE t # s \/ i # Len(line[s]) + 1
    <3>1. i \in 1..Len(line[t]) /\ line'[t][i] = line[t][i]
      BY <1>3, <1>4, <2>2
    <3>2. \A j \in 1..Len(line'[t]) :
            \/ j \in 1..Len(line[t]) /\ line'[t][j] = line[t][j]
            \/ line'[t][j].run = r
      BY <1>1, <1>3, <1>4
    <3>3. line[t][i].run \in Runs /\ line[t][i].run # r
      BY <1>5, <3>1
    <3> QED
      BY SMTT(30), <3>1, <3>2, <3>3 DEF LineInv
  <2> QED
    BY <2>1, <2>2
<1> QED
  BY <1>3, <1>6 DEF LineInv

\* The event at the head of one is dispatched.
LEMMA LinePopped ==
  ASSUME LineInv, NEW s \in RunSessions, line[s] # <<>>, Popped(s),
         NEW r \in Runs, r = Head(line[s]).run,
         \A q \in Runs : q # r /\ Waiting(q) => stage'[q] = stage[q]
  PROVE  LineInv'
<1>1. /\ line[s] \in Seq(Events) /\ Len(line[s]) \in Nat \ {0}
      /\ Head(line[s]) = line[s][1]
  BY DEF LineInv
<1>2. /\ Tail(line[s]) \in Seq(Events) /\ Len(Tail(line[s])) = Len(line[s]) - 1
      /\ \A i \in 1..Len(Tail(line[s])) : Tail(line[s])[i] = line[s][i + 1]
  BY <1>1
<1>3. /\ line' \in [RunSessions -> Seq(Events)] /\ line'[s] = Tail(line[s])
      /\ \A t \in RunSessions : t # s => line'[t] = line[t]
  BY <1>2 DEF LineInv, Popped
<1>4. ASSUME NEW t \in RunSessions, NEW i \in 1..Len(line[t]), t # s \/ i # 1
      PROVE  /\ line[t][i].run \in Runs
             /\ stage'[line[t][i].run] =
                  IF line[t][i].type = "RUN_REQUESTED" THEN "asked" ELSE "dispatching"
  <2>1. line[t][i] \in Events
    BY DEF LineInv
  <2>2. /\ line[t][i].run \in Runs /\ SessionOf[line[t][i].run] = t
        /\ stage[line[t][i].run] =
             IF line[t][i].type = "RUN_REQUESTED" THEN "asked" ELSE "dispatching"
    BY <2>1 DEF LineInv, Events
  <2>3. line[t][i].run # r
    <3>1. SessionOf[r] = s /\ 1 \in 1..Len(line[s])
          /\ \A j \in 1..Len(line[s]) : line[s][j].run = r => j = 1
      BY <1>1 DEF LineInv
    <3> QED
      BY <1>4, <2>2, <3>1
  <2> QED
    BY <2>2, <2>3 DEF Waiting
<1>5. ASSUME NEW t \in RunSessions, NEW i \in 1..Len(line'[t])
      PROVE  LET x == line'[t][i]
             IN  /\ SessionOf[x.run] = t
                 /\ stage'[x.run] = IF x.type = "RUN_REQUESTED" THEN "asked" ELSE "dispatching"
                 /\ \A j \in 1..Len(line'[t]) : line'[t][j].run = x.run => j = i
  <2>1. CASE t = s
    <3>1. \A j \in 1..Len(line'[t]) : /\ j + 1 \in 1..Len(line[s]) /\ j + 1 # 1
                                      /\ line'[t][j] = line[s][j + 1]
      BY <1>1, <1>2, <1>3, <2>1
    <3>2. /\ i + 1 \in 1..Len(line[s]) /\ i + 1 # 1 /\ line'[t][i] = line[s][i + 1]
      BY <3>1
    <3>3. /\ SessionOf[line[s][i + 1].run] = s
          /\ \A j \in 1..Len(line[s]) : line[s][j].run = line[s][i + 1].run => j = i + 1
      BY <3>2 DEF LineInv
    <3>4. stage'[line[s][i + 1].run] =
            IF line[s][i + 1].type = "RUN_REQUESTED" THEN "asked" ELSE "dispatching"
      BY <1>4, <3>2
    <3>5. ASSUME NEW j \in 1..Len(line'[t]), line'[t][j].run = line'[t][i].run PROVE j = i
      <4>1. j + 1 \in 1..Len(line[s]) /\ line[s][j + 1].run = line[s][i + 1].run
        BY <3>1, <3>2, <3>5
      <4>2. j + 1 = i + 1
        BY <3>3, <4>1
      <4> QED
        BY <4>2
    <3> QED
      BY <2>1, <3>2, <3>3, <3>4, <3>5
  <2>2. CASE t # s
    <3>1. line'[t] = line[t]
      BY <1>3, <2>2
    <3> QED
      BY <1>4, <2>2, <3>1 DEF LineInv
  <2> QED
    BY <2>1, <2>2
<1> QED
  BY <1>3, <1>5 DEF LineInv

-----------------------------------------------------------------------------
(* The steps of the queue.                                                 *)

\* What the head of a line says of its run.
LEMMA HeadSays ==
  ASSUME LineInv, NEW s \in RunSessions, line[s] # <<>>
  PROVE  /\ Head(line[s]).run \in Runs
         /\ stage[Head(line[s]).run] =
              IF Head(line[s]).type = "RUN_REQUESTED" THEN "asked" ELSE "dispatching"
         /\ Head(line[s]).type \in {"RUN_REQUESTED", "RUN_COMPLETED"}
<1>1. /\ line[s] \in Seq(Events) /\ 1 \in 1..Len(line[s]) /\ Head(line[s]) = line[s][1]
  BY DEF LineInv
<1>2. line[s][1] \in Events
  BY <1>1
<1>3. stage[line[s][1].run] =
        IF line[s][1].type = "RUN_REQUESTED" THEN "asked" ELSE "dispatching"
  BY <1>1 DEF LineInv
<1> QED
  BY <1>1, <1>2, <1>3 DEF Events

\* Nothing runs, and nothing waits, at the start.
LEMMA RunInitHolds ==
  ASSUME RunInit
  PROVE  RunInv
<1>1. Active(stage) = {}
  BY DEF RunInit, Active
<1>2. IsFiniteSet(Active(stage)) /\ Cardinality(Active(stage)) = 0
  BY <1>1, FS_EmptySet
<1>3. NoPlaceIsWasted
  BY <1>2, RunQueueAssumption DEF RunInit, NoPlaceIsWasted
<1>4. pending = <<>> /\ Len(pending) = 0 /\ pending \in Seq(Runs)
  BY DEF RunInit
<1>5. QueueInv
  BY <1>2, <1>3, <1>4 DEF RunInit, QueueInv, Stages
<1>6. \A s \in RunSessions : line[s] = <<>> /\ Len(line[s]) = 0
  BY DEF RunInit
<1>7. LineInv
  BY <1>6 DEF RunInit, LineInv
<1> QED
  BY <1>5, <1>7 DEF RunInv

\* A request is put at the end of its session's line.
LEMMA RequestKeeps ==
  ASSUME RunInv, NEW r \in Runs, RequestRun(r)
  PROVE  RunInv'
<1>1. "asked" \in Stages /\ stage[r] = "idle" /\ stage' = [stage EXCEPT ![r] = "asked"]
  BY DEF RequestRun, Stages
<1>2. UNCHANGED pending
  BY DEF RequestRun
<1>3. QueueInv' /\ stage'[r] = "asked" /\ \A q \in Runs : q # r => stage'[q] = stage[q]
  BY <1>1, <1>2, StageMoves DEF RunInv
<1>4. line' = [line EXCEPT ![SessionOf[r]] = Append(@, [type |-> "RUN_REQUESTED", run |-> r])]
  BY DEF RequestRun, Asked
<1>5. LineInv'
  BY <1>1, <1>3, <1>4, LinePushed DEF RunInv, Waiting
<1> QED
  BY <1>3, <1>5 DEF RunInv

\* A run that joins the queue takes a place if there is one.
LEMMA JoinFills ==
  ASSUME QueueInv, NEW r \in Runs, stage[r] = "asked",
         Drain([stage EXCEPT ![r] = "pending"], Append(pending, r))
  PROVE  QueueInv' /\ \A q \in Runs : q # r /\ stage[q] # "pending" => stage'[q] = stage[q]
<1>1. PICK st : st = [stage EXCEPT ![r] = "pending"]
  OBVIOUS
<1>2. PICK queue : queue = Append(pending, r)
  OBVIOUS
<1>3. /\ st \in [Runs -> Stages] /\ st[r] = "pending"
      /\ \A q \in Runs : q # r => st[q] = stage[q]
  BY <1>1 DEF QueueInv, Stages
<1>4. pending \in Seq(Runs) /\ Len(pending) \in Nat
  BY DEF QueueInv
<1>5. /\ queue \in Seq(Runs) /\ Len(queue) = Len(pending) + 1
      /\ queue[Len(pending) + 1] = r
      /\ \A i \in 1..Len(pending) : queue[i] = pending[i]
  BY <1>2, <1>4
<1>6. \A i \in 1..Len(pending) : /\ pending[i] \in Runs /\ pending[i] # r
                                 /\ stage[pending[i]] = "pending"
  BY DEF QueueInv
<1>7. \A i, j \in 1..Len(queue) : queue[i] = queue[j] => i = j
  BY <1>4, <1>5, <1>6 DEF QueueInv
<1>8. \A i \in 1..Len(queue) : st[queue[i]] = "pending"
  BY <1>3, <1>4, <1>5, <1>6
<1>9. Active(st) = Active(stage)
  BY <1>3 DEF Active
<1>10. IsFiniteSet(Active(st)) /\ Cardinality(Active(st)) <= Concurrency
  BY <1>9 DEF QueueInv, NoPlaceIsWasted
<1>11. Drain(st, queue)
  BY <1>1, <1>2
<1>12. QueueInv' /\ \A q \in Runs : st[q] # "pending" => stage'[q] = st[q]
  BY <1>3, <1>5, <1>7, <1>8, <1>10, <1>11, DrainFills
<1> QED
  BY <1>3, <1>12

\* A request at the head of its line is refused, dropped or queued.
LEMMA HandleKeeps ==
  ASSUME RunInv, NEW s \in RunSessions, Handle(s)
  PROVE  RunInv'
<1>1. PICK r : r = Head(line[s]).run
  OBVIOUS
<1>2. /\ line[s] # <<>> /\ Head(line[s]).type = "RUN_REQUESTED" /\ Popped(s)
      /\ \/ stage' = [stage EXCEPT ![r] = "done"] /\ UNCHANGED pending
         \/ Drain([stage EXCEPT ![r] = "pending"], Append(pending, r))
  BY <1>1 DEF Handle, EnqueueRun
<1>3. r \in Runs /\ stage[r] = "asked"
  BY <1>1, <1>2, HeadSays DEF RunInv
<1>4. QueueInv' /\ \A q \in Runs : q # r /\ stage[q] # "pending" => stage'[q] = stage[q]
  <2>1. CASE stage' = [stage EXCEPT ![r] = "done"] /\ UNCHANGED pending
    <3>1. "done" \in Stages
      BY DEF Stages
    <3> QED
      BY <1>3, <2>1, <3>1, StageMoves DEF RunInv
  <2>2. CASE Drain([stage EXCEPT ![r] = "pending"], Append(pending, r))
    BY <1>3, <2>2, JoinFills DEF RunInv
  <2> QED
    BY <1>2, <2>1, <2>2
<1>5. \A q \in Runs : q # r /\ Waiting(q) => stage'[q] = stage[q]
  BY <1>4 DEF Waiting
<1>6. LineInv'
  BY <1>1, <1>2, <1>3, <1>5, LinePopped DEF RunInv
<1> QED
  BY <1>4, <1>6 DEF RunInv

\* A run ends, fails, or goes on to be recorded.
LEMMA RunStepKeeps ==
  ASSUME RunInv, NEW r \in Runs, RunStep(r)
  PROVE  RunInv'
<1>1. CASE Fails(r) \/ RecordFails(r) \/ (Executed(r) /\ Done(r))
  <2>1. Done(r) /\ UNCHANGED line /\ stage[r] \in {"executing", "recording"}
    BY <1>1 DEF Fails, RecordFails, Executed, Unavailable
  <2>2. QueueInv' /\ \A q \in Runs : q # r /\ stage[q] # "pending" => stage'[q] = stage[q]
    BY <2>1, PlaceFreed DEF RunInv
  <2>3. \A q \in Runs : Waiting(q) => stage'[q] = stage[q]
    BY <2>1, <2>2 DEF Waiting
  <2>4. LineInv'
    BY <2>1, <2>3, LineStays DEF RunInv
  <2> QED
    BY <2>2, <2>4 DEF RunInv
<1>2. CASE Executed(r) /\ stage' = [stage EXCEPT ![r] = "recording"] /\ UNCHANGED pending
  <2>1. "recording" \in Stages /\ stage[r] = "executing" /\ UNCHANGED line
    BY <1>2 DEF Executed, Stages
  <2>2. QueueInv' /\ \A q \in Runs : q # r => stage'[q] = stage[q]
    BY <1>2, <2>1, StageMoves DEF RunInv
  <2>3. \A q \in Runs : Waiting(q) => stage'[q] = stage[q]
    BY <2>1, <2>2 DEF Waiting
  <2>4. LineInv'
    BY <2>1, <2>3, LineStays DEF RunInv
  <2> QED
    BY <2>2, <2>4 DEF RunInv
<1>3. CASE Record(r)
  <2>1. /\ "dispatching" \in Stages /\ stage[r] = "recording" /\ UNCHANGED pending
        /\ stage' = [stage EXCEPT ![r] = "dispatching"]
    BY <1>3 DEF Record, Stages
  <2>2. /\ QueueInv' /\ stage'[r] = "dispatching"
        /\ \A q \in Runs : q # r => stage'[q] = stage[q]
    BY <2>1, StageMoves DEF RunInv
  <2>3. line' = [line EXCEPT ![SessionOf[r]] = Append(@, [type |-> "RUN_COMPLETED", run |-> r])]
    BY <1>3 DEF Record, Completed
  <2>4. LineInv'
    BY <2>1, <2>2, <2>3, LinePushed DEF RunInv, Waiting
  <2> QED
    BY <2>2, <2>4 DEF RunInv
<1>4. Executed(r) => Done(r) \/ (stage' = [stage EXCEPT ![r] = "recording"] /\ UNCHANGED pending)
  BY DEF Executed
<1> QED
  BY <1>1, <1>2, <1>3, <1>4 DEF RunStep

\* A completion at the head of its line is dispatched, and its place freed.
LEMMA ObserveKeeps ==
  ASSUME RunInv, NEW s \in RunSessions, Observe(s)
  PROVE  RunInv'
<1>1. PICK r : r = Head(line[s]).run
  OBVIOUS
<1>2. /\ line[s] # <<>> /\ Head(line[s]).type = "RUN_COMPLETED" /\ Popped(s) /\ Done(r)
  BY <1>1 DEF Observe, Unavailable
<1>3. r \in Runs /\ stage[r] = "dispatching"
  BY <1>1, <1>2, HeadSays DEF RunInv
<1>4. QueueInv' /\ \A q \in Runs : q # r /\ stage[q] # "pending" => stage'[q] = stage[q]
  BY <1>2, <1>3, PlaceFreed DEF RunInv
<1>5. \A q \in Runs : q # r /\ Waiting(q) => stage'[q] = stage[q]
  BY <1>4 DEF Waiting
<1>6. LineInv'
  BY <1>1, <1>2, <1>3, <1>5, LinePopped DEF RunInv
<1> QED
  BY <1>4, <1>6 DEF RunInv

\* Every step keeps the invariant, one that changes no run included.
LEMMA RunNextKeeps ==
  ASSUME RunInv, [RunNext]_runVars
  PROVE  RunInv'
<1>1. CASE \E s \in RunSessions : EndRunSession(s) \/ SocketMoves(s)
  <2>1. UNCHANGED <<stage, pending, line>>
    BY <1>1 DEF EndRunSession, SocketMoves
  <2> QED
    BY <2>1 DEF RunInv, QueueInv, LineInv, NoPlaceIsWasted, Active
<1>2. CASE UNCHANGED runVars
  BY <1>2 DEF runVars, RunInv, QueueInv, LineInv, NoPlaceIsWasted, Active
<1>3. CASE \E r \in Runs : RequestRun(r) \/ RunStep(r)
  BY <1>3, RequestKeeps, RunStepKeeps
<1>4. CASE \E s \in RunSessions : Dispatch(s)
  BY <1>4, HandleKeeps, ObserveKeeps DEF Dispatch
<1> QED
  BY <1>1, <1>2, <1>3, <1>4 DEF RunNext

(* A run waits only while every place is taken, and no more run at once     *)
(* than there are places: RunQueue's drain() is called wherever a place is  *)
(* freed, a result whose dispatch failed or whose session ended included.   *)
THEOREM PlacesAreUsed == RunSpec => []NoPlaceIsWasted
<1>1. RunInv => NoPlaceIsWasted
  BY DEF RunInv, QueueInv
<1> QED
  BY RunInitHolds, RunNextKeeps, <1>1, PTL DEF RunSpec

-----------------------------------------------------------------------------
(* The speech cache.                                                       *)

\* A recording that was verified, with the metadata that is its own.
Good(rendition) ==
  rendition.pcm.faithful /\ rendition.pcm = rendition.metadata

\* What a process holds or a page was given is of one verified recording;
\* what lies on disk is of verified ones, and may be of two.
CacheInv ==
  /\ \A p \in Processes : Good(memory[p])
  /\ memory = [p \in Processes |-> memory[p]] /\ work = [p \in Processes |-> work[p]]
  /\ \A p \in Processes : work[p].step \in {"writing", "written"} => work[p].of.faithful
  /\ files = Rendition(files.pcm, files.metadata)
  /\ files.pcm.faithful /\ files.metadata.faithful
  /\ heard = [head |-> heard.head, tail |-> heard.tail]
  /\ Good(heard.head) /\ Good(heard.tail)

\* What a lookup finds is of one verified recording, whatever the disk has.
LEMMA FoundIsGood ==
  ASSUME CacheInv, NEW p \in Processes
  PROVE  Good(Found(p))
BY DEF CacheInv, Found, ReadDisk, Good, Nothing, Rendition, NoRecording

\* Nothing is held, written or heard at the start.
LEMMA CacheInitHolds ==
  ASSUME CacheInit
  PROVE  CacheInv
BY DEF CacheInit, CacheInv, Good, Nothing, Unheard, Rendition, NoRecording, Resting

\* A process holds what a lookup finds.
LEMMA HeldIsGood ==
  ASSUME CacheInv, NEW p \in Processes, NEW held, Good(held), Held(p, held)
  PROVE  /\ \A q \in Processes : Good(memory'[q])
         /\ memory' = [q \in Processes |-> memory'[q]]
BY DEF CacheInv, Held

\* The step of a task, with what it carries.
LEMMA StepCarries ==
  ASSUME CacheInv, NEW p \in Processes, NEW step, NEW of, Step(p, step, of),
         step \in {"writing", "written"} => of.faithful
  PROVE  /\ work' = [q \in Processes |-> work'[q]]
         /\ \A q \in Processes :
              work'[q].step \in {"writing", "written"} => work'[q].of.faithful
BY DEF CacheInv, Step

\* Each step of a process keeps the invariant.
LEMMA ProcessKeeps ==
  ASSUME CacheInv, NEW p \in Processes,
         Ensure(p) \/ Get(p) \/ TaskStep(p) \/ RenderFails(p) \/ Killed(p)
  PROVE  CacheInv'
<1>1. CASE Ensure(p)
  BY <1>1, StepCarries DEF Ensure, CacheInv, Good
<1>2. CASE Get(p)
  BY <1>2, FoundIsGood, HeldIsGood DEF Get, CacheInv, Good
<1>3. CASE Rendered(p)
  <2>1. PICK r \in Recordings : Step(p, "verifying", r)
    BY <1>3 DEF Rendered
  <2> QED
    BY <1>3, <2>1, StepCarries DEF Rendered, CacheInv, Good
<1>4. CASE Verified(p)
  <2>1. CASE work[p].of.faithful
    <3>1. /\ Held(p, Rendition(work[p].of, work[p].of)) /\ Step(p, "writing", work[p].of)
          /\ UNCHANGED <<files, heard>>
      BY <1>4, <2>1 DEF Verified
    <3>2. Good(Rendition(work[p].of, work[p].of))
      BY <2>1 DEF Good, Rendition
    <3> QED
      BY <2>1, <3>1, <3>2, HeldIsGood, StepCarries DEF CacheInv, Good
  <2>2. CASE ~work[p].of.faithful
    <3>1. Step(p, "none", NoRecording) /\ UNCHANGED <<memory, files, heard>>
      BY <1>4, <2>2 DEF Verified, Over
    <3> QED
      BY <3>1, StepCarries DEF CacheInv, Good
  <2> QED
    BY <2>1, <2>2
<1>5. CASE RenamePcm(p)
  <2>1. work[p].of.faithful
    BY <1>5 DEF RenamePcm, At, CacheInv
  <2>2. \/ files' = [files EXCEPT !.pcm = work[p].of] /\ Step(p, "written", work[p].of)
        \/ UNCHANGED files /\ Step(p, "none", NoRecording)
    BY <1>5 DEF RenamePcm, Over
  <2>3. /\ work' = [q \in Processes |-> work'[q]]
        /\ \A q \in Processes :
             work'[q].step \in {"writing", "written"} => work'[q].of.faithful
    BY <2>1, <2>2, StepCarries
  <2>4. /\ files' = Rendition(files'.pcm, files'.metadata)
        /\ files'.pcm.faithful /\ files'.metadata.faithful
    BY <2>1, <2>2 DEF CacheInv, Rendition
  <2> QED
    BY <1>5, <2>3, <2>4 DEF RenamePcm, CacheInv, Good
<1>6. CASE RenameMetadata(p)
  <2>1. work[p].of.faithful
    BY <1>6 DEF RenameMetadata, At, CacheInv
  <2>2. files' = [files EXCEPT !.metadata = work[p].of] /\ Step(p, "none", NoRecording)
    BY <1>6 DEF RenameMetadata, Over
  <2>3. /\ work' = [q \in Processes |-> work'[q]]
        /\ \A q \in Processes :
             work'[q].step \in {"writing", "written"} => work'[q].of.faithful
    BY <2>2, StepCarries
  <2>4. /\ files' = Rendition(files'.pcm, files'.metadata)
        /\ files'.pcm.faithful /\ files'.metadata.faithful
    BY <2>1, <2>2 DEF CacheInv, Rendition
  <2> QED
    BY <1>6, <2>3, <2>4 DEF RenameMetadata, CacheInv, Good
<1>7. CASE RenderFails(p)
  <2>1. Step(p, "none", NoRecording) /\ UNCHANGED <<memory, files, heard>>
    BY <1>7 DEF RenderFails, Over
  <2> QED
    BY <2>1, StepCarries DEF CacheInv, Good
<1>8. CASE Killed(p)
  <2>1. Held(p, Nothing) /\ Step(p, "none", NoRecording) /\ UNCHANGED files
    BY <1>8 DEF Killed, Held, Step, Resting
  <2>2. Good(Nothing)
    BY DEF Good, Nothing, Rendition, NoRecording
  <2>3. /\ heard' = [head |-> heard'.head, tail |-> heard'.tail]
        /\ Good(heard'.head) /\ Good(heard'.tail)
    BY <1>8, <2>2 DEF Killed, CacheInv, Unheard
  <2> QED
    BY <2>1, <2>2, <2>3, HeldIsGood, StepCarries DEF CacheInv, Good
<1> QED
  BY <1>1, <1>2, <1>3, <1>4, <1>5, <1>6, <1>7, <1>8 DEF TaskStep

\* So does giving a page the head of a line, or its tail.
LEMMA DeliveryKeeps ==
  ASSUME CacheInv, Deliver \/ ServeTail
  PROVE  CacheInv'
<1>1. Server \in Processes /\ Good(Found(Server)) /\ Good(Nothing)
  BY FoundIsGood DEF Processes, Good, Nothing, Rendition, NoRecording
<1>2. PICK found : found = Found(Server)
  OBVIOUS
<1>3. Held(Server, found) /\ UNCHANGED <<work, files>>
  BY <1>2 DEF Deliver, ServeTail
<1>4. /\ \A q \in Processes : Good(memory'[q])
      /\ memory' = [q \in Processes |-> memory'[q]]
  BY <1>1, <1>2, <1>3, HeldIsGood
<1>5. heard' = [head |-> found, tail |-> Nothing] \/ heard' = [heard EXCEPT !.tail = found]
  BY <1>2 DEF Deliver, ServeTail
<1>6. /\ heard' = [head |-> heard'.head, tail |-> heard'.tail]
      /\ Good(heard'.head) /\ Good(heard'.tail)
  BY <1>1, <1>2, <1>5 DEF CacheInv
<1> QED
  BY <1>3, <1>4, <1>6 DEF CacheInv, Good

(* What a page is given of a line was verified, and is played at its own    *)
(* rate, whatever processes share the directory and wherever they die:      *)
(* readDisk's hash is what the two files on disk are read by.               *)
THEOREM PlayedIsWhole == CacheSpec => []PlayedWhole
<1>1. CacheInv /\ UNCHANGED cacheVars => CacheInv'
  BY DEF CacheInv, cacheVars, Good
<1>2. CacheInv /\ [CacheNext]_cacheVars => CacheInv'
  BY <1>1, ProcessKeeps, DeliveryKeeps DEF CacheNext
<1>3. CacheInv => PlayedWhole
  BY DEF CacheInv, PlayedWhole, Good
<1> QED
  BY CacheInitHolds, <1>2, <1>3, PTL DEF CacheSpec

=============================================================================
