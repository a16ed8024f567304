-------------------------- MODULE PreparationProofs --------------------------
(***************************************************************************)
(* Proofs about Preparation and Attendance, for every number of keys,      *)
(* processes, calls and questions, and every limit: admission holds, time  *)
(* is credited once, and a preparation that is ready is its interview.     *)
(*                                                                         *)
(* Admission rests on who is past it: at most one worker, the one in the   *)
(* lock, and what it counted then still holds.  The credit rests on what   *)
(* is under way: the time on record, with that of every call that has yet  *)
(* to record its own, fits before the moment the lease speaks of.  The     *)
(* preparation rests on what each worker has in hand at its stage, given   *)
(* that a pin and a wording, once there, stay.                             *)
(***************************************************************************)
EXTENDS Preparation, FiniteSetTheorems, FunctionTheorems, TLAPS

-----------------------------------------------------------------------------
(* Types.                                                                  *)

Asked    == Questions \cup {None}
Ways     == {None, "candidate", "time", "abandoned"}

Interviews ==
  [at : {"active", "ended", "deleted"}, question : Asked, wording : Nat \cup {None},
   created : Nat, started : Int, paused : Nat, why : Ways]

CallsMade ==
  {NoCall} \cup [at : {"resume", "disconnected"}, of : Keys]
  \cup [at : {"credit"}, of : Keys, ticks : Nat]

PrepRows ==
  [status : {"ANALYZING", "REVIEW", "CONFIRMED", "READY", "DELETED"},
   text : {"kept", "expired", "gone"}, facts : BOOLEAN, reader : Nat,
   readerStale : BOOLEAN, pin : Asked, wording : Nat, writer : Nat,
   writerStale : BOOLEAN, session : BOOLEAN]

Analyses == {Resting} \cup [at : {"call", "release"}, token : Nat]

AtWorks == {"choose", "pin", "claim", "write", "release", "lookup", "admit", "insert", "finish"}
Busy == [at : AtWorks, question : Asked, fit : BOOLEAN, wording : Nat, token : Nat]
Jobs == {Resting} \cup Busy

AttendanceTypeOK ==
  /\ clock \in Nat
  /\ interviews \in [Keys -> {NoInterview} \cup Interviews]
  /\ leases \in [Keys -> Int]
  /\ calls \in [Calls -> CallsMade]

BookingTypeOK ==
  /\ preps \in [Preparations -> {NoPreparation} \cup PrepRows]
  /\ analyses \in [Replicas -> [Preparations -> Analyses]]
  /\ works \in [Replicas -> [Keys -> Jobs]]
  /\ bank \subseteq Questions
  /\ {"begun", "prepare"} \subseteq DOMAIN left /\ left.begun \cap left.prepare = {}

Made(k) == interviews[k] # NoInterview

-----------------------------------------------------------------------------
(* The credit.                                                             *)

\* The time call c has yet to put on record for k, and the time of each set of
\* calls together.
Pending(k, c) == IF calls[c].at = "credit" /\ calls[c].of = k THEN calls[c].ticks ELSE 0

Adds(k, total) ==
  /\ total[{}] = 0
  /\ \A S \in SUBSET Calls : \A c \in Calls \ S : total[S \cup {c}] = total[S] + Pending(k, c)

Since(k) == IF Gone(k) THEN leases[k] ELSE clock

\* What is on record and what is under way fit, with the grace, before the
\* moment from which time is lost.
Fits(k) ==
  \E total \in [SUBSET Calls -> Nat] :
    /\ Adds(k, total)
    /\ LET credit == interviews[k].paused + total[Calls]
       IN  credit > 0 => credit + Grace <= Since(k) - interviews[k].created

CreditInv ==
  /\ \A k \in Keys : Made(k) => interviews[k].created <= clock /\ Fits(k)
  /\ \A k \in Keys : Gone(k) =>
       Made(k) /\ interviews[k].created <= leases[k] /\ leases[k] <= clock
  /\ \A c \in Calls : calls[c] # NoCall => Made(calls[c].of)

\* Nobody is connected to an interview there is not.
SocketInv ==
  /\ sockets \in [Keys -> [up : BOOLEAN, since : Int]]
  /\ \A k \in Keys : sockets[k].up => Made(k)

-----------------------------------------------------------------------------
(* Admission.                                                              *)

LockInv ==
  /\ \A p, q \in Replicas, j, k \in Keys :
       On(p, j, "insert") /\ On(q, k, "insert") => p = q /\ j = k
  /\ \A p \in Replicas, k \in Keys : On(p, k, "insert") =>
       lock # {} /\ Admissible(UserOf(k))
  /\ \A x \in lock : \E p \in Replicas, k \in Keys : x = <<p, k>> /\ On(p, k, "insert")

AdmissionInv == LockInv /\ AdmissionHolds

-----------------------------------------------------------------------------
(* Preparations.                                                           *)

\* An interview asks what its preparation pinned, in the words it keeps.
RowInv(k) ==
  LET row == preps[k]
  IN  /\ row = NoPreparation /\ Made(k) => k \in left.begun
      /\ row # NoPreparation =>
           /\ row.writer # 0 => row.wording = 0
           /\ Made(k) => /\ row.pin # None /\ interviews[k].question = row.pin
                         /\ row.wording # 0 /\ interviews[k].wording = row.wording
           /\ row.status = "READY" => Made(k)

\* What a worker has in hand, at its stage.
HandInv(k, w) ==
  LET row == preps[k]
  IN  w # Resting =>
        /\ row # NoPreparation
        /\ w.at = "choose" =>
             /\ w.question # None => row.pin = w.question
             /\ w.wording # 0 => row.wording = w.wording
        /\ w.at = "pin" => w.question # None
        /\ w.at \in {"claim", "write", "release", "lookup", "admit", "insert", "finish"} =>
             w.question # None /\ row.pin = w.question
        /\ w.at = "write" => w.token # 0
        /\ w.at \in {"lookup", "admit", "insert", "finish"} =>
             w.wording # 0 /\ row.wording = w.wording
        /\ w.at = "finish" => Made(k)

BookInv ==
  \A k \in Preparations : RowInv(k) /\ \A p \in Replicas : HandInv(k, works[p][k])

BookingInv ==
  /\ AttendanceTypeOK /\ BookingTypeOK /\ CreditInv /\ SocketInv
  /\ AdmissionInv /\ BookInv

-----------------------------------------------------------------------------
(* What is under way, summed up.                                           *)

\* What says what exists and what is prepared is never spent.
LeftKept ==
  DOMAIN left' = DOMAIN left /\ left'.begun = left.begun /\ left'.prepare = left.prepare

\* Whatever else is spent leaves them alone.
LEMMA SpendKeeps ==
  ASSUME BookingTypeOK, NEW kind, kind \notin {"begun", "prepare"}, Spend(kind)
  PROVE  LeftKept
BY DEF Spend, LeftKept, BookingTypeOK

\* A change of one call changes every total by as much.
LEMMA TotalsMove ==
  ASSUME NEW k \in Keys, NEW c \in Calls, NEW delta \in Int,
         NEW total \in [SUBSET Calls -> Nat], Adds(k, total),
         \A d \in Calls : Pending(k, d) \in Nat,
         \A d \in Calls \ {c} : Pending(k, d)' = Pending(k, d),
         Pending(k, c)' = Pending(k, c) + delta, Pending(k, c)' \in Nat
  PROVE  \E new \in [SUBSET Calls -> Nat] :
           Adds(k, new)' /\ new[Calls] = total[Calls] + delta
<1>1. PICK new : new = [S \in SUBSET Calls |-> IF c \in S THEN total[S] + delta ELSE total[S]]
  OBVIOUS
<1>2. ASSUME NEW S \in SUBSET Calls, c \in S PROVE total[S] + delta \in Nat
  <2>1. S \ {c} \in SUBSET Calls /\ c \in Calls \ (S \ {c}) /\ (S \ {c}) \cup {c} = S
    BY <1>2
  <2>2. total[S] = total[S \ {c}] + Pending(k, c)
    BY <2>1 DEF Adds
  <2>3. total[S \ {c}] \in Nat /\ total[S] \in Nat /\ Pending(k, c) \in Nat
    BY <2>1
  <2> QED
    BY <2>2, <2>3
<1>3. new \in [SUBSET Calls -> Nat]
  BY <1>1, <1>2
<1>4. new[{}] = 0
  BY <1>1 DEF Adds
<1>5. ASSUME NEW S \in SUBSET Calls, NEW d \in Calls \ S
      PROVE  new[S \cup {d}] = new[S] + Pending(k, d)'
  <2>1. S \cup {d} \in SUBSET Calls /\ total[S \cup {d}] = total[S] + Pending(k, d)
    BY <1>5 DEF Adds
  <2>2. total[S] \in Nat /\ total[S \cup {d}] \in Nat /\ Pending(k, d) \in Nat
    BY <2>1
  <2>3. CASE d = c
    <3>1. c \notin S /\ new[S] = total[S] /\ new[S \cup {d}] = total[S \cup {d}] + delta
      BY <1>1, <1>5, <2>1, <2>3
    <3> QED
      BY <2>1, <2>2, <2>3, <3>1
  <2>4. CASE d # c /\ c \in S
    <3>1. new[S] = total[S] + delta /\ new[S \cup {d}] = total[S \cup {d}] + delta
      BY <1>1, <2>1, <2>4
    <3> QED
      BY <2>1, <2>2, <2>4, <3>1
  <2>5. CASE d # c /\ c \notin S
    <3>1. new[S] = total[S] /\ new[S \cup {d}] = total[S \cup {d}]
      BY <1>1, <2>1, <2>5
    <3> QED
      BY <2>1, <2>2, <2>5, <3>1
  <2> QED
    BY <2>3, <2>4, <2>5
<1>6. new[Calls] = total[Calls] + delta
  BY <1>1
<1> QED
  BY <1>3, <1>4, <1>5, <1>6 DEF Adds

\* With nothing under way, every total is nothing.
LEMMA NothingPending ==
  ASSUME NEW k \in Keys, \A d \in Calls : Pending(k, d)' = 0
  PROVE  \E new \in [SUBSET Calls -> Nat] : Adds(k, new)' /\ new[Calls] = 0
<1>1. PICK new : new = [S \in SUBSET Calls |-> 0]
  OBVIOUS
<1>2. new \in [SUBSET Calls -> Nat] /\ new[{}] = 0 /\ new[Calls] = 0
  BY <1>1
<1>3. \A S \in SUBSET Calls : \A d \in Calls \ S : new[S \cup {d}] = new[S] + Pending(k, d)'
  BY <1>1
<1> QED
  BY <1>2, <1>3 DEF Adds

\* Time is what a call has to put on record, if anything.
LEMMA PendingTyped ==
  ASSUME AttendanceTypeOK
  PROVE  \A k \in Keys, c \in Calls : Pending(k, c) \in Nat
BY DEF AttendanceTypeOK, CallsMade, NoCall, None, Pending

\* One call changes by delta, and the row by gain: what fitted still does, if
\* it does whatever the total was.
LEMMA FitsMoves ==
  ASSUME AttendanceTypeOK, NEW k \in Keys, Fits(k), NEW c \in Calls, NEW delta \in Int,
         NEW gain \in Int,
         \A d \in Calls \ {c} : Pending(k, d)' = Pending(k, d),
         Pending(k, c)' = Pending(k, c) + delta, Pending(k, c)' \in Nat,
         interviews'[k].paused = interviews[k].paused + gain,
         interviews[k].paused \in Nat, interviews[k].paused + gain \in Nat,
         interviews'[k].created = interviews[k].created, interviews[k].created \in Nat,
         \A t \in Nat :
           LET credit == interviews[k].paused + t
           IN  (credit > 0 => credit + Grace <= Since(k) - interviews[k].created)
               => (credit + gain + delta > 0 =>
                    credit + gain + delta + Grace <= Since(k)' - interviews[k].created)
  PROVE  Fits(k)'
<1>1. PICK total \in [SUBSET Calls -> Nat] :
        /\ Adds(k, total)
        /\ LET credit == interviews[k].paused + total[Calls]
           IN  credit > 0 => credit + Grace <= Since(k) - interviews[k].created
  BY DEF Fits
<1>2. PICK new \in [SUBSET Calls -> Nat] :
        Adds(k, new)' /\ new[Calls] = total[Calls] + delta
  BY <1>1, PendingTyped, TotalsMove
<1>3. total[Calls] \in Nat /\ new[Calls] \in Nat
  OBVIOUS
<1>4. interviews'[k].paused + new[Calls] = interviews[k].paused + total[Calls] + gain + delta
  BY <1>2, <1>3
<1>5. LET credit == interviews'[k].paused + new[Calls]
      IN  credit > 0 => credit + Grace <= Since(k)' - interviews'[k].created
  BY <1>1, <1>3, <1>4
<1> QED
  BY <1>2, <1>5 DEF Fits

\* Nothing is under way but what was, and time does not go back.
LEMMA FitsStays ==
  ASSUME AttendanceTypeOK, NEW k \in Keys, Fits(k),
         \A d \in Calls : Pending(k, d)' = Pending(k, d),
         interviews'[k].paused = interviews[k].paused,
         interviews'[k].created = interviews[k].created,
         interviews[k].paused \in Nat, interviews[k].created \in Nat,
         Since(k) \in Int, Since(k)' \in Int, Since(k) <= Since(k)'
  PROVE  Fits(k)'
<1>1. PICK total \in [SUBSET Calls -> Nat] :
        /\ Adds(k, total)
        /\ LET credit == interviews[k].paused + total[Calls]
           IN  credit > 0 => credit + Grace <= Since(k) - interviews[k].created
  BY DEF Fits
<1>2. Adds(k, total)'
  BY <1>1 DEF Adds
<1>3. total[Calls] \in Nat /\ Grace \in Nat
  BY AttendanceAssumption
<1> QED
  BY <1>1, <1>2, <1>3 DEF Fits

-----------------------------------------------------------------------------
(* Attendance.                                                             *)

\* Interviews neither come nor go, nor begin again, nor ask something else.
RowKept(k) ==
  /\ Made(k)' <=> Made(k)
  /\ Active(k)' => Active(k)
  /\ Made(k) => /\ interviews'[k].question = interviews[k].question
                /\ interviews'[k].wording = interviews[k].wording
                /\ interviews'[k].created = interviews[k].created

AttendanceStep ==
  AttendanceTypeOK' /\ CreditInv' /\ LeftKept /\ \A k \in Keys : RowKept(k)

\* A row there is.
LEMMA MadeTyped ==
  ASSUME AttendanceTypeOK, NEW k \in Keys
  PROVE  /\ Made(k) => interviews[k] \in Interviews
         /\ Made(k) <=> interviews[k].at # None
         /\ Exists(k) => Made(k)
BY DEF AttendanceTypeOK, Interviews, NoInterview, None, Made, Exists

\* The moment from which time is lost is one.
LEMMA SinceTyped ==
  ASSUME AttendanceTypeOK, NEW k \in Keys
  PROVE  Since(k) \in Int
BY DEF AttendanceTypeOK, Since

\* A lease that is lost or begins speaks of no earlier moment.
LEMMA SinceGrows ==
  ASSUME AttendanceTypeOK, AttendanceTypeOK', CreditInv, NEW k \in Keys, clock <= clock',
         \/ leases'[k] \in {leases[k], Never}
         \/ ~Gone(k) /\ leases'[k] = clock
  PROVE  Since(k) \in Int /\ Since(k)' \in Int /\ Since(k) <= Since(k)'
<1>1. /\ leases[k] \in Int /\ leases'[k] \in Int /\ clock \in Nat /\ clock' \in Nat
      /\ Never \notin Nat
  BY DEF AttendanceTypeOK, Never
<1>2. Gone(k) => leases[k] <= clock
  BY DEF CreditInv
<1> QED
  BY <1>1, <1>2 DEF Since, Gone

\* What a step has to show of the credit.
LEMMA CreditStep ==
  ASSUME AttendanceTypeOK, CreditInv, AttendanceTypeOK', LeftKept,
         \A k \in Keys : RowKept(k), clock <= clock',
         \A k \in Keys : \/ leases'[k] \in {leases[k], Never}
                         \/ ~Gone(k) /\ leases'[k] = clock /\ Made(k),
         \A c \in Calls : calls'[c] # NoCall => calls'[c].of \in Keys /\ Made(calls'[c].of),
         \A k \in Keys : Made(k) => Fits(k)'
  PROVE  AttendanceStep
<1>1. clock \in Nat /\ clock' \in Nat
  BY DEF AttendanceTypeOK
<1>2. ASSUME NEW k \in Keys, Made(k)' PROVE interviews'[k].created <= clock' /\ Fits(k)'
  <2>1. /\ Made(k) /\ interviews'[k].created = interviews[k].created
        /\ interviews[k].created <= clock
    BY <1>2 DEF RowKept, CreditInv
  <2>2. interviews[k].created \in Nat
    BY <2>1, MadeTyped DEF Interviews
  <2> QED
    BY <1>1, <2>1, <2>2
<1>3. ASSUME NEW k \in Keys, Gone(k)'
      PROVE  Made(k)' /\ interviews'[k].created <= leases'[k] /\ leases'[k] <= clock'
  <2>1. CASE leases'[k] = leases[k]
    <3>1. Gone(k)
      BY <1>3, <2>1 DEF Gone
    <3>2. Made(k) /\ interviews[k].created <= leases[k] /\ leases[k] <= clock
      BY <3>1 DEF CreditInv
    <3>3. leases[k] \in Int /\ Made(k)' /\ interviews'[k].created = interviews[k].created
      BY <3>2 DEF RowKept, AttendanceTypeOK
    <3> QED
      BY <1>1, <2>1, <3>2, <3>3
  <2>2. CASE leases'[k] = clock /\ Made(k)
    <3>1. /\ interviews[k].created <= clock /\ Made(k)'
          /\ interviews'[k].created = interviews[k].created
      BY <2>2 DEF CreditInv, RowKept
    <3> QED
      BY <1>1, <2>2, <3>1
  <2> QED
    BY <1>3, <2>1, <2>2 DEF Gone
<1>4. \A c \in Calls : calls'[c] # NoCall => Made(calls[c].of)'
  BY DEF RowKept
<1>5. CreditInv'
  BY <1>2, <1>3, <1>4 DEF CreditInv
<1> QED
  BY <1>5 DEF AttendanceStep

\* A step that gives no credit, nor takes any up.
LEMMA NoCreditStep ==
  ASSUME AttendanceTypeOK, CreditInv, AttendanceTypeOK', LeftKept,
         \A k \in Keys : RowKept(k), clock <= clock',
         \A k \in Keys : \/ leases'[k] \in {leases[k], Never}
                         \/ ~Gone(k) /\ leases'[k] = clock /\ Made(k),
         \A c \in Calls : calls'[c] # NoCall => calls'[c].of \in Keys /\ Made(calls'[c].of),
         \A k \in Keys : Made(k) => interviews'[k].paused = interviews[k].paused,
         \A k \in Keys, c \in Calls : Pending(k, c)' = Pending(k, c)
  PROVE  AttendanceStep
<1>1. ASSUME NEW k \in Keys, Made(k) PROVE Fits(k)'
  <2>1. /\ interviews[k].paused \in Nat /\ interviews[k].created \in Nat
        /\ interviews'[k].created = interviews[k].created
    BY <1>1, MadeTyped DEF Interviews, RowKept
  <2>2. Since(k) \in Int /\ Since(k)' \in Int /\ Since(k) <= Since(k)'
    BY SinceGrows
  <2>3. Fits(k)
    BY <1>1 DEF CreditInv
  <2> QED
    BY <1>1, <2>1, <2>2, <2>3, FitsStays
<1> QED
  BY <1>1, CreditStep

\* Rows that a step does not touch.
LEMMA RowsAside ==
  ASSUME AttendanceTypeOK, UNCHANGED interviews
  PROVE  /\ \A k \in Keys : RowKept(k)
         /\ \A k \in Keys : Made(k) => interviews'[k].paused = interviews[k].paused
         /\ interviews' \in [Keys -> {NoInterview} \cup Interviews]
BY DEF RowKept, Made, Active, AttendanceTypeOK

\* Calls that a step does not touch.
LEMMA CallsAside ==
  ASSUME AttendanceTypeOK, CreditInv, UNCHANGED calls
  PROVE  /\ \A c \in Calls : calls'[c] # NoCall => calls'[c].of \in Keys /\ Made(calls'[c].of)
         /\ \A k \in Keys, c \in Calls : Pending(k, c)' = Pending(k, c)
         /\ calls' \in [Calls -> CallsMade]
<1>1. \A c \in Calls : calls[c] # NoCall => calls[c].of \in Keys
  BY DEF AttendanceTypeOK, CallsMade
<1> QED
  BY <1>1 DEF AttendanceTypeOK, CreditInv, Pending

\* A call that puts nothing on record itself is made where there was none.
LEMMA CallMade ==
  ASSUME AttendanceTypeOK, CreditInv, NEW c \in Calls, calls[c] = NoCall, NEW k \in Keys,
         Made(k), NEW at \in {"resume", "disconnected"},
         calls' = [calls EXCEPT ![c] = [at |-> at, of |-> k]]
  PROVE  /\ \A d \in Calls : calls'[d] # NoCall => calls'[d].of \in Keys /\ Made(calls'[d].of)
         /\ \A j \in Keys, d \in Calls : Pending(j, d)' = Pending(j, d)
         /\ calls' \in [Calls -> CallsMade]
<1>1. \A d \in Calls : calls[d] # NoCall => calls[d].of \in Keys
  BY DEF AttendanceTypeOK, CallsMade
<1>2. PICK call : call = [at |-> at, of |-> k]
  OBVIOUS
<1>3. call \in CallsMade /\ call.at # "credit" /\ call.of = k
  BY <1>2 DEF CallsMade
<1>4. /\ calls'[c] = call /\ \A d \in Calls : d # c => calls'[d] = calls[d]
      /\ calls' \in [Calls -> CallsMade]
  BY <1>2, <1>3 DEF AttendanceTypeOK
<1>5. calls[c].at # "credit"
  BY DEF NoCall, None
<1> QED
  BY <1>1, <1>3, <1>4, <1>5 DEF CreditInv, Pending

\* One that is answered, and put nothing on record, is gone.
LEMMA CallAnswered ==
  ASSUME AttendanceTypeOK, CreditInv, NEW c \in Calls, calls[c].at # "credit", Answer(c)
  PROVE  /\ \A d \in Calls : calls'[d] # NoCall => calls'[d].of \in Keys /\ Made(calls'[d].of)
         /\ \A j \in Keys, d \in Calls : Pending(j, d)' = Pending(j, d)
         /\ calls' \in [Calls -> CallsMade]
<1>1. \A d \in Calls : calls[d] # NoCall => calls[d].of \in Keys
  BY DEF AttendanceTypeOK, CallsMade
<1>2. /\ calls'[c] = NoCall /\ \A d \in Calls : d # c => calls'[d] = calls[d]
      /\ calls' \in [Calls -> CallsMade]
  BY DEF Answer, AttendanceTypeOK, CallsMade
<1>3. NoCall.at # "credit"
  BY DEF NoCall, None
<1> QED
  BY <1>1, <1>2, <1>3 DEF CreditInv, Pending

\* The end of an interview: its row and its lease.
LEMMA EndedStep ==
  ASSUME AttendanceTypeOK, CreditInv, NEW k \in Keys, NEW why \in Ways, Ended(k, why),
         UNCHANGED <<clock, calls>>, LeftKept
  PROVE  AttendanceStep
<1>1. CASE interviews[k].at = "active"
  <2>1. interviews[k] \in Interviews
    BY <1>1, MadeTyped DEF None
  <2>2. PICK row : row = [interviews[k] EXCEPT !.at = "ended", !.why = why]
    OBVIOUS
  <2>3. "ended" \in {"active", "ended", "deleted"}
    OBVIOUS
  <2>4. row \in Interviews
    BY <2>1, <2>2, <2>3 DEF Interviews
  <2>5. /\ row.at = "ended" /\ row.question = interviews[k].question
        /\ row.wording = interviews[k].wording /\ row.created = interviews[k].created
        /\ row.paused = interviews[k].paused
    BY <2>1, <2>2 DEF Interviews
  <2>6. interviews' = [interviews EXCEPT ![k] = row]
    BY <1>1, <2>2 DEF Ended, AttendanceTypeOK
  <2>7. /\ interviews'[k] = row /\ \A j \in Keys : j # k => interviews'[j] = interviews[j]
        /\ interviews' \in [Keys -> {NoInterview} \cup Interviews]
    BY <2>4, <2>6 DEF AttendanceTypeOK
  <2>8. /\ leases' \in [Keys -> Int]
        /\ \A j \in Keys : leases'[j] \in {leases[j], Never}
    BY DEF Ended, AttendanceTypeOK, Never
  <2>9. row # NoInterview /\ interviews[k] # NoInterview
    BY <1>1, <2>5 DEF NoInterview, None
  <2>10. \A j \in Keys : RowKept(j)
    BY <1>1, <2>5, <2>7, <2>9 DEF RowKept, Made, Active
  <2>11. \A j \in Keys : Made(j) => interviews'[j].paused = interviews[j].paused
    BY <2>5, <2>7
  <2>12. AttendanceTypeOK' /\ clock <= clock'
    BY <2>7, <2>8 DEF AttendanceTypeOK
  <2> QED
    BY <2>8, <2>10, <2>11, <2>12, CallsAside, NoCreditStep
<1>2. CASE interviews[k].at # "active"
  <2>1. interviews' = interviews
    BY <1>2 DEF Ended, AttendanceTypeOK
  <2>2. /\ leases' \in [Keys -> Int]
        /\ \A j \in Keys : leases'[j] \in {leases[j], Never}
    BY DEF Ended, AttendanceTypeOK, Never
  <2>3. AttendanceTypeOK' /\ clock <= clock'
    BY <2>1, <2>2 DEF AttendanceTypeOK
  <2> QED
    BY <2>1, <2>2, <2>3, RowsAside, CallsAside, NoCreditStep
<1> QED
  BY <1>1, <1>2

\* A step that leaves rows and leases alone.
LEMMA PageStep ==
  ASSUME AttendanceTypeOK, CreditInv, UNCHANGED <<clock, interviews, leases>>, LeftKept,
         calls' \in [Calls -> CallsMade],
         \A c \in Calls : calls'[c] # NoCall => calls'[c].of \in Keys /\ Made(calls'[c].of),
         \A k \in Keys, c \in Calls : Pending(k, c)' = Pending(k, c)
  PROVE  AttendanceStep
<1>1. AttendanceTypeOK' /\ clock <= clock'
  BY DEF AttendanceTypeOK
<1> QED
  BY <1>1, RowsAside, NoCreditStep

\* The page opens or closes, dials or loses its socket.
LEMMA PageKeeps ==
  ASSUME AttendanceTypeOK, BookingTypeOK, CreditInv, SocketInv, NEW k \in Keys,
         Open(k) \/ Close(k) \/ Dial(k) \/ Drop(k)
  PROVE  AttendanceStep
<1>1. CASE Open(k)
  <2>1. UNCHANGED <<clock, interviews, leases>> /\ LeftKept
    BY <1>1, SpendKeeps DEF Open
  <2>2. PICK c \in Calls : /\ calls[c] = NoCall
                           /\ calls' = [calls EXCEPT ![c] = [at |-> "resume", of |-> k]]
    BY <1>1 DEF Open
  <2>3. Made(k)
    BY <1>1, MadeTyped DEF Open
  <2>4. /\ \A d \in Calls : calls'[d] # NoCall => calls'[d].of \in Keys /\ Made(calls'[d].of)
        /\ \A j \in Keys, d \in Calls : Pending(j, d)' = Pending(j, d)
        /\ calls' \in [Calls -> CallsMade]
    BY <2>2, <2>3, CallMade
  <2> QED
    BY <2>1, <2>4, PageStep
<1>2. CASE Close(k)
  <2>1. UNCHANGED <<clock, interviews, leases, calls>> /\ LeftKept
    BY <1>2, SpendKeeps DEF Close
  <2> QED
    BY <2>1, CallsAside, PageStep
<1>3. CASE Dial(k)
  <2>1. UNCHANGED <<clock, interviews, leases, calls>> /\ LeftKept
    BY <1>3 DEF Dial, LeftKept
  <2> QED
    BY <2>1, CallsAside, PageStep
<1>4. CASE Drop(k)
  <2>1. UNCHANGED <<clock, interviews, leases>> /\ LeftKept /\ Made(k)
    BY <1>4, SpendKeeps DEF Drop, SocketInv
  <2>2. ASSUME NEW c \in Calls, calls[c] = NoCall,
               calls' = [calls EXCEPT ![c] = [at |-> "disconnected", of |-> k]]
        PROVE  AttendanceStep
    BY <2>1, <2>2, CallMade, PageStep
  <2>3. CASE UNCHANGED calls
    BY <2>1, <2>3, CallsAside, PageStep
  <2> QED
    BY <1>4, <2>2, <2>3 DEF Drop
<1> QED
  BY <1>1, <1>2, <1>3, <1>4

\* The first transition starts the clock.
LEMMA StartKeeps ==
  ASSUME AttendanceTypeOK, BookingTypeOK, CreditInv, NEW k \in Keys, Start(k)
  PROVE  AttendanceStep
<1>1. /\ UNCHANGED <<clock, leases, calls>> /\ LeftKept
      /\ interviews' = [interviews EXCEPT ![k].started = clock]
      /\ interviews[k].at = "active"
  BY DEF Start, LeftKept, Active
<1>2. interviews[k] \in Interviews
  BY <1>1, MadeTyped DEF None
<1>3. PICK row : row = [interviews[k] EXCEPT !.started = clock]
  OBVIOUS
<1>4. clock \in Int
  BY DEF AttendanceTypeOK
<1>5. /\ row \in Interviews
      /\ row.at = "active" /\ row.question = interviews[k].question
      /\ row.wording = interviews[k].wording /\ row.created = interviews[k].created
      /\ row.paused = interviews[k].paused
  BY <1>1, <1>2, <1>3, <1>4 DEF Interviews
<1>6. interviews' = [interviews EXCEPT ![k] = row]
  BY <1>1, <1>3 DEF AttendanceTypeOK
<1>7. /\ interviews'[k] = row /\ \A j \in Keys : j # k => interviews'[j] = interviews[j]
      /\ interviews' \in [Keys -> {NoInterview} \cup Interviews]
  BY <1>5, <1>6 DEF AttendanceTypeOK
<1>8. row # NoInterview /\ interviews[k] # NoInterview
  BY <1>1, <1>5 DEF NoInterview, None
<1>9. /\ \A j \in Keys : RowKept(j)
      /\ \A j \in Keys : Made(j) => interviews'[j].paused = interviews[j].paused
  BY <1>1, <1>5, <1>7, <1>8 DEF RowKept, Made, Active
<1>10. AttendanceTypeOK' /\ clock <= clock' /\ \A j \in Keys : leases'[j] \in {leases[j], Never}
  BY <1>1, <1>7 DEF AttendanceTypeOK
<1> QED
  BY <1>1, <1>9, <1>10, CallsAside, NoCreditStep

\* The candidate ends it, or the sweep does.
LEMMA EndingKeeps ==
  ASSUME AttendanceTypeOK, BookingTypeOK, CreditInv, NEW k \in Keys,
         EndInterview(k) \/ \E why \in {"time", "abandoned"} : EndDue(k, why)
  PROVE  AttendanceStep
<1>1. CASE EndInterview(k)
  <2>1. LeftKept /\ UNCHANGED <<clock, calls>> /\ Ended(k, "candidate") /\ "candidate" \in Ways
    BY <1>1, SpendKeeps DEF EndInterview, Ways
  <2> QED
    BY <2>1, EndedStep
<1>2. ASSUME NEW why \in {"time", "abandoned"}, EndDue(k, why) PROVE AttendanceStep
  <2>1. LeftKept /\ UNCHANGED <<clock, calls>> /\ Ended(k, why) /\ why \in Ways
    BY <1>2 DEF EndDue, LeftKept, Ways
  <2> QED
    BY <2>1, EndedStep
<1> QED
  BY <1>1, <1>2

\* /resume: the lease, and the credit for what it spoke of.
LEMMA ResumeKeeps ==
  ASSUME AttendanceTypeOK, BookingTypeOK, CreditInv, NEW c \in Calls, Resume(c)
  PROVE  AttendanceStep
<1>1. calls[c].at = "resume" /\ UNCHANGED <<clock, interviews>> /\ LeftKept
  BY DEF Resume, LeftKept
<1>2. PICK k \in Keys : k = calls[c].of /\ Made(k)
  <2>1. calls[c] # NoCall
    BY <1>1 DEF NoCall, None
  <2>2. calls[c].of \in Keys
    BY <2>1 DEF AttendanceTypeOK, CallsMade
  <2> QED
    BY <2>1, <2>2 DEF CreditInv
<1>3. CASE Answer(c) /\ leases' \in {leases, [leases EXCEPT ![k] = Never]}
  <2>1. leases' \in [Keys -> Int] /\ \A j \in Keys : leases'[j] \in {leases[j], Never}
    BY <1>3 DEF AttendanceTypeOK, Never
  <2>2. AttendanceTypeOK' /\ clock <= clock'
    BY <1>1, <1>3, <2>1, CallAnswered DEF AttendanceTypeOK
  <2> QED
    BY <1>1, <1>3, <2>1, <2>2, CallAnswered, RowsAside, NoCreditStep
<1>4. CASE /\ leases' = [leases EXCEPT ![k] = Never] /\ Credit(k) > 0
           /\ calls' = [calls EXCEPT ![c] = [at |-> "credit", of |-> k, ticks |-> Credit(k)]]
  <2>1. /\ Gone(k) /\ Credit(k) = clock - leases[k] - Grace /\ Credit(k) \in Nat
        /\ leases[k] \in Int /\ clock \in Nat /\ Grace \in Nat
    BY <1>4, AttendanceAssumption DEF Credit, AttendanceTypeOK
  <2>2. PICK call : call = [at |-> "credit", of |-> k, ticks |-> Credit(k)]
    OBVIOUS
  <2>3. call \in CallsMade /\ call.at = "credit" /\ call.of = k /\ call.ticks = Credit(k)
    BY <2>1, <2>2 DEF CallsMade
  <2>4. /\ calls'[c] = call /\ \A d \in Calls : d # c => calls'[d] = calls[d]
        /\ calls' \in [Calls -> CallsMade]
    BY <1>4, <2>2, <2>3 DEF AttendanceTypeOK
  <2>5. /\ leases' \in [Keys -> Int] /\ leases'[k] = Never
        /\ \A j \in Keys : leases'[j] \in {leases[j], Never}
    BY <1>4 DEF AttendanceTypeOK, Never
  <2>6. AttendanceTypeOK' /\ clock <= clock'
    BY <1>1, <2>4, <2>5 DEF AttendanceTypeOK
  <2>7. \A d \in Calls : calls'[d] # NoCall => calls'[d].of \in Keys /\ Made(calls'[d].of)
    BY <1>2, <2>3, <2>4 DEF CreditInv, AttendanceTypeOK, CallsMade
  <2>8. \A j \in Keys, d \in Calls : d # c => Pending(j, d)' = Pending(j, d)
    BY <2>4 DEF Pending
  <2>9. ASSUME NEW j \in Keys, Made(j), j # k PROVE Fits(j)'
    <3>1. \A d \in Calls : Pending(j, d)' = Pending(j, d)
      <4>1. Pending(j, c)' = 0 /\ Pending(j, c) = 0
        BY <1>1, <2>3, <2>4, <2>9 DEF Pending
      <4> QED
        BY <2>8, <4>1
    <3>2. Since(j) \in Int /\ Since(j)' \in Int /\ Since(j) <= Since(j)'
      BY <2>5, <2>6, SinceGrows
    <3>3. interviews[j].paused \in Nat /\ interviews[j].created \in Nat /\ Fits(j)
      BY <2>9, MadeTyped DEF Interviews, CreditInv
    <3> QED
      BY <1>1, <3>1, <3>2, <3>3, FitsStays
  <2>10. Fits(k)'
    <3>1. PICK delta \in Nat : delta = Credit(k)
      BY <2>1
    <3>2. Pending(k, c) = 0 /\ Pending(k, c)' = delta
      BY <1>1, <2>3, <2>4, <3>1 DEF Pending
    <3>3. interviews[k].paused \in Nat /\ interviews[k].created \in Nat /\ Fits(k)
      BY <1>2, MadeTyped DEF Interviews, CreditInv
    <3>4. Since(k) = leases[k] /\ Since(k)' = clock
      BY <1>1, <2>1, <2>5 DEF Since, Gone
    <3>5. interviews[k].created <= leases[k]
      BY <2>1 DEF CreditInv
    <3>6. \A t \in Nat :
            LET credit == interviews[k].paused + t
            IN  (credit > 0 => credit + Grace <= Since(k) - interviews[k].created)
                => (credit + 0 + delta > 0 =>
                     credit + 0 + delta + Grace <= Since(k)' - interviews[k].created)
      BY <2>1, <3>1, <3>3, <3>4, <3>5
    <3>7. /\ Pending(k, c)' = Pending(k, c) + delta /\ Pending(k, c)' \in Nat
          /\ interviews'[k].paused = interviews[k].paused + 0
          /\ interviews[k].paused + 0 \in Nat
          /\ interviews'[k].created = interviews[k].created
          /\ \A d \in Calls \ {c} : Pending(k, d)' = Pending(k, d)
      BY <1>1, <2>8, <3>1, <3>2, <3>3
    <3> QED
      BY <3>3, <3>6, <3>7, FitsMoves
  <2> QED
    BY <1>1, <2>5, <2>6, <2>7, <2>9, <2>10, RowsAside, CreditStep
<1> QED
  BY <1>2, <1>3, <1>4 DEF Resume

\* The credit is put on record, or dropped: the interview is over, the call
\* was lost.
LEMMA CreditGoes ==
  ASSUME AttendanceTypeOK, CreditInv, NEW c \in Calls, calls[c].at = "credit", Answer(c),
         UNCHANGED <<clock, leases>>, LeftKept,
         \/ UNCHANGED interviews
         \/ /\ Active(calls[c].of)
            /\ interviews' = [interviews EXCEPT ![calls[c].of].paused = @ + calls[c].ticks]
  PROVE  AttendanceStep
<1>1. PICK k \in Keys : k = calls[c].of /\ Made(k)
  <2>1. calls[c] # NoCall
    BY DEF NoCall, None
  <2>2. calls[c].of \in Keys
    BY <2>1 DEF AttendanceTypeOK, CallsMade
  <2> QED
    BY <2>1, <2>2 DEF CreditInv
<1>2. PICK ticks \in Nat : ticks = calls[c].ticks
  BY DEF AttendanceTypeOK, CallsMade, NoCall, None
<1>3. /\ calls'[c] = NoCall /\ \A d \in Calls : d # c => calls'[d] = calls[d]
      /\ calls' \in [Calls -> CallsMade] /\ NoCall.at # "credit"
  BY DEF Answer, AttendanceTypeOK, CallsMade, NoCall, None
<1>4. \A d \in Calls : calls'[d] # NoCall => calls'[d].of \in Keys /\ Made(calls'[d].of)
  BY <1>3 DEF CreditInv, AttendanceTypeOK, CallsMade
<1>5. \A j \in Keys, d \in Calls : d # c \/ j # k => Pending(j, d)' = Pending(j, d)
  BY <1>1, <1>3 DEF Pending
<1>6. Pending(k, c) = ticks /\ Pending(k, c)' = 0
  BY <1>1, <1>2, <1>3 DEF Pending
<1>7. PICK gain \in {0, ticks} :
        /\ \A j \in Keys : RowKept(j)
        /\ \A j \in Keys \ {k} : Made(j) => interviews'[j].paused = interviews[j].paused
        /\ interviews'[k].paused = interviews[k].paused + gain
        /\ interviews' \in [Keys -> {NoInterview} \cup Interviews]
  <2>1. interviews[k] \in Interviews /\ interviews[k].paused \in Nat
    BY <1>1, MadeTyped DEF Interviews
  <2>2. CASE UNCHANGED interviews
    BY <2>1, <2>2, RowsAside, <1>1
  <2>3. CASE interviews' = [interviews EXCEPT ![k].paused = @ + ticks]
    <3>1. PICK paused \in Nat : paused = interviews[k].paused + ticks
      BY <2>1
    <3>2. PICK row : row = [interviews[k] EXCEPT !.paused = paused]
      OBVIOUS
    <3>3. /\ row \in Interviews /\ row.paused = paused
          /\ row.at = interviews[k].at /\ row.question = interviews[k].question
          /\ row.wording = interviews[k].wording /\ row.created = interviews[k].created
      BY <2>1, <3>1, <3>2 DEF Interviews
    <3>4. interviews' = [interviews EXCEPT ![k] = row]
      BY <2>3, <3>1, <3>2 DEF AttendanceTypeOK
    <3>5. /\ interviews'[k] = row /\ \A j \in Keys : j # k => interviews'[j] = interviews[j]
          /\ interviews' \in [Keys -> {NoInterview} \cup Interviews]
      BY <3>3, <3>4 DEF AttendanceTypeOK
    <3>6. row # NoInterview
      BY <3>3 DEF NoInterview, Interviews, None
    <3>7. \A j \in Keys : RowKept(j)
      BY <1>1, <3>3, <3>5, <3>6 DEF RowKept, Made, Active
    <3> QED
      BY <3>1, <3>3, <3>5, <3>7
  <2> QED
    BY <1>1, <1>2, <2>2, <2>3
<1>8. AttendanceTypeOK' /\ clock <= clock' /\ \A j \in Keys : leases'[j] \in {leases[j], Never}
  BY <1>3, <1>7 DEF AttendanceTypeOK
<1>9. ASSUME NEW j \in Keys, Made(j), j # k PROVE Fits(j)'
  <2>1. Since(j) \in Int /\ Since(j)' \in Int /\ Since(j) <= Since(j)'
    BY <1>8, SinceGrows
  <2>2. /\ interviews[j].paused \in Nat /\ interviews[j].created \in Nat /\ Fits(j)
        /\ interviews'[j].created = interviews[j].created
    BY <1>7, <1>9, MadeTyped DEF Interviews, CreditInv, RowKept
  <2> QED
    BY <1>5, <1>7, <1>9, <2>1, <2>2, FitsStays
<1>10. Fits(k)'
  <2>1. PICK delta \in Int : delta = -ticks
    OBVIOUS
  <2>2. /\ interviews[k].paused \in Nat /\ interviews[k].created \in Nat /\ Fits(k)
        /\ interviews'[k].created = interviews[k].created
    BY <1>1, <1>7, MadeTyped DEF Interviews, CreditInv, RowKept
  <2>3. Since(k)' = Since(k) /\ Since(k) \in Int /\ Grace \in Nat
    BY AttendanceAssumption, SinceTyped DEF Since, Gone
  <2>4. \A t \in Nat :
          LET credit == interviews[k].paused + t
          IN  (credit > 0 => credit + Grace <= Since(k) - interviews[k].created)
              => (credit + gain + delta > 0 =>
                   credit + gain + delta + Grace <= Since(k)' - interviews[k].created)
    BY <1>2, <1>7, <2>1, <2>2, <2>3
  <2>5. /\ Pending(k, c)' = Pending(k, c) + delta /\ Pending(k, c)' \in Nat
        /\ interviews[k].paused + gain \in Nat
        /\ \A d \in Calls \ {c} : Pending(k, d)' = Pending(k, d)
    BY <1>2, <1>5, <1>6, <1>7, <2>1, <2>2
  <2>6. gain \in Int
    BY <1>2
  <2> QED
    BY <1>7, <2>2, <2>4, <2>5, <2>6, FitsMoves
<1> QED
  BY <1>4, <1>7, <1>8, <1>9, <1>10, CreditStep

\* addPause
LEMMA AddPauseKeeps ==
  ASSUME AttendanceTypeOK, CreditInv, NEW c \in Calls, AddPause(c)
  PROVE  AttendanceStep
<1>1. /\ calls[c].at = "credit" /\ Answer(c) /\ UNCHANGED <<clock, leases>> /\ LeftKept
      /\ \/ UNCHANGED interviews
         \/ /\ Active(calls[c].of)
            /\ interviews' = [interviews EXCEPT ![calls[c].of].paused = @ + calls[c].ticks]
  BY DEF AddPause, LeftKept
<1> QED
  BY <1>1, CreditGoes

\* A call that is lost takes its credit along.
LEMMA LoseKeeps ==
  ASSUME AttendanceTypeOK, BookingTypeOK, CreditInv, NEW c \in Calls, Lose(c)
  PROVE  AttendanceStep
<1>1. Answer(c) /\ UNCHANGED <<clock, interviews, leases>> /\ LeftKept
  BY SpendKeeps DEF Lose
<1>2. CASE calls[c].at = "credit"
  BY <1>1, <1>2, CreditGoes
<1>3. CASE calls[c].at # "credit"
  BY <1>1, <1>3, CallAnswered, PageStep
<1> QED
  BY <1>2, <1>3

\* The lease of an interview that is there begins.
LEMMA DisconnectedKeeps ==
  ASSUME AttendanceTypeOK, CreditInv, NEW c \in Calls, Disconnected(c)
  PROVE  AttendanceStep
<1>1. /\ calls[c].at = "disconnected" /\ Answer(c) /\ UNCHANGED <<clock, interviews>>
      /\ LeftKept
  BY DEF Disconnected, LeftKept
<1>2. PICK k \in Keys : k = calls[c].of
  BY <1>1 DEF AttendanceTypeOK, CallsMade, NoCall, None
<1>3. /\ leases' \in [Keys -> Int]
      /\ \A j \in Keys : \/ leases'[j] \in {leases[j], Never}
                         \/ ~Gone(j) /\ leases'[j] = clock /\ Made(j)
  BY <1>2, MadeTyped DEF Disconnected, OnDisconnect, AttendanceTypeOK
<1>4. AttendanceTypeOK' /\ clock <= clock'
  BY <1>1, <1>3, CallAnswered DEF AttendanceTypeOK
<1> QED
  BY <1>1, <1>3, <1>4, CallAnswered, RowsAside, NoCreditStep

\* Time passes.
LEMMA TickKeeps ==
  ASSUME AttendanceTypeOK, CreditInv, Tick
  PROVE  AttendanceStep
<1>1. /\ clock' = clock + 1 /\ clock \in Nat /\ UNCHANGED <<interviews, leases, calls>>
      /\ LeftKept
  BY DEF Tick, AttendanceTypeOK, LeftKept
<1>2. AttendanceTypeOK' /\ clock <= clock'
  BY <1>1 DEF AttendanceTypeOK
<1> QED
  BY <1>1, <1>2, CallsAside, RowsAside, NoCreditStep

\* Whatever becomes of an interview once it is there.
LEMMA AttendanceKeeps ==
  ASSUME AttendanceTypeOK, BookingTypeOK, CreditInv, SocketInv, AttendanceNext
  PROVE  AttendanceStep
<1>1. ASSUME NEW k \in Keys,
             Open(k) \/ Close(k) \/ Dial(k) \/ Drop(k) \/ Start(k) \/ EndInterview(k)
      PROVE  AttendanceStep
  BY <1>1, PageKeeps, StartKeeps, EndingKeeps
<1>2. ASSUME NEW c \in Calls, Serve(c) \/ Lose(c) PROVE AttendanceStep
  BY <1>2, ResumeKeeps, AddPauseKeeps, DisconnectedKeeps, LoseKeeps DEF Serve
<1>3. CASE Discover
  <2>1. UNCHANGED <<clock, interviews, leases, calls>> /\ LeftKept
    BY <1>3 DEF Discover, LeftKept
  <2> QED
    BY <2>1, CallsAside, PageStep
<1>4. ASSUME NEW k \in Keys, NEW why \in {"time", "abandoned"}, EndDue(k, why)
      PROVE  AttendanceStep
  BY <1>4, EndingKeeps
<1> QED
  BY <1>1, <1>2, <1>3, <1>4, TickKeeps DEF AttendanceNext, Sweeping

\* Sockets open only onto interviews.
LEMMA SocketsKeep ==
  ASSUME AttendanceTypeOK, SocketInv, \A k \in Keys : Made(k) => Made(k)',
         AttendanceNext \/ AttendanceCrash \/ UNCHANGED sockets
  PROVE  SocketInv'
<1>1. clock \in Int /\ Down \in [up : BOOLEAN, since : Int] /\ ~Down.up
  BY DEF AttendanceTypeOK, Down
<1>2. CASE UNCHANGED sockets
  BY <1>2 DEF SocketInv
<1>3. CASE AttendanceCrash
  BY <1>1, <1>3 DEF AttendanceCrash, SocketInv
<1>4. ASSUME NEW k \in Keys, Close(k) \/ Drop(k) PROVE SocketInv'
  BY <1>1, <1>4 DEF Close, Drop, SocketInv
<1>5. ASSUME NEW k \in Keys, Dial(k) PROVE SocketInv'
  <2>1. Made(k)
    BY <1>5, MadeTyped DEF Dial
  <2>2. sockets' = [sockets EXCEPT ![k] = [up |-> TRUE, since |-> clock]]
    BY <1>5 DEF Dial
  <2>3. [up |-> TRUE, since |-> clock] \in [up : BOOLEAN, since : Int]
    BY <1>1
  <2> QED
    BY <2>1, <2>2, <2>3 DEF SocketInv
<1>6. ASSUME NEW k \in Keys, Open(k) \/ Start(k) \/ EndInterview(k) PROVE UNCHANGED sockets
  BY <1>6 DEF Open, Start, EndInterview
<1>7. ASSUME NEW c \in Calls, Serve(c) \/ Lose(c) PROVE UNCHANGED sockets
  BY <1>7 DEF Serve, Resume, AddPause, Disconnected, Lose
<1>8. ASSUME Sweeping \/ Tick PROVE UNCHANGED sockets
  BY <1>8 DEF Sweeping, Discover, EndDue, Tick
<1> QED
  BY <1>2, <1>3, <1>4, <1>5, <1>6, <1>7, <1>8 DEF AttendanceNext

\* The process dies: what was under way is lost, and so is what the leases said.
LEMMA CrashKeeps ==
  ASSUME AttendanceTypeOK, CreditInv, AttendanceCrash, LeftKept
  PROVE  AttendanceStep
<1>1. /\ UNCHANGED <<clock, interviews>> /\ \A c \in Calls : calls'[c] = NoCall
      /\ \A k \in Keys : leases'[k] = Never
  BY DEF AttendanceCrash
<1>2. AttendanceTypeOK' /\ clock <= clock'
  BY <1>1 DEF AttendanceCrash, AttendanceTypeOK, CallsMade, Never
<1>3. ASSUME NEW k \in Keys, Made(k) PROVE Fits(k)'
  <2>1. \A d \in Calls : Pending(k, d)' = 0
    BY <1>1 DEF Pending, NoCall, None
  <2>2. PICK new \in [SUBSET Calls -> Nat] : Adds(k, new)' /\ new[Calls] = 0
    BY <2>1, NothingPending
  <2>3. PICK total \in [SUBSET Calls -> Nat] :
          LET credit == interviews[k].paused + total[Calls]
          IN  credit > 0 => credit + Grace <= Since(k) - interviews[k].created
    BY <1>3 DEF CreditInv, Fits
  <2>4. /\ interviews[k].paused \in Nat /\ interviews[k].created \in Nat
        /\ total[Calls] \in Nat /\ Grace \in Nat
    BY <1>3, MadeTyped, AttendanceAssumption DEF Interviews
  <2>5. Since(k) \in Int /\ Since(k)' \in Int /\ Since(k) <= Since(k)'
    BY <1>1, <1>2, SinceGrows
  <2>6. LET credit == interviews'[k].paused + new[Calls]
        IN  credit > 0 => credit + Grace <= Since(k)' - interviews'[k].created
    BY <1>1, <2>2, <2>3, <2>4, <2>5
  <2> QED
    BY <2>2, <2>6 DEF Fits
<1> QED
  BY <1>1, <1>2, <1>3, RowsAside, CreditStep

\* A row is made where there was none: nothing is on record for it, nor under
\* way.
LEMMA CreatedKeeps ==
  ASSUME AttendanceTypeOK, CreditInv, NEW k \in Keys, ~Made(k),
         NEW question \in Asked, NEW wording \in Nat,
         interviews' = [interviews EXCEPT ![k] = Created(question, wording)],
         UNCHANGED <<clock, leases, calls>>
  PROVE  AttendanceTypeOK' /\ CreditInv'
<1>1. PICK row : row = Created(question, wording)
  OBVIOUS
<1>2. clock \in Nat /\ Never \in Int /\ None \in Ways
  BY DEF AttendanceTypeOK, Never, Ways
<1>3. /\ row \in Interviews /\ row.paused = 0 /\ row.created = clock
      /\ row # NoInterview
  BY <1>1, <1>2 DEF Created, Interviews, NoInterview, None
<1>4. /\ interviews'[k] = row /\ \A j \in Keys : j # k => interviews'[j] = interviews[j]
      /\ interviews' \in [Keys -> {NoInterview} \cup Interviews]
  BY <1>1, <1>3 DEF AttendanceTypeOK
<1>5. AttendanceTypeOK'
  BY <1>4 DEF AttendanceTypeOK
<1>6. \A j \in Keys : Made(j) => Made(j)' /\ j # k
  BY <1>4 DEF Made
<1>7. ASSUME NEW j \in Keys, Made(j) PROVE Fits(j)'
  <2>1. \A d \in Calls : Pending(j, d)' = Pending(j, d)
    BY DEF Pending
  <2>2. Since(j) \in Int /\ Since(j)' = Since(j)
    BY SinceTyped DEF Since, Gone
  <2>3. /\ interviews[j].paused \in Nat /\ interviews[j].created \in Nat /\ Fits(j)
        /\ interviews'[j] = interviews[j]
    BY <1>4, <1>6, <1>7, MadeTyped DEF Interviews, CreditInv
  <2> QED
    BY <2>1, <2>2, <2>3, FitsStays
<1>8. Fits(k)'
  <2>1. \A d \in Calls : Pending(k, d)' = 0
    <3>1. \A d \in Calls : calls[d].at = "credit" => calls[d].of # k
      BY DEF CreditInv, NoCall, None
    <3> QED
      BY <3>1 DEF Pending
  <2>2. PICK new \in [SUBSET Calls -> Nat] : Adds(k, new)' /\ new[Calls] = 0
    BY <2>1, NothingPending
  <2> QED
    BY <1>3, <1>4, <2>2 DEF Fits
<1>9. CreditInv'
  <2>1. ASSUME NEW j \in Keys, Made(j)' PROVE interviews'[j].created <= clock' /\ Fits(j)'
    BY <1>2, <1>3, <1>4, <1>7, <1>8, <2>1 DEF CreditInv, Made
  <2>2. \A j \in Keys : Gone(j)' => Gone(j) /\ j # k
    BY <1>6 DEF Gone, CreditInv
  <2>3. ASSUME NEW j \in Keys, Gone(j)'
        PROVE  Made(j)' /\ interviews'[j].created <= leases'[j] /\ leases'[j] <= clock'
    BY <1>4, <1>6, <2>2, <2>3 DEF CreditInv
  <2>4. \A c \in Calls : calls'[c] # NoCall => calls[c].of \in Keys /\ Made(calls[c].of)'
    BY <1>6 DEF CreditInv, AttendanceTypeOK, CallsMade
  <2> QED
    BY <2>1, <2>3, <2>4 DEF CreditInv
<1> QED
  BY <1>5, <1>9

\* A row is deleted, and stays what it was otherwise.
LEMMA DeletedKeeps ==
  ASSUME AttendanceTypeOK, CreditInv, LeftKept, NEW k \in Keys, interviews[k].at = "ended",
         interviews' = [interviews EXCEPT ![k].at = "deleted"],
         UNCHANGED <<clock, leases, calls>>
  PROVE  AttendanceStep
<1>1. interviews[k] \in Interviews
  BY MadeTyped DEF None
<1>2. PICK row : row = [interviews[k] EXCEPT !.at = "deleted"]
  OBVIOUS
<1>3. "deleted" \in {"active", "ended", "deleted"}
  OBVIOUS
<1>4. /\ row \in Interviews
      /\ row.at = "deleted" /\ row.question = interviews[k].question
      /\ row.wording = interviews[k].wording /\ row.created = interviews[k].created
      /\ row.paused = interviews[k].paused
  BY <1>1, <1>2, <1>3 DEF Interviews
<1>5. interviews' = [interviews EXCEPT ![k] = row]
  BY <1>2 DEF AttendanceTypeOK
<1>6. /\ interviews'[k] = row /\ \A j \in Keys : j # k => interviews'[j] = interviews[j]
      /\ interviews' \in [Keys -> {NoInterview} \cup Interviews]
  BY <1>4, <1>5 DEF AttendanceTypeOK
<1>7. row # NoInterview /\ interviews[k] # NoInterview
  BY <1>4 DEF NoInterview, None
<1>8. /\ \A j \in Keys : RowKept(j)
      /\ \A j \in Keys : Made(j) => interviews'[j].paused = interviews[j].paused
  BY <1>4, <1>6, <1>7 DEF RowKept, Made, Active
<1>9. AttendanceTypeOK' /\ clock <= clock' /\ \A j \in Keys : leases'[j] \in {leases[j], Never}
  BY <1>6 DEF AttendanceTypeOK
<1> QED
  BY <1>8, <1>9, CallsAside, NoCreditStep

-----------------------------------------------------------------------------
(* Tokens.                                                                 *)

\* What a function makes of the members of a finite set is a finite set.
LEMMA ImageIsFinite ==
  ASSUME NEW S, IsFiniteSet(S), NEW f, NEW T,
         \A y \in T : \E x \in S : y = f[x]
  PROVE  IsFiniteSet(T)
<1> DEFINE D == {x \in S : f[x] \in T}
           g == [x \in D |-> f[x]]
<1>1. IsFiniteSet(D)
  BY FS_Subset
<1>2. g \in Surjection(D, T)
  <2>1. g \in [D -> T] /\ \A y \in T : \E x \in D : g[x] = y
    OBVIOUS
  <2> QED
    BY <2>1, Fun_IsSurj
<1> QED
  BY <1>1, <1>2, FS_Surjection

\* There is a token that nobody has, and it is not "nobody".
LEMMA FreshIsSomebody ==
  Fresh \in Nat \ {0}
<1> DEFINE Reading == {preps[k].reader : k \in Begun}
           Writing == {preps[k].writer : k \in Begun}
           Written == {preps[k].wording : k \in Begun}
           Readers == {analyses[x[1]][x[2]].token : x \in Analysing}
           Writers == {works[x[1]][x[2]].token : x \in AtWork}
           InHand  == {works[x[1]][x[2]].wording : x \in AtWork}
           n == Cardinality(Tokens)
<1>1. /\ IsFiniteSet(Begun) /\ IsFiniteSet(Analysing) /\ IsFiniteSet(AtWork)
  <2>1. IsFiniteSet(Keys) /\ IsFiniteSet(Replicas) /\ Preparations \subseteq Keys
    BY AttendanceAssumption, PreparationAssumption
  <2>2. IsFiniteSet(Preparations)
    BY <2>1, FS_Subset
  <2>3. IsFiniteSet(Replicas \X Preparations) /\ IsFiniteSet(Replicas \X Keys)
    BY <2>1, <2>2, FS_Product
  <2>4. Begun \in SUBSET Preparations /\ Analysing \in SUBSET (Replicas \X Preparations)
        /\ AtWork \in SUBSET (Replicas \X Keys)
    BY DEF Begun, Analysing, AtWork
  <2> QED
    BY <2>2, <2>3, <2>4, FS_Subset
<1>2. IsFiniteSet(Reading)
  <2> DEFINE f == [k \in Begun |-> preps[k].reader]
  <2>1. \A y \in Reading : \E x \in Begun : y = f[x]
    OBVIOUS
  <2> HIDE DEF Reading, f
  <2> QED
    BY <1>1, <2>1, ImageIsFinite
<1>3. IsFiniteSet(Writing)
  <2> DEFINE f == [k \in Begun |-> preps[k].writer]
  <2>1. \A y \in Writing : \E x \in Begun : y = f[x]
    OBVIOUS
  <2> HIDE DEF Writing, f
  <2> QED
    BY <1>1, <2>1, ImageIsFinite
<1>4. IsFiniteSet(Written)
  <2> DEFINE f == [k \in Begun |-> preps[k].wording]
  <2>1. \A y \in Written : \E x \in Begun : y = f[x]
    OBVIOUS
  <2> HIDE DEF Written, f
  <2> QED
    BY <1>1, <2>1, ImageIsFinite
<1>5. IsFiniteSet(Readers)
  <2> DEFINE f == [x \in Analysing |-> analyses[x[1]][x[2]].token]
  <2>1. \A y \in Readers : \E x \in Analysing : y = f[x]
    OBVIOUS
  <2> HIDE DEF Readers, f
  <2> QED
    BY <1>1, <2>1, ImageIsFinite
<1>6. IsFiniteSet(Writers)
  <2> DEFINE f == [x \in AtWork |-> works[x[1]][x[2]].token]
  <2>1. \A y \in Writers : \E x \in AtWork : y = f[x]
    OBVIOUS
  <2> HIDE DEF Writers, f
  <2> QED
    BY <1>1, <2>1, ImageIsFinite
<1>7. IsFiniteSet(InHand)
  <2> DEFINE f == [x \in AtWork |-> works[x[1]][x[2]].wording]
  <2>1. \A y \in InHand : \E x \in AtWork : y = f[x]
    OBVIOUS
  <2> HIDE DEF InHand, f
  <2> QED
    BY <1>1, <2>1, ImageIsFinite
<1>8. IsFiniteSet(Tokens)
  <2>1. Tokens = ((((Reading \cup Writing) \cup Written) \cup Readers) \cup Writers) \cup InHand
    BY DEF Tokens
  <2> HIDE DEF Reading, Writing, Written, Readers, Writers, InHand
  <2>2. IsFiniteSet(Reading \cup Writing)
    BY <1>2, <1>3, FS_Union
  <2>3. IsFiniteSet((Reading \cup Writing) \cup Written)
    BY <1>4, <2>2, FS_Union
  <2>4. IsFiniteSet(((Reading \cup Writing) \cup Written) \cup Readers)
    BY <1>5, <2>3, FS_Union
  <2>5. IsFiniteSet((((Reading \cup Writing) \cup Written) \cup Readers) \cup Writers)
    BY <1>6, <2>4, FS_Union
  <2> QED
    BY <1>7, <2>1, <2>5, FS_Union
<1>9. n \in Nat
  BY <1>8, FS_CardinalityType
<1>10. \E m \in 1..(n + 1) : m \notin Tokens
  <2> SUFFICES ASSUME 1..(n + 1) \subseteq Tokens PROVE FALSE
    OBVIOUS
  <2> HIDE DEF n
  <2>1. Cardinality(1..(n + 1)) = n + 1
    BY <1>9, FS_Interval
  <2>2. Cardinality(1..(n + 1)) <= Cardinality(Tokens)
    BY <1>8, FS_Subset
  <2> QED
    BY <1>9, <2>1, <2>2 DEF n
<1> HIDE DEF n
<1>11. Fresh \in 1..(n + 1)
  BY <1>10 DEF Fresh, n
<1> QED
  BY <1>9, <1>11

-----------------------------------------------------------------------------
(* Admission.                                                              *)

\* There are finitely many interviews of any kind.
LEMMA CountTyped ==
  ASSUME NEW S \in SUBSET Keys
  PROVE  IsFiniteSet(S) /\ Cardinality(S) \in Nat
BY AttendanceAssumption, FS_Subset, FS_CardinalityType

\* As long as interviews only end, what was counted holds.
LEMMA CountsFall ==
  ASSUME AttendanceTypeOK, AttendanceTypeOK', \A k \in Keys : RowKept(k)
  PROVE  /\ AdmissionHolds => AdmissionHolds'
         /\ \A k \in Keys : Admissible(UserOf(k)) => Admissible(UserOf(k))'
<1>1. \A k \in Keys : (interviews'[k].at # None) <=> (interviews[k].at # None)
  <2>1. \A k \in Keys : (Made(k) <=> interviews[k].at # None)
                        /\ (Made(k)' <=> interviews'[k].at # None)
    BY DEF AttendanceTypeOK, Interviews, NoInterview, None, Made
  <2> QED
    BY <2>1 DEF RowKept
<1>2. \A k \in Keys : Active(k)' => Active(k)
  BY DEF RowKept
<1>3. MaxActive \in Nat /\ Monthly \in Nat
  BY PreparationAssumption
<1>4. Cardinality({k \in Keys : Active(k)'}) <= Cardinality({k \in Keys : Active(k)})
  <2> DEFINE A == {k \in Keys : Active(k)}
             B == {k \in Keys : Active(k)'}
  <2>1. IsFiniteSet(A) /\ B \in SUBSET A
    BY <1>2, CountTyped
  <2> HIDE DEF A, B
  <2>2. Cardinality(B) <= Cardinality(A)
    BY <2>1, FS_Subset
  <2> QED
    BY <2>2 DEF A, B
<1>5. /\ Cardinality({k \in Keys : Active(k)}) \in Nat
      /\ Cardinality({k \in Keys : Active(k)'}) \in Nat
  BY CountTyped
<1>6. ASSUME AdmissionHolds PROVE AdmissionHolds'
  <2>1. Cardinality({k \in Keys : Active(k)'}) <= MaxActive
    BY <1>3, <1>4, <1>5, <1>6 DEF AdmissionHolds
  <2>2. ASSUME NEW k \in Keys
        PROVE  LET mine == {j \in Keys : UserOf(j) = UserOf(k)}
               IN  /\ Cardinality({j \in mine : Active(j)'}) <= 1
                   /\ Cardinality({j \in mine : interviews'[j].at # None}) <= Monthly
    <3> DEFINE mine == {j \in Keys : UserOf(j) = UserOf(k)}
               A == {j \in mine : Active(j)}
               B == {j \in mine : Active(j)'}
    <3>1. IsFiniteSet(A) /\ B \in SUBSET A /\ Cardinality(A) <= 1
      BY <1>2, <1>6, CountTyped DEF AdmissionHolds
    <3>2. Cardinality(A) \in Nat /\ Cardinality(B) \in Nat
      BY CountTyped
    <3>3. Cardinality(B) <= 1
      <4> HIDE DEF A, B
      <4>1. Cardinality(B) <= Cardinality(A)
        BY <3>1, FS_Subset
      <4> QED
        BY <3>1, <3>2, <4>1
    <3>4. {j \in mine : interviews'[j].at # None} = {j \in mine : interviews[j].at # None}
      BY <1>1
    <3>5. Cardinality({j \in mine : interviews[j].at # None}) <= Monthly
      BY <1>6 DEF AdmissionHolds
    <3> QED
      BY <3>3, <3>4, <3>5
  <2> QED
    BY <2>1, <2>2 DEF AdmissionHolds
<1>7. ASSUME NEW k \in Keys, Admissible(UserOf(k)) PROVE Admissible(UserOf(k))'
  <2>1. {j \in Keys : interviews'[j].at # None /\ UserOf(j) = UserOf(k)} =
        {j \in Keys : interviews[j].at # None /\ UserOf(j) = UserOf(k)}
    BY <1>1
  <2>2. Cardinality({j \in Keys : Active(j)'}) < MaxActive
    BY <1>3, <1>4, <1>5, <1>7 DEF Admissible
  <2>3. ~\E j \in Keys : Active(j)' /\ UserOf(j) = UserOf(k)
    BY <1>2, <1>7 DEF Admissible
  <2> QED
    BY <1>7, <2>1, <2>2, <2>3 DEF Admissible
<1> QED
  BY <1>6, <1>7

\* What may be made and is, is within the limits.
LEMMA CountsRise ==
  ASSUME AttendanceTypeOK, AdmissionHolds, NEW k \in Keys, Admissible(UserOf(k)), ~Made(k),
         interviews'[k].at = "active", \A j \in Keys : j # k => interviews'[j] = interviews[j]
  PROVE  AdmissionHolds'
<1>1. interviews[k].at = None /\ None # "active"
  BY DEF Made, NoInterview, None
<1>2. \A j \in Keys : Active(j)' <=> Active(j) \/ j = k
  BY DEF Active
<1>3. \A j \in Keys : (interviews'[j].at # None) <=> (interviews[j].at # None \/ j = k)
  BY <1>1
<1>4. MaxActive \in Nat /\ Monthly \in Nat
  BY PreparationAssumption
<1>5. Cardinality({j \in Keys : Active(j)'}) <= MaxActive
  <2> DEFINE A == {j \in Keys : Active(j)}
             B == {j \in Keys : Active(j)'}
  <2>1. B = A \cup {k} /\ k \notin A
    BY <1>1, <1>2 DEF Active
  <2>2. IsFiniteSet(A) /\ Cardinality(A) \in Nat /\ Cardinality(A) < MaxActive
    BY CountTyped DEF Admissible
  <2> HIDE DEF A, B
  <2>3. Cardinality(B) = Cardinality(A) + 1
    BY <2>1, <2>2, FS_AddElement
  <2>4. Cardinality(B) <= MaxActive
    BY <1>4, <2>2, <2>3
  <2> QED
    BY <2>4 DEF B
<1>6. ASSUME NEW i \in Keys
      PROVE  LET mine == {j \in Keys : UserOf(j) = UserOf(i)}
             IN  /\ Cardinality({j \in mine : Active(j)'}) <= 1
                 /\ Cardinality({j \in mine : interviews'[j].at # None}) <= Monthly
  <2> DEFINE mine == {j \in Keys : UserOf(j) = UserOf(i)}
  <2>1. CASE UserOf(i) = UserOf(k)
    <3>1. {j \in mine : Active(j)'} = {k}
      BY <1>2, <2>1 DEF Admissible
    <3>2. Cardinality({j \in mine : Active(j)'}) = 1
      BY <3>1, FS_Singleton
    <3> DEFINE M == {j \in Keys : interviews[j].at # None /\ UserOf(j) = UserOf(k)}
               N == {j \in mine : interviews'[j].at # None}
    <3>3. N = M \cup {k} /\ k \notin M
      BY <1>1, <1>3, <2>1
    <3>4. IsFiniteSet(M) /\ Cardinality(M) \in Nat /\ Cardinality(M) < Monthly
      BY CountTyped DEF Admissible
    <3> HIDE DEF M, N
    <3>5. Cardinality(N) = Cardinality(M) + 1
      BY <3>3, <3>4, FS_AddElement
    <3>6. Cardinality(N) <= Monthly
      BY <1>4, <3>4, <3>5
    <3> QED
      BY <3>2, <3>6 DEF N
  <2>2. CASE UserOf(i) # UserOf(k)
    <3>1. /\ {j \in mine : Active(j)'} = {j \in mine : Active(j)}
          /\ {j \in mine : interviews'[j].at # None} = {j \in mine : interviews[j].at # None}
      BY <1>2, <1>3, <2>2
    <3> QED
      BY <3>1 DEF AdmissionHolds
  <2> QED
    BY <2>1, <2>2
<1> QED
  BY <1>5, <1>6 DEF AdmissionHolds

\* Whoever is past admission stays alone there, and what it counted holds.
LEMMA LockStays ==
  ASSUME LockInv, UNCHANGED lock,
         \A k \in Keys : Admissible(UserOf(k)) => Admissible(UserOf(k))',
         \A p \in Replicas, k \in Keys : On(p, k, "insert")' <=> On(p, k, "insert")
  PROVE  LockInv'
<1>1. \A p, q \in Replicas, j, k \in Keys :
        On(p, j, "insert")' /\ On(q, k, "insert")' => p = q /\ j = k
  BY DEF LockInv
<1>2. \A p \in Replicas, k \in Keys :
        On(p, k, "insert")' => lock' # {} /\ Admissible(UserOf(k))'
  BY DEF LockInv
<1>3. \A x \in lock' : \E p \in Replicas, k \in Keys : x = <<p, k>> /\ On(p, k, "insert")'
  BY DEF LockInv
<1> QED
  BY <1>1, <1>2, <1>3 DEF LockInv

-----------------------------------------------------------------------------
(* Steps of the booking.                                                   *)

\* A preparation does not go, and its pin and its wording, once there, stay.
RowGrows(k) ==
  /\ Made(k) => Made(k)'
  /\ preps[k] # NoPreparation =>
       /\ preps'[k] # NoPreparation
       /\ preps[k].pin # None => preps'[k].pin = preps[k].pin
       /\ preps[k].wording # 0 => preps'[k].wording = preps[k].wording

\* The interviews are fine; and they are what they were, but for what a
\* candidate does.
InterviewsFine ==
  AttendanceTypeOK' /\ CreditInv' /\ SocketInv' /\ AdmissionHolds' /\ LeftKept

Aside ==
  /\ InterviewsFine
  /\ \A k \in Keys : RowKept(k)
  /\ \A k \in Keys : Admissible(UserOf(k)) => Admissible(UserOf(k))'

\* The preparations after a step.
PrepsFine ==
  /\ preps' \in [Preparations -> {NoPreparation} \cup PrepRows]
  /\ \A k \in Preparations : RowInv(k)' /\ RowGrows(k)

\* Most steps do not concern the interviews.
LEMMA InterviewsAside ==
  ASSUME BookingInv, UNCHANGED attendanceVars, LeftKept
  PROVE  Aside
<1>1. /\ UNCHANGED <<clock, interviews, leases, pages, sockets, calls, sweep>>
      /\ AttendanceTypeOK /\ CreditInv /\ SocketInv /\ AdmissionHolds
  BY DEF attendanceVars, BookingInv, AdmissionInv
<1>2. AttendanceTypeOK' /\ SocketInv'
  BY <1>1 DEF AttendanceTypeOK, SocketInv, Made
<1>3. \A k \in Keys : RowKept(k)
  BY <1>1, RowsAside
<1>4. CreditInv'
  BY <1>1, <1>2, <1>3, CallsAside, PageStep DEF AttendanceStep, AttendanceTypeOK
<1> QED
  BY <1>1, <1>2, <1>3, <1>4, CountsFall DEF Aside, InterviewsFine

\* A step of theirs is one that leaves the preparations be.
LEMMA AttendanceAside ==
  ASSUME BookingInv, AttendanceStep, SocketInv'
  PROVE  Aside
<1>1. AttendanceTypeOK /\ AdmissionHolds /\ AttendanceTypeOK' /\ \A k \in Keys : RowKept(k)
  BY DEF BookingInv, AdmissionInv, AttendanceStep
<1> QED
  BY <1>1, CountsFall DEF Aside, InterviewsFine, AttendanceStep

\* What a worker has in hand stays good.
LEMMA HandStays ==
  ASSUME NEW k \in Preparations, NEW w \in Jobs, HandInv(k, w), RowGrows(k)
  PROVE  HandInv(k, w)'
<1>1. CASE w = Resting
  BY <1>1 DEF HandInv
<1>2. CASE w # Resting
  <2>1. preps[k] # NoPreparation /\ preps'[k] # NoPreparation
    BY <1>2 DEF HandInv, RowGrows
  <2>2. w.question # None /\ preps[k].pin = w.question => preps'[k].pin = w.question
    BY <2>1 DEF RowGrows
  <2>3. w.wording # 0 /\ preps[k].wording = w.wording => preps'[k].wording = w.wording
    BY <2>1 DEF RowGrows
  <2>4. Made(k) => Made(k)'
    BY DEF RowGrows
  <2> QED
    BY <1>2, <2>1, <2>2, <2>3, <2>4 DEF HandInv
<1> QED
  BY <1>1, <1>2

\* A preparation that is not touched.
LEMMA RowStays ==
  ASSUME AttendanceTypeOK, NEW k \in Preparations, RowInv(k), preps'[k] = preps[k],
         RowKept(k), LeftKept
  PROVE  RowInv(k)' /\ RowGrows(k)
BY DEF RowInv, RowKept, RowGrows, LeftKept

\* One that is.
LEMMA RowAlters ==
  ASSUME NEW k \in Preparations, RowInv(k), NEW row, preps'[k] = row,
         RowKept(k), LeftKept,
         preps[k] # NoPreparation, row # NoPreparation,
         preps[k].pin # None => row.pin = preps[k].pin,
         preps[k].wording # 0 => row.wording = preps[k].wording,
         row.writer # 0 => row.wording = 0,
         row.status = "READY" => preps[k].status = "READY" \/ Made(k)
  PROVE  RowInv(k)' /\ RowGrows(k)
BY DEF RowInv, RowKept, RowGrows

\* No preparation is touched, or one is.
LEMMA NoRowTouched ==
  ASSUME BookingInv, Aside, UNCHANGED preps
  PROVE  PrepsFine
<1>1. \A k \in Preparations : preps'[k] = preps[k] /\ k \in Keys /\ RowInv(k)
  BY PreparationAssumption DEF BookingInv, BookInv
<1>2. \A k \in Preparations : RowInv(k)' /\ RowGrows(k)
  BY <1>1, RowStays DEF BookingInv, Aside, InterviewsFine
<1> QED
  BY <1>2 DEF PrepsFine, BookingInv, BookingTypeOK

\* The one that is keeps its pin and its wording, if it has them.
LEMMA OneRowTouched ==
  ASSUME BookingInv, Aside, NEW k \in Preparations, NEW row \in PrepRows, Row(k, row),
         preps[k] # NoPreparation,
         preps[k].pin # None => row.pin = preps[k].pin,
         preps[k].wording # 0 => row.wording = preps[k].wording,
         row.writer # 0 => row.wording = 0,
         row.status = "READY" => preps[k].status = "READY" \/ Made(k)
  PROVE  PrepsFine
<1>1. /\ preps' \in [Preparations -> {NoPreparation} \cup PrepRows]
      /\ preps'[k] = row /\ \A j \in Preparations : j # k => preps'[j] = preps[j]
  BY DEF Row, BookingInv, BookingTypeOK
<1>2. \A j \in Preparations : j \in Keys /\ RowInv(j) /\ RowKept(j)
  BY PreparationAssumption DEF BookingInv, BookInv, Aside, InterviewsFine
<1>3. row # NoPreparation /\ LeftKept
  BY DEF PrepRows, NoPreparation, None, Aside, InterviewsFine
<1>4. RowInv(k)' /\ RowGrows(k)
  BY <1>1, <1>2, <1>3, RowAlters
<1>5. \A j \in Preparations : j # k => RowInv(j)' /\ RowGrows(j)
  BY <1>1, <1>2, <1>3, RowStays DEF BookingInv
<1> QED
  BY <1>1, <1>4, <1>5 DEF PrepsFine

\* What a step has to show of the rest.
LEMMA BookStep ==
  ASSUME BookingInv, InterviewsFine, PrepsFine, LockInv', bank' \subseteq Questions,
         analyses' \in [Replicas -> [Preparations -> Analyses]],
         works' \in [Replicas -> [Keys -> Jobs]],
         \A p \in Replicas, k \in Preparations :
           \/ works'[p][k] = works[p][k]
           \/ \E w \in Jobs : works'[p][k] = w /\ HandInv(k, w)'
  PROVE  BookingInv'
<1>1. BookingTypeOK'
  BY DEF BookingTypeOK, BookingInv, PrepsFine, InterviewsFine, LeftKept
<1>2. AdmissionInv'
  BY DEF AdmissionInv, InterviewsFine
<1>3. ASSUME NEW p \in Replicas, NEW k \in Preparations PROVE HandInv(k, works[p][k])'
  <2>1. CASE works'[p][k] = works[p][k]
    <3>1. PICK w : w = works[p][k]
      OBVIOUS
    <3>2. w \in Jobs /\ HandInv(k, w)
      BY <3>1, PreparationAssumption DEF BookingInv, BookInv, BookingTypeOK
    <3>3. HandInv(k, w)'
      BY <3>2, HandStays DEF PrepsFine
    <3> QED
      BY <2>1, <3>1, <3>3
  <2>2. ASSUME NEW w \in Jobs, works'[p][k] = w, HandInv(k, w)'
        PROVE  HandInv(k, works[p][k])'
    BY <2>2
  <2> QED
    BY <2>1, <2>2
<1>4. BookInv'
  BY <1>3 DEF BookInv, PrepsFine
<1> QED
  BY <1>1, <1>2, <1>4 DEF BookingInv, InterviewsFine

\* A step that no worker of the second half takes.
LEMMA RowStep ==
  ASSUME BookingInv, Aside, PrepsFine, UNCHANGED <<works, lock>>, bank' \subseteq Questions,
         analyses' \in [Replicas -> [Preparations -> Analyses]]
  PROVE  BookingInv'
<1>1. /\ works' \in [Replicas -> [Keys -> Jobs]]
      /\ \A p \in Replicas, k \in Keys : On(p, k, "insert")' <=> On(p, k, "insert")
      /\ \A p \in Replicas, k \in Preparations : works'[p][k] = works[p][k]
  BY DEF On, BookingInv, BookingTypeOK
<1>2. LockInv'
  BY <1>1, LockStays DEF BookingInv, AdmissionInv, Aside
<1> QED
  BY <1>1, <1>2, BookStep DEF Aside

\* What a worker has in hand once it moved.
LEMMA Turned ==
  ASSUME BookingInv, NEW p \in Replicas, NEW k \in Keys, NEW w \in Jobs, Turn(p, k, w)
  PROVE  /\ works' \in [Replicas -> [Keys -> Jobs]]
         /\ works'[p][k] = w
         /\ \A q \in Replicas, j \in Keys : q # p \/ j # k => works'[q][j] = works[q][j]
BY DEF Turn, BookingInv, BookingTypeOK

\* A step of one worker that is not past admission.
LEMMA JobStep ==
  ASSUME BookingInv, Aside, PrepsFine, UNCHANGED <<analyses, lock, bank>>,
         NEW p \in Replicas, NEW k \in Keys, NEW w \in Jobs, Turn(p, k, w),
         works[p][k].at # "insert", w.at # "insert",
         k \in Preparations => HandInv(k, w)'
  PROVE  BookingInv'
<1>1. /\ works' \in [Replicas -> [Keys -> Jobs]] /\ works'[p][k] = w
      /\ \A q \in Replicas, j \in Keys : q # p \/ j # k => works'[q][j] = works[q][j]
  BY Turned
<1>2. \A q \in Replicas, j \in Keys : On(q, j, "insert")' <=> On(q, j, "insert")
  BY <1>1 DEF On
<1>3. /\ bank' \subseteq Questions
      /\ analyses' \in [Replicas -> [Preparations -> Analyses]]
  BY DEF BookingInv, BookingTypeOK
<1>4. \A q \in Replicas, j \in Preparations :
        \/ works'[q][j] = works[q][j]
        \/ \E x \in Jobs : works'[q][j] = x /\ HandInv(j, x)'
  BY <1>1, PreparationAssumption
<1>5. LockInv'
  BY <1>2, LockStays DEF BookingInv, AdmissionInv, Aside
<1> QED
  BY <1>1, <1>3, <1>4, <1>5, BookStep DEF Aside

\* A worker that stops, at whatever stage.
LEMMA StopStep ==
  ASSUME BookingInv, Aside, PrepsFine, UNCHANGED <<analyses, lock, bank>>,
         NEW p \in Replicas, NEW k \in Keys, works[p][k].at # "insert", Stop(p, k)
  PROVE  BookingInv'
<1>1. Resting \in Jobs /\ Resting.at # "insert"
  BY DEF Jobs, Resting
<1>2. k \in Preparations => HandInv(k, Resting)'
  BY DEF HandInv
<1> QED
  BY <1>1, <1>2, JobStep DEF Stop

-----------------------------------------------------------------------------
(* The resume, the question and the wording.                               *)

\* A row that is there is typed.
LEMMA PrepTyped ==
  ASSUME BookingInv, NEW k \in Preparations
  PROVE  /\ k \in Keys /\ RowInv(k)
         /\ preps[k] # NoPreparation => preps[k] \in PrepRows
         /\ preps[k].status # None => preps[k] # NoPreparation
         /\ preps[k] # NoPreparation /\ preps[k].writer # 0 => preps[k].wording = 0
BY PreparationAssumption DEF BookingInv, BookingTypeOK, BookInv, RowInv, NoPreparation

\* What a worker has in hand is typed, and good at its stage.
LEMMA JobTyped ==
  ASSUME BookingInv, NEW p \in Replicas, NEW k \in Keys
  PROVE  /\ works[p][k] \in Jobs
         /\ works[p][k].at # "idle" => works[p][k] \in Busy /\ works[p][k] # Resting
         /\ k \in Preparations => HandInv(k, works[p][k])
BY DEF BookingInv, BookingTypeOK, Jobs, BookInv, Resting

\* What the failure of a step spends.
LEMMA WorksOrBreaks ==
  ASSUME BookingInv, Works \/ Breaks
  PROVE  LeftKept
BY SpendKeeps DEF Works, Breaks, LeftKept, BookingInv

\* A preparation is made, or its analysis claimed.
LEMMA PrepareKeeps ==
  ASSUME BookingInv, NEW p \in Replicas, NEW k \in Preparations, Prepare(p, k)
  PROVE  BookingInv'
<1>1. /\ UNCHANGED <<attendanceVars, works, lock, bank, left>> /\ k \in left.prepare
      /\ bank' \subseteq Questions
  BY DEF Prepare, BookingInv, BookingTypeOK
<1>2. Aside
  BY <1>1, InterviewsAside DEF LeftKept
<1>3. CASE preps[k] = NoPreparation
  <2>1. Row(k, Prepared) /\ UNCHANGED analyses
    BY <1>3 DEF Prepare
  <2>2. Prepared \in PrepRows
    <3>1. "ANALYZING" \in {"ANALYZING", "REVIEW", "CONFIRMED", "READY", "DELETED"}
          /\ "kept" \in {"kept", "expired", "gone"} /\ None \in Asked
      BY DEF Asked
    <3> QED
      BY <3>1 DEF Prepared, PrepRows
  <2>3. PICK row : row = Prepared
    OBVIOUS
  <2>4. /\ preps' \in [Preparations -> {NoPreparation} \cup PrepRows]
        /\ preps'[k] = row /\ \A j \in Preparations : j # k => preps'[j] = preps[j]
    BY <2>1, <2>2, <2>3 DEF Row, BookingInv, BookingTypeOK
  <2>5. ~Made(k) /\ ~Made(k)'
    <3>1. k \notin left.begun
      BY <1>1 DEF BookingInv, BookingTypeOK
    <3>2. ~Made(k)
      BY <1>3, <3>1, PrepTyped DEF RowInv
    <3> QED
      BY <1>2, <3>2, PreparationAssumption DEF Aside, InterviewsFine, RowKept
  <2>6. row # NoPreparation /\ row.writer = 0 /\ row.status # "READY"
    BY <2>3 DEF Prepared, NoPreparation, None
  <2>7. RowInv(k)' /\ RowGrows(k)
    BY <1>3, <2>4, <2>5, <2>6 DEF RowInv, RowGrows
  <2>8. \A j \in Preparations : j # k => RowInv(j)' /\ RowGrows(j)
    BY <1>2, <2>4, PrepTyped, RowStays DEF BookingInv, Aside, InterviewsFine
  <2>9. PrepsFine
    BY <2>4, <2>7, <2>8 DEF PrepsFine
  <2>10. analyses' \in [Replicas -> [Preparations -> Analyses]]
    BY <2>1 DEF BookingInv, BookingTypeOK
  <2> QED
    BY <1>1, <1>2, <2>9, <2>10, RowStep
<1>4. CASE preps[k] # NoPreparation
  <2>1. ClaimAnalysis(p, k, preps[k])
    BY <1>4 DEF Prepare
  <2>2. PICK row : row = [preps[k] EXCEPT !.reader = Fresh, !.readerStale = FALSE]
    OBVIOUS
  <2>3. preps[k] \in PrepRows /\ (preps[k].writer # 0 => preps[k].wording = 0)
    BY <1>4, PrepTyped
  <2>4. /\ row \in PrepRows
        /\ row.pin = preps[k].pin /\ row.wording = preps[k].wording
        /\ row.writer = preps[k].writer /\ row.status = preps[k].status
    BY <2>2, <2>3, FreshIsSomebody DEF PrepRows
  <2>5. Row(k, row)
    BY <2>1, <2>2 DEF ClaimAnalysis
  <2>6. PrepsFine
    BY <1>2, <1>4, <2>3, <2>4, <2>5, OneRowTouched
  <2>7. [at |-> "call", token |-> Fresh] \in Analyses
    BY FreshIsSomebody DEF Analyses
  <2>8. analyses' \in [Replicas -> [Preparations -> Analyses]]
    BY <2>1, <2>7 DEF ClaimAnalysis, BookingInv, BookingTypeOK
  <2> QED
    BY <1>1, <1>2, <2>6, <2>8, RowStep
<1> QED
  BY <1>3, <1>4

\* The analysis is stored, or its claim given back, or neither.
LEMMA AnalysedKeeps ==
  ASSUME BookingInv, NEW p \in Replicas, NEW k \in Preparations, Analysed(p, k)
  PROVE  BookingInv'
<1>1. UNCHANGED <<attendanceVars, works, lock, bank>> /\ bank' \subseteq Questions /\ LeftKept
  BY WorksOrBreaks DEF Analysed, BookingInv, BookingTypeOK
<1>2. Aside
  BY <1>1, InterviewsAside
<1>3. analyses' \in [Replicas -> [Preparations -> Analyses]]
  <2>1. analyses[p][k].at # "idle" => analyses[p][k] \in [at : {"call", "release"}, token : Nat]
    BY DEF BookingInv, BookingTypeOK, Analyses, Resting
  <2>2. PICK job : job = [analyses[p][k] EXCEPT !.at = "release"]
    OBVIOUS
  <2>3. analyses[p][k].at # "idle" => job \in Analyses
    BY <2>1, <2>2 DEF Analyses
  <2>4. Resting \in Analyses
    BY DEF Analyses
  <2>5. CASE analyses' = [analyses EXCEPT ![p][k] = Resting]
    BY <2>4, <2>5 DEF BookingInv, BookingTypeOK
  <2>6. CASE /\ analyses[p][k].at # "idle"
             /\ analyses' = [analyses EXCEPT ![p][k].at = "release"]
    <3>1. analyses' = [analyses EXCEPT ![p][k] = job]
      BY <2>2, <2>6 DEF BookingInv, BookingTypeOK
    <3>2. job \in Analyses
      BY <2>3, <2>6
    <3> QED
      BY <3>1, <3>2 DEF BookingInv, BookingTypeOK
  <2> QED
    BY <2>5, <2>6 DEF Analysed, StoreAnalysis
<1>4. CASE UNCHANGED preps
  BY <1>1, <1>2, <1>3, <1>4, NoRowTouched, RowStep
<1>5. ASSUME NEW facts \in BOOLEAN, NEW status \in {"REVIEW", preps[k].status}, NEW reader \in Nat,
             preps[k] # NoPreparation,
             Row(k, [preps[k] EXCEPT !.facts = facts, !.status = status, !.reader = reader])
      PROVE  BookingInv'
  <2>1. PICK row : row = [preps[k] EXCEPT !.facts = facts, !.status = status, !.reader = reader]
    OBVIOUS
  <2>2. preps[k] \in PrepRows /\ (preps[k].writer # 0 => preps[k].wording = 0)
    BY <1>5, PrepTyped
  <2>3. status \in {"ANALYZING", "REVIEW", "CONFIRMED", "READY", "DELETED"}
    BY <2>2 DEF PrepRows
  <2>4. /\ row \in PrepRows /\ row.status = status
        /\ row.pin = preps[k].pin /\ row.wording = preps[k].wording
        /\ row.writer = preps[k].writer
    BY <2>1, <2>2, <2>3 DEF PrepRows
  <2>5. PrepsFine
    BY <1>2, <1>5, <2>1, <2>2, <2>4, OneRowTouched
  <2> QED
    BY <1>1, <1>2, <1>3, <2>5, RowStep
<1>6. CASE StoreAnalysis(p, k) /\ preps' # preps
  <2>1. /\ Row(k, [preps[k] EXCEPT !.facts = TRUE, !.status = "REVIEW", !.reader = 0])
        /\ preps[k].status = "ANALYZING"
    BY <1>6 DEF StoreAnalysis
  <2>2. preps[k] # NoPreparation
    BY <2>1 DEF NoPreparation, None
  <2> QED
    BY <2>1, <2>2, <1>5
<1>7. CASE /\ preps' # preps
           /\ Row(k, [preps[k] EXCEPT !.reader = IF @ = analyses[p][k].token THEN 0 ELSE @])
  <2>1. CASE preps[k] = NoPreparation
    <3>1. preps' = preps
      BY <1>7, <2>1 DEF Row, NoPreparation, BookingInv, BookingTypeOK
    <3> QED
      BY <1>7, <3>1
  <2>2. CASE preps[k] # NoPreparation
    <3>1. preps[k] \in PrepRows
      BY <2>2, PrepTyped
    <3>2. PICK reader \in Nat :
            reader = IF preps[k].reader = analyses[p][k].token THEN 0 ELSE preps[k].reader
      BY <3>1 DEF PrepRows
    <3>3. [preps[k] EXCEPT !.reader = reader] =
          [preps[k] EXCEPT !.facts = preps[k].facts, !.status = preps[k].status,
                           !.reader = reader]
      BY <3>1 DEF PrepRows
    <3>4. preps[k].facts \in BOOLEAN
      BY <3>1 DEF PrepRows
    <3>5. preps' = [preps EXCEPT ![k] = [preps[k] EXCEPT !.reader = reader]]
      BY <1>7, <3>2 DEF Row
    <3> QED
      BY <2>2, <3>2, <3>3, <3>4, <3>5, <1>5 DEF Row
  <2> QED
    BY <2>1, <2>2
<1> QED
  BY <1>4, <1>6, <1>7 DEF Analysed

\* The candidate confirms the facts.
LEMMA ConfirmKeeps ==
  ASSUME BookingInv, NEW k \in Preparations, Confirm(k)
  PROVE  BookingInv'
<1>1. /\ UNCHANGED <<attendanceVars, analyses, works, lock, bank, left>>
      /\ bank' \subseteq Questions /\ analyses' \in [Replicas -> [Preparations -> Analyses]]
      /\ preps[k].status = "REVIEW" /\ Row(k, [preps[k] EXCEPT !.status = "CONFIRMED"])
  BY DEF Confirm, BookingInv, BookingTypeOK
<1>2. Aside
  BY <1>1, InterviewsAside DEF LeftKept
<1>3. PICK row : row = [preps[k] EXCEPT !.status = "CONFIRMED"]
  OBVIOUS
<1>4. /\ preps[k] \in PrepRows /\ preps[k] # NoPreparation
      /\ preps[k].writer # 0 => preps[k].wording = 0
  BY <1>1, PrepTyped DEF None
<1>5. "CONFIRMED" \in {"ANALYZING", "REVIEW", "CONFIRMED", "READY", "DELETED"}
  OBVIOUS
<1>6. /\ row \in PrepRows /\ row.status = "CONFIRMED"
      /\ row.pin = preps[k].pin /\ row.wording = preps[k].wording
      /\ row.writer = preps[k].writer
  BY <1>3, <1>4, <1>5 DEF PrepRows
<1>7. PrepsFine
  BY <1>1, <1>2, <1>3, <1>4, <1>6, OneRowTouched
<1> QED
  BY <1>1, <1>2, <1>7, RowStep

\* What is erased keeps its pin and its wording.
LEMMA EraseKeeps ==
  ASSUME BookingInv, NEW k \in Preparations, Erase(k)
  PROVE  BookingInv'
<1>1. /\ UNCHANGED <<attendanceVars, analyses, works, lock, bank>> /\ LeftKept
      /\ bank' \subseteq Questions /\ analyses' \in [Replicas -> [Preparations -> Analyses]]
      /\ preps[k] # NoPreparation
  BY SpendKeeps DEF Erase, LeftKept, BookingInv, BookingTypeOK
<1>2. Aside
  BY <1>1, InterviewsAside
<1>3. preps[k] \in PrepRows /\ (preps[k].writer # 0 => preps[k].wording = 0)
  BY <1>1, PrepTyped
<1>4. ASSUME NEW row \in PrepRows, Row(k, row), row.pin = preps[k].pin,
             row.wording = preps[k].wording, row.writer \in {0, preps[k].writer},
             row.status \in {"DELETED", preps[k].status}
      PROVE  BookingInv'
  <2>1. PrepsFine
    BY <1>1, <1>2, <1>3, <1>4, OneRowTouched
  <2> QED
    BY <1>1, <1>2, <2>1, RowStep
<1>5. CASE Row(k, [preps[k] EXCEPT !.text = "gone", !.reader = 0])
  <2>1. PICK row : row = [preps[k] EXCEPT !.text = "gone", !.reader = 0]
    OBVIOUS
  <2>2. "gone" \in {"kept", "expired", "gone"} /\ 0 \in Nat
    OBVIOUS
  <2>3. /\ row \in PrepRows /\ row.pin = preps[k].pin /\ row.wording = preps[k].wording
        /\ row.writer = preps[k].writer /\ row.status = preps[k].status
    BY <1>3, <2>1, <2>2 DEF PrepRows
  <2> QED
    BY <1>4, <1>5, <2>1, <2>3
<1>6. CASE Row(k, Emptied(preps[k]))
  <2>1. PICK row : row = Emptied(preps[k])
    OBVIOUS
  <2>2. /\ "gone" \in {"kept", "expired", "gone"} /\ 0 \in Nat /\ FALSE \in BOOLEAN
        /\ "DELETED" \in {"ANALYZING", "REVIEW", "CONFIRMED", "READY", "DELETED"}
    OBVIOUS
  <2>3. /\ row \in PrepRows /\ row.pin = preps[k].pin /\ row.wording = preps[k].wording
        /\ row.writer = 0 /\ row.status = "DELETED"
    BY <1>3, <2>1, <2>2 DEF PrepRows, Emptied
  <2> QED
    BY <1>4, <1>6, <2>1, <2>3
<1>7. CASE Row(k, [preps[k] EXCEPT !.text = "expired"])
  <2>1. PICK row : row = [preps[k] EXCEPT !.text = "expired"]
    OBVIOUS
  <2>2. "expired" \in {"kept", "expired", "gone"}
    OBVIOUS
  <2>3. /\ row \in PrepRows /\ row.pin = preps[k].pin /\ row.wording = preps[k].wording
        /\ row.writer = preps[k].writer /\ row.status = preps[k].status
    BY <1>3, <2>1, <2>2 DEF PrepRows
  <2> QED
    BY <1>4, <1>7, <2>1, <2>3
<1> QED
  BY <1>5, <1>6, <1>7 DEF Erase

\* A worker begins with the row as it is.
LEMMA CompleteKeeps ==
  ASSUME BookingInv, NEW p \in Replicas, NEW k \in Keys, Complete(p, k)
  PROVE  BookingInv'
<1>1. /\ UNCHANGED <<attendanceVars, preps, analyses, lock, bank, left>>
      /\ works[p][k].at # "insert"
  BY DEF Complete, Resting
<1>2. Aside /\ PrepsFine
  BY <1>1, InterviewsAside, NoRowTouched DEF LeftKept
<1>3. ASSUME NEW question \in Asked, NEW wording \in Nat,
             Turn(p, k, [at |-> "choose", question |-> question, fit |-> FALSE,
                         wording |-> wording, token |-> 0]),
             k \in Preparations => /\ preps[k] # NoPreparation /\ preps[k].pin = question
                                   /\ preps[k].wording = wording
      PROVE  BookingInv'
  <2>1. PICK w : w = [at |-> "choose", question |-> question, fit |-> FALSE,
                      wording |-> wording, token |-> 0]
    OBVIOUS
  <2>2. w \in Busy /\ w \in Jobs /\ w.at = "choose" /\ w.question = question /\ w.wording = wording
    BY <2>1 DEF Busy, Jobs, AtWorks
  <2>3. ASSUME k \in Preparations PROVE HandInv(k, w)'
    <3>1. HandInv(k, w)
      BY <1>3, <2>2, <2>3 DEF HandInv
    <3> QED
      BY <1>2, <2>2, <2>3, <3>1, HandStays DEF PrepsFine
  <2> QED
    BY <1>1, <1>2, <1>3, <2>1, <2>2, <2>3, JobStep
<1>4. CASE k \in Preparations
  <2>1. preps[k].status = "CONFIRMED" /\ Turn(p, k, Begin("choose", preps[k]))
    BY <1>4 DEF Complete
  <2>2. preps[k] # NoPreparation /\ preps[k] \in PrepRows
    BY <1>4, <2>1, PrepTyped DEF None
  <2>3. preps[k].pin \in Asked /\ preps[k].wording \in Nat
    BY <2>2 DEF PrepRows
  <2> QED
    BY <1>3, <2>1, <2>2, <2>3 DEF Begin
<1>5. CASE k \notin Preparations
  <2>1. Turn(p, k, Begin("choose", Prepared))
    BY <1>5 DEF Complete
  <2>2. None \in Asked /\ Prepared.pin = None /\ Prepared.wording = 0
    BY DEF Asked, Prepared
  <2> QED
    BY <1>3, <1>5, <2>1, <2>2 DEF Begin
<1> QED
  BY <1>4, <1>5

\* The question is chosen, or fetched as it is pinned.
LEMMA ChooseKeeps ==
  ASSUME BookingInv, NEW p \in Replicas, NEW k \in Keys, Choose(p, k)
  PROVE  BookingInv'
<1>1. /\ UNCHANGED <<attendanceVars, preps, analyses, lock, bank>> /\ LeftKept
      /\ works[p][k].at = "choose"
  BY WorksOrBreaks DEF Choose, On
<1>2. Aside /\ PrepsFine
  BY <1>1, InterviewsAside, NoRowTouched
<1>3. PICK w \in Busy : /\ w = works[p][k] /\ w.at = "choose"
                        /\ k \in Preparations => HandInv(k, w) /\ w # Resting
  BY <1>1, JobTyped
<1>4. CASE Stop(p, k)
  BY <1>1, <1>2, <1>4, StopStep
<1>5. ASSUME NEW question \in Questions, NEW at \in {"claim", "lookup", "pin"},
             Turn(p, k, [w EXCEPT !.question = question, !.fit = question \in bank, !.at = at]),
             k \in Preparations /\ at # "pin" => w.question = question,
             k \in Preparations /\ at = "lookup" => w.wording # 0
      PROVE  BookingInv'
  <2>1. PICK fit \in BOOLEAN : fit = (question \in bank)
    <3>1. CASE question \in bank
      <4>1. TRUE = (question \in bank)
        BY <3>1
      <4> QED
        BY <4>1, Zenon
    <3>2. CASE question \notin bank
      <4>1. FALSE = (question \in bank)
        BY <3>2
      <4> QED
        BY <4>1, Zenon
    <3> QED
      BY <3>1, <3>2
  <2>2. PICK new : new = [w EXCEPT !.question = question, !.fit = fit, !.at = at]
    OBVIOUS
  <2>3. at \in AtWorks /\ question \in Asked /\ question # None /\ at # "insert"
    BY PreparationAssumption DEF AtWorks, Asked
  <2>4. /\ new \in Busy /\ new.at = at /\ new.question = question
        /\ new.wording = w.wording
    BY <2>2, <2>3 DEF Busy
  <2>5. Turn(p, k, new) /\ new \in Jobs
    BY <1>5, <2>1, <2>2, <2>4 DEF Jobs
  <2>6. ASSUME k \in Preparations PROVE HandInv(k, new)'
    <3>1. HandInv(k, new)
      BY <1>3, <1>5, <2>3, <2>4, <2>6 DEF HandInv
    <3> QED
      BY <1>2, <2>5, <2>6, <3>1, HandStays DEF PrepsFine
  <2> QED
    BY <1>1, <1>2, <2>3, <2>4, <2>5, <2>6, JobStep
<1>6. CASE w.question # None /\ ~Stop(p, k)
  <2>1. PICK at \in {"claim", "lookup"} :
          /\ Turn(p, k, [w EXCEPT !.question = w.question, !.fit = w.question \in bank, !.at = at])
          /\ at = "lookup" => w.wording # 0
    BY <1>3, <1>6 DEF Choose
  <2>2. w.question \in Questions
    BY <1>6 DEF Busy, Asked
  <2> QED
    BY <1>5, <2>1, <2>2
<1>7. CASE w.question = None /\ ~Stop(p, k)
  <2>1. PICK question \in Choices(k) :
          Turn(p, k, [w EXCEPT !.question = question, !.fit = question \in bank,
                               !.at = IF k \in Preparations THEN "pin" ELSE "lookup"])
    BY <1>3, <1>7 DEF Choose
  <2>2. question \in Questions
    BY DEF Choices, Unseen, BookingInv, BookingTypeOK
  <2> QED
    BY <1>5, <2>1, <2>2
<1> QED
  BY <1>4, <1>6, <1>7

\* The first pin stands.
LEMMA PinKeeps ==
  ASSUME BookingInv, NEW p \in Replicas, NEW k \in Preparations, Pin(p, k)
  PROVE  BookingInv'
<1>1. /\ UNCHANGED <<attendanceVars, analyses, lock, bank>> /\ LeftKept
      /\ works[p][k].at = "pin" /\ k \in Keys
  BY WorksOrBreaks, PreparationAssumption DEF Pin, On
<1>2. Aside
  BY <1>1, InterviewsAside
<1>3. PICK w \in Busy : w = works[p][k] /\ w.at = "pin" /\ w.question # None
  BY <1>1, JobTyped DEF HandInv
<1>4. CASE Stop(p, k) /\ UNCHANGED preps
  BY <1>1, <1>2, <1>4, NoRowTouched, StopStep
<1>5. ASSUME preps[k] # NoPreparation, PrepsFine, preps'[k].pin = w.question,
             preps'[k].wording = preps[k].wording,
             Turn(p, k, [w EXCEPT !.wording = preps[k].wording,
                                  !.at = IF preps[k].wording = 0 THEN "claim" ELSE "lookup"])
      PROVE  BookingInv'
  <2>1. PICK wording \in Nat : wording = preps[k].wording
    BY <1>5, PrepTyped DEF PrepRows
  <2>2. PICK at \in {"claim", "lookup"} : at = IF wording = 0 THEN "claim" ELSE "lookup"
    OBVIOUS
  <2>3. PICK new : new = [w EXCEPT !.wording = wording, !.at = at]
    OBVIOUS
  <2>4. /\ new \in Busy /\ new.at = at /\ new.question = w.question /\ new.wording = wording
        /\ new \in Jobs /\ at # "insert"
    BY <2>3 DEF Busy, AtWorks, Jobs
  <2>5. Turn(p, k, new)
    BY <1>5, <2>1, <2>2, <2>3
  <2>6. preps'[k] # NoPreparation
    BY <1>5 DEF PrepsFine, RowGrows
  <2>7. HandInv(k, new)'
    BY <1>3, <1>5, <2>1, <2>2, <2>4, <2>6 DEF HandInv
  <2> QED
    BY <1>1, <1>2, <1>3, <1>5, <2>4, <2>5, <2>7, JobStep
<1>6. CASE /\ preps[k].status = "CONFIRMED" /\ preps[k].pin \in {None, w.question}
           /\ Row(k, [preps[k] EXCEPT !.pin = w.question])
           /\ Turn(p, k, [w EXCEPT !.wording = preps[k].wording,
                                   !.at = IF preps[k].wording = 0 THEN "claim" ELSE "lookup"])
  <2>1. /\ preps[k] # NoPreparation /\ preps[k] \in PrepRows
        /\ preps[k].writer # 0 => preps[k].wording = 0
    BY <1>6, PrepTyped DEF None
  <2>2. PICK row : row = [preps[k] EXCEPT !.pin = w.question]
    OBVIOUS
  <2>3. /\ row \in PrepRows /\ row.pin = w.question /\ row.wording = preps[k].wording
        /\ row.writer = preps[k].writer /\ row.status = preps[k].status
    BY <2>1, <2>2 DEF PrepRows, Busy
  <2>4. PrepsFine
    BY <1>2, <1>6, <2>1, <2>2, <2>3, OneRowTouched
  <2>5. preps'[k] = row
    BY <1>6, <2>2 DEF Row, BookingInv, BookingTypeOK
  <2> QED
    BY <1>5, <1>6, <2>1, <2>3, <2>4, <2>5
<1>7. CASE /\ preps[k].status = "READY" /\ preps[k].pin = w.question /\ UNCHANGED preps
           /\ Turn(p, k, [w EXCEPT !.wording = preps[k].wording,
                                   !.at = IF preps[k].wording = 0 THEN "claim" ELSE "lookup"])
  <2>1. preps[k] # NoPreparation
    BY <1>7, PrepTyped DEF None
  <2> QED
    BY <1>2, <1>5, <1>7, <2>1, NoRowTouched
<1> QED
  BY <1>3, <1>4, <1>6, <1>7 DEF Pin

\* The wording is claimed while there is none.
LEMMA ClaimWordingKeeps ==
  ASSUME BookingInv, NEW p \in Replicas, NEW k \in Preparations, ClaimWording(p, k)
  PROVE  BookingInv'
<1>1. /\ UNCHANGED <<attendanceVars, analyses, lock, bank>> /\ LeftKept
      /\ works[p][k].at = "claim" /\ k \in Keys
  BY WorksOrBreaks, PreparationAssumption DEF ClaimWording, On
<1>2. Aside
  BY <1>1, InterviewsAside
<1>3. PICK w \in Busy : /\ w = works[p][k] /\ w.at = "claim" /\ HandInv(k, w)
                        /\ w # Resting
  BY <1>1, JobTyped
<1>4. CASE Stop(p, k) /\ UNCHANGED preps
  BY <1>1, <1>2, <1>4, NoRowTouched, StopStep
<1>5. CASE /\ Writable(preps[k])
           /\ Row(k, [preps[k] EXCEPT !.writer = Fresh, !.writerStale = FALSE])
           /\ Turn(p, k, [w EXCEPT !.token = Fresh, !.at = "write"])
  <2>1. preps[k] # NoPreparation /\ preps[k] \in PrepRows /\ preps[k].wording = 0
        /\ preps[k].status = "CONFIRMED"
    BY <1>5, PrepTyped DEF Writable, None
  <2>2. PICK token \in Nat \ {0} : token = Fresh
    BY FreshIsSomebody
  <2>3. PICK row : row = [preps[k] EXCEPT !.writer = token, !.writerStale = FALSE]
    OBVIOUS
  <2>4. /\ row \in PrepRows /\ row.pin = preps[k].pin /\ row.wording = preps[k].wording
        /\ row.writer = token /\ row.status = preps[k].status
    BY <2>1, <2>3 DEF PrepRows
  <2>5. Row(k, row)
    BY <1>5, <2>2, <2>3
  <2>6. PrepsFine
    BY <1>2, <2>1, <2>4, <2>5, OneRowTouched
  <2>7. PICK new : new = [w EXCEPT !.token = token, !.at = "write"]
    OBVIOUS
  <2>8. /\ new \in Busy /\ new.at = "write" /\ new.question = w.question
        /\ new.token = token /\ new \in Jobs
    BY <2>7 DEF Busy, AtWorks, Jobs
  <2>9. Turn(p, k, new)
    BY <1>5, <2>2, <2>7
  <2>10. preps'[k] = row /\ row # NoPreparation
    BY <2>1, <2>4, <2>5 DEF Row, BookingInv, BookingTypeOK, NoPreparation, None
  <2>11. HandInv(k, new)'
    BY <1>3, <2>4, <2>8, <2>10 DEF HandInv
  <2> QED
    BY <1>1, <1>2, <1>3, <2>6, <2>8, <2>9, <2>11, JobStep
<1> QED
  BY <1>3, <1>4, <1>5 DEF ClaimWording

\* A wording is stored under its claim, so where there is none.
LEMMA WriteKeeps ==
  ASSUME BookingInv, NEW p \in Replicas, NEW k \in Preparations, Write(p, k)
  PROVE  BookingInv'
<1>1. /\ UNCHANGED <<attendanceVars, analyses, lock, bank>> /\ LeftKept
      /\ works[p][k].at \in {"write", "release"} /\ k \in Keys
  BY WorksOrBreaks, PreparationAssumption DEF Write, On
<1>2. Aside
  BY <1>1, InterviewsAside
<1>3. PICK w \in Busy : /\ w = works[p][k] /\ w.at \in {"write", "release"} /\ HandInv(k, w)
                        /\ w # Resting
  BY <1>1, JobTyped
<1>4. /\ preps[k] # NoPreparation /\ preps[k] \in PrepRows
      /\ preps[k].writer # 0 => preps[k].wording = 0
  BY <1>3, PrepTyped DEF HandInv
<1>5. CASE w.at = "write" /\ Turn(p, k, [w EXCEPT !.at = "release"]) /\ UNCHANGED preps
  <2>1. PICK new : new = [w EXCEPT !.at = "release"]
    OBVIOUS
  <2>2. new \in Busy /\ new.at = "release" /\ new.question = w.question /\ new \in Jobs
    BY <2>1 DEF Busy, AtWorks, Jobs
  <2>3. PrepsFine
    BY <1>2, <1>5, NoRowTouched
  <2>4. HandInv(k, new)
    BY <1>3, <1>5, <2>2 DEF HandInv
  <2>5. HandInv(k, new)'
    BY <2>2, <2>3, <2>4, HandStays DEF PrepsFine
  <2> QED
    BY <1>1, <1>2, <1>5, <2>1, <2>2, <2>3, <2>5, JobStep
<1>6. CASE /\ w.at = "write" /\ preps[k].status = "CONFIRMED" /\ preps[k].writer = w.token
           /\ Row(k, [preps[k] EXCEPT !.wording = w.token, !.writer = 0])
           /\ Turn(p, k, [w EXCEPT !.wording = w.token, !.at = "lookup"])
  <2>1. w.token \in Nat /\ w.token # 0 /\ preps[k].wording = 0
    BY <1>3, <1>4, <1>6 DEF HandInv, Busy
  <2>2. PICK row : row = [preps[k] EXCEPT !.wording = w.token, !.writer = 0]
    OBVIOUS
  <2>3. /\ row \in PrepRows /\ row.pin = preps[k].pin /\ row.wording = w.token
        /\ row.writer = 0 /\ row.status = preps[k].status
    BY <1>4, <2>1, <2>2 DEF PrepRows
  <2>4. Row(k, row)
    BY <1>6, <2>2
  <2>5. PrepsFine
    BY <1>2, <1>4, <2>1, <2>3, <2>4, OneRowTouched
  <2>6. PICK new : new = [w EXCEPT !.wording = w.token, !.at = "lookup"]
    OBVIOUS
  <2>7. /\ new \in Busy /\ new.at = "lookup" /\ new.question = w.question
        /\ new.wording = w.token /\ new \in Jobs
    BY <2>1, <2>6 DEF Busy, AtWorks, Jobs
  <2>8. preps'[k] = row /\ row # NoPreparation
    BY <1>4, <2>3, <2>4 DEF Row, BookingInv, BookingTypeOK, PrepRows, NoPreparation, None
  <2>9. HandInv(k, new)'
    BY <1>3, <1>6, <2>1, <2>3, <2>7, <2>8 DEF HandInv
  <2> QED
    BY <1>1, <1>2, <1>6, <2>5, <2>6, <2>7, <2>9, JobStep
<1>7. CASE Stop(p, k) /\ UNCHANGED preps
  BY <1>1, <1>2, <1>7, NoRowTouched, StopStep
<1>8. CASE /\ Stop(p, k)
           /\ Row(k, [preps[k] EXCEPT !.writer = IF @ = works[p][k].token THEN 0 ELSE @])
  <2>1. PICK writer \in Nat :
          /\ writer = IF preps[k].writer = works[p][k].token THEN 0 ELSE preps[k].writer
          /\ writer \in {0, preps[k].writer}
    BY <1>4 DEF PrepRows
  <2>2. PICK row : row = [preps[k] EXCEPT !.writer = writer]
    OBVIOUS
  <2>3. /\ row \in PrepRows /\ row.pin = preps[k].pin /\ row.wording = preps[k].wording
        /\ row.writer = writer /\ row.status = preps[k].status
    BY <1>4, <2>2 DEF PrepRows
  <2>4. Row(k, row)
    BY <1>8, <2>1, <2>2
  <2>5. PrepsFine
    BY <1>2, <1>4, <2>1, <2>3, <2>4, OneRowTouched
  <2> QED
    BY <1>1, <1>2, <1>8, <2>5, StopStep
<1> QED
  BY <1>3, <1>5, <1>6, <1>7, <1>8 DEF Write, StoreWording, On, Going

-----------------------------------------------------------------------------
(* createStarted, and what happens around it.                              *)

\* The interview of the key is looked up first.
LEMMA LookUpKeeps ==
  ASSUME BookingInv, NEW p \in Replicas, NEW k \in Keys, LookUp(p, k)
  PROVE  BookingInv'
<1>1. /\ UNCHANGED <<attendanceVars, preps, analyses, lock, bank>> /\ LeftKept
      /\ works[p][k].at = "lookup"
  BY WorksOrBreaks DEF LookUp, On
<1>2. Aside /\ PrepsFine
  BY <1>1, InterviewsAside, NoRowTouched
<1>3. PICK w \in Busy : /\ w = works[p][k] /\ w.at = "lookup"
                        /\ k \in Preparations => HandInv(k, w) /\ w # Resting
  BY <1>1, JobTyped
<1>4. ASSUME NEW at \in {"admit", "finish"}, Going(p, k, at),
             at = "finish" => Exists(k)
      PROVE  BookingInv'
  <2>1. PICK new : new = [w EXCEPT !.at = at]
    OBVIOUS
  <2>2. /\ new \in Busy /\ new.at = at /\ new.question = w.question
        /\ new.wording = w.wording /\ new \in Jobs /\ at # "insert"
    BY <2>1 DEF Busy, AtWorks, Jobs
  <2>3. at = "finish" => Made(k)
    BY <1>4, MadeTyped DEF BookingInv
  <2>4. ASSUME k \in Preparations PROVE HandInv(k, new)'
    <3>1. HandInv(k, new)
      BY <1>3, <2>2, <2>3, <2>4 DEF HandInv
    <3> QED
      BY <1>2, <2>2, <2>4, <3>1, HandStays DEF PrepsFine
  <2>5. Turn(p, k, new)
    BY <1>3, <1>4, <2>1 DEF Going
  <2> QED
    BY <1>1, <1>2, <2>2, <2>4, <2>5, JobStep
<1>5. CASE Stop(p, k)
  BY <1>1, <1>2, <1>5, StopStep
<1> QED
  BY <1>4, <1>5 DEF LookUp, AfterCreate

\* One worker at a time gets past admission, while its count holds.
LEMMA AdmitKeeps ==
  ASSUME BookingInv, NEW p \in Replicas, NEW k \in Keys, Admit(p, k)
  PROVE  BookingInv'
<1>1. /\ UNCHANGED <<attendanceVars, preps, analyses, bank>> /\ LeftKept
      /\ works[p][k].at = "admit" /\ lock = {}
  BY WorksOrBreaks DEF Admit, On
<1>2. Aside /\ PrepsFine
  BY <1>1, InterviewsAside, NoRowTouched
<1>3. PICK w \in Busy : /\ w = works[p][k] /\ w.at = "admit"
                        /\ k \in Preparations => HandInv(k, w) /\ w # Resting
  BY <1>1, JobTyped
<1>4. CASE Stop(p, k) /\ UNCHANGED lock
  BY <1>1, <1>2, <1>4, StopStep
<1>5. CASE Admissible(UserOf(k)) /\ lock' = {<<p, k>>} /\ Going(p, k, "insert")
  <2>1. PICK new : new = [w EXCEPT !.at = "insert"]
    OBVIOUS
  <2>2. /\ new \in Busy /\ new.at = "insert" /\ new.question = w.question
        /\ new.wording = w.wording /\ new \in Jobs
    BY <2>1 DEF Busy, AtWorks, Jobs
  <2>3. ASSUME k \in Preparations PROVE HandInv(k, new)'
    <3>1. HandInv(k, new)
      BY <1>3, <2>2, <2>3 DEF HandInv
    <3> QED
      BY <1>2, <2>2, <2>3, <3>1, HandStays DEF PrepsFine
  <2>4. Turn(p, k, new)
    BY <1>3, <1>5, <2>1 DEF Going
  <2>5. /\ works' \in [Replicas -> [Keys -> Jobs]] /\ works'[p][k] = new
        /\ \A q \in Replicas, j \in Keys : q # p \/ j # k => works'[q][j] = works[q][j]
    BY <2>2, <2>4, Turned
  <2>6. \A q \in Replicas, j \in Keys : On(q, j, "insert")' <=> q = p /\ j = k
    BY <1>1, <2>2, <2>5 DEF On, BookingInv, AdmissionInv, LockInv
  <2>7. Admissible(UserOf(k))'
    BY <1>2, <1>5 DEF Aside
  <2>8. LockInv'
    BY <1>5, <2>6, <2>7 DEF LockInv
  <2>9. \A q \in Replicas, j \in Preparations :
          \/ works'[q][j] = works[q][j]
          \/ \E x \in Jobs : works'[q][j] = x /\ HandInv(j, x)'
    BY <2>2, <2>3, <2>5, PreparationAssumption
  <2>10. /\ bank' \subseteq Questions
         /\ analyses' \in [Replicas -> [Preparations -> Analyses]]
    BY <1>1 DEF BookingInv, BookingTypeOK
  <2> QED
    BY <1>2, <2>5, <2>8, <2>9, <2>10, BookStep DEF Aside
<1> QED
  BY <1>4, <1>5 DEF Admit

\* The insert makes the interview that was admitted, of what is pinned.
LEMMA InsertKeeps ==
  ASSUME BookingInv, NEW p \in Replicas, NEW k \in Keys, Insert(p, k)
  PROVE  BookingInv'
<1>1. /\ UNCHANGED <<clock, leases, pages, sockets, calls, sweep, preps, analyses, bank>>
      /\ LeftKept /\ works[p][k].at = "insert" /\ On(p, k, "insert") /\ lock' = {}
  BY WorksOrBreaks DEF Insert, On
<1>2. /\ AttendanceTypeOK /\ CreditInv /\ SocketInv /\ AdmissionHolds /\ LockInv
      /\ Admissible(UserOf(k))
  BY <1>1 DEF BookingInv, AdmissionInv, LockInv
<1>3. PICK w \in Busy : /\ w = works[p][k] /\ w.at = "insert"
                        /\ k \in Preparations => HandInv(k, w) /\ w # Resting
  BY <1>1, JobTyped
<1>4. /\ interviews' = [interviews EXCEPT ![k] = Created(w.question, w.wording)] /\ ~Made(k)
      \/ UNCHANGED interviews
  BY <1>3 DEF Insert, Made
<1>5. InterviewsFine /\ PrepsFine
  <2>1. CASE interviews' = [interviews EXCEPT ![k] = Created(w.question, w.wording)] /\ ~Made(k)
    <3>1. w.question \in Asked /\ w.wording \in Nat
      BY DEF Busy
    <3>2. AttendanceTypeOK' /\ CreditInv'
      BY <1>1, <1>2, <2>1, <3>1, CreatedKeeps
    <3>3. PICK row : row = Created(w.question, w.wording)
      OBVIOUS
    <3>4. /\ row.at = "active" /\ row.question = w.question /\ row.wording = w.wording
          /\ row # NoInterview
      BY <3>3 DEF Created, NoInterview, None
    <3>5. /\ interviews'[k] = row
          /\ \A j \in Keys : j # k => interviews'[j] = interviews[j]
      BY <1>2, <2>1, <3>3 DEF AttendanceTypeOK
    <3>6. \A j \in Keys : Made(j) => Made(j)'
      BY <3>4, <3>5 DEF Made
    <3>7. SocketInv'
      BY <1>1, <1>2, <3>6, SocketsKeep
    <3>8. AdmissionHolds'
      BY <1>2, <2>1, <3>4, <3>5, CountsRise
    <3>9. InterviewsFine
      BY <1>1, <3>2, <3>7, <3>8 DEF InterviewsFine
    <3>10. \A j \in Preparations : j # k => RowInv(j)' /\ RowGrows(j)
      <4>1. \A j \in Preparations : j # k => RowKept(j) /\ preps'[j] = preps[j] /\ RowInv(j)
        BY <1>1, <3>5, PrepTyped DEF RowKept, Made, Active
      <4> QED
        BY <1>1, <1>2, <4>1, RowStays
    <3>11. ASSUME k \in Preparations PROVE RowInv(k)' /\ RowGrows(k)
      <4>1. /\ preps[k] # NoPreparation /\ preps'[k] = preps[k] /\ Made(k)'
            /\ preps[k].pin # None /\ interviews'[k].question = preps[k].pin
            /\ preps[k].wording # 0 /\ interviews'[k].wording = preps[k].wording
            /\ preps[k].writer # 0 => preps[k].wording = 0
        BY <1>1, <1>3, <3>4, <3>5, <3>11, PrepTyped DEF HandInv, Made
      <4> QED
        BY <4>1 DEF RowInv, RowGrows
    <3>12. PrepsFine
      BY <1>1, <3>10, <3>11 DEF PrepsFine, BookingInv, BookingTypeOK
    <3> QED
      BY <3>9, <3>12
  <2>2. CASE UNCHANGED interviews
    <3>1. Aside
      BY <1>1, <2>2, InterviewsAside DEF attendanceVars
    <3> QED
      BY <1>1, <3>1, NoRowTouched DEF Aside
  <2> QED
    BY <1>4, <2>1, <2>2
<1>6. \/ Stop(p, k)
      \/ Made(k)' /\ k \in Preparations /\ Going(p, k, "finish")
  <2>1. Exists(k) /\ UNCHANGED interviews => Made(k)'
    BY <1>2, MadeTyped DEF Made
  <2>2. interviews' = [interviews EXCEPT ![k] = Created(w.question, w.wording)] => Made(k)'
    <3>1. Created(w.question, w.wording) # NoInterview
      BY DEF Created, NoInterview, None
    <3> QED
      BY <1>2, <3>1 DEF Made, AttendanceTypeOK
  <2> QED
    BY <1>3, <2>1, <2>2 DEF Insert, AfterCreate
<1>7. PICK new \in Jobs : /\ Turn(p, k, new) /\ new.at # "insert"
                          /\ k \in Preparations => HandInv(k, new)'
  <2>1. CASE Stop(p, k)
    <3>1. Resting \in Jobs /\ Resting.at # "insert" /\ Turn(p, k, Resting)
      BY <2>1 DEF Jobs, Resting, Stop
    <3>2. k \in Preparations => HandInv(k, Resting)'
      BY DEF HandInv
    <3> QED
      BY <3>1, <3>2
  <2>2. CASE Made(k)' /\ k \in Preparations /\ Going(p, k, "finish")
    <3>1. PICK new : new = [w EXCEPT !.at = "finish"]
      OBVIOUS
    <3>2. /\ new \in Busy /\ new.at = "finish" /\ new.question = w.question
          /\ new.wording = w.wording /\ new \in Jobs
      BY <3>1 DEF Busy, AtWorks, Jobs
    <3>3. Turn(p, k, new)
      BY <1>3, <2>2, <3>1 DEF Going
    <3>4. HandInv(k, new)'
      <4>1. /\ w.question # None /\ preps[k].pin = w.question /\ preps'[k] = preps[k]
            /\ preps[k] # NoPreparation
            /\ w.wording # 0 /\ preps[k].wording = w.wording
        BY <1>1, <1>3, <2>2 DEF HandInv
      <4> QED
        BY <2>2, <3>2, <4>1 DEF HandInv
    <3> QED
      BY <3>2, <3>3, <3>4
  <2> QED
    BY <1>6, <2>1, <2>2
<1>8. /\ works' \in [Replicas -> [Keys -> Jobs]] /\ works'[p][k] = new
      /\ \A q \in Replicas, j \in Keys : q # p \/ j # k => works'[q][j] = works[q][j]
  BY <1>7, Turned
<1>9. \A q \in Replicas, j \in Keys : ~On(q, j, "insert")'
  <2>1. \A q \in Replicas, j \in Keys : q # p \/ j # k => ~On(q, j, "insert")
    BY <1>1, <1>2 DEF LockInv
  <2> QED
    BY <1>7, <1>8, <2>1 DEF On
<1>10. LockInv'
  BY <1>1, <1>9 DEF LockInv
<1>11. \A q \in Replicas, j \in Preparations :
         \/ works'[q][j] = works[q][j]
         \/ \E x \in Jobs : works'[q][j] = x /\ HandInv(j, x)'
  BY <1>7, <1>8, PreparationAssumption
<1>12. /\ bank' \subseteq Questions
       /\ analyses' \in [Replicas -> [Preparations -> Analyses]]
  BY <1>1 DEF BookingInv, BookingTypeOK
<1> QED
  BY <1>5, <1>8, <1>10, <1>11, <1>12, BookStep

\* A preparation is ready once its interview is there.
LEMMA FinishKeeps ==
  ASSUME BookingInv, NEW p \in Replicas, NEW k \in Preparations, Finish(p, k)
  PROVE  BookingInv'
<1>1. /\ UNCHANGED <<attendanceVars, analyses, lock, bank>> /\ LeftKept
      /\ works[p][k].at = "finish" /\ Stop(p, k) /\ k \in Keys
  BY WorksOrBreaks, PreparationAssumption DEF Finish, On
<1>2. Aside
  BY <1>1, InterviewsAside
<1>3. PICK w \in Busy : /\ w = works[p][k] /\ w.at = "finish" /\ HandInv(k, w)
                        /\ w # Resting
  BY <1>1, JobTyped
<1>4. CASE UNCHANGED preps
  BY <1>1, <1>2, <1>4, NoRowTouched, StopStep
<1>5. CASE Row(k, [preps[k] EXCEPT !.status = "READY", !.session = TRUE, !.wording = w.wording])
  <2>1. /\ preps[k] # NoPreparation /\ preps[k] \in PrepRows
        /\ preps[k].writer # 0 => preps[k].wording = 0
    BY <1>3, PrepTyped DEF HandInv
  <2>2. Made(k) /\ w.wording # 0 /\ preps[k].wording = w.wording /\ w.wording \in Nat
    BY <1>3 DEF HandInv, Busy
  <2>3. PICK row : row = [preps[k] EXCEPT !.status = "READY", !.session = TRUE,
                                          !.wording = w.wording]
    OBVIOUS
  <2>4. "READY" \in {"ANALYZING", "REVIEW", "CONFIRMED", "READY", "DELETED"} /\ TRUE \in BOOLEAN
    OBVIOUS
  <2>5. /\ row \in PrepRows /\ row.pin = preps[k].pin /\ row.wording = w.wording
        /\ row.writer = preps[k].writer
    BY <2>1, <2>2, <2>3, <2>4 DEF PrepRows
  <2>6. Row(k, row)
    BY <1>5, <2>3
  <2>7. PrepsFine
    BY <1>2, <2>1, <2>2, <2>5, <2>6, OneRowTouched
  <2> QED
    BY <1>1, <1>2, <2>7, StopStep
<1> QED
  BY <1>3, <1>4, <1>5 DEF Finish

\* A claim runs out, and nothing else.
LEMMA LapseKeeps ==
  ASSUME BookingInv, NEW k \in Preparations, Lapse(k)
  PROVE  BookingInv'
<1>1. /\ UNCHANGED <<attendanceVars, analyses, works, lock, bank>>
      /\ bank' \subseteq Questions /\ analyses' \in [Replicas -> [Preparations -> Analyses]]
      /\ preps[k] # NoPreparation
  BY DEF Lapse, BookingInv, BookingTypeOK
<1>2. LeftKept
  BY SpendKeeps DEF Lapse, LeftKept, BookingInv
<1>3. Aside
  BY <1>1, <1>2, InterviewsAside
<1>4. preps[k] \in PrepRows /\ (preps[k].writer # 0 => preps[k].wording = 0)
  BY <1>1, PrepTyped
<1>5. ASSUME NEW row \in PrepRows, Row(k, row), row.pin = preps[k].pin,
             row.wording = preps[k].wording, row.writer = preps[k].writer,
             row.status = preps[k].status
      PROVE  BookingInv'
  <2>1. PrepsFine
    BY <1>1, <1>3, <1>4, <1>5, OneRowTouched
  <2> QED
    BY <1>1, <1>3, <2>1, RowStep
<1>6. CASE Row(k, [preps[k] EXCEPT !.readerStale = TRUE])
  <2>1. PICK row : row = [preps[k] EXCEPT !.readerStale = TRUE]
    OBVIOUS
  <2>2. /\ row \in PrepRows /\ row.pin = preps[k].pin /\ row.wording = preps[k].wording
        /\ row.writer = preps[k].writer /\ row.status = preps[k].status
    BY <1>4, <2>1 DEF PrepRows
  <2> QED
    BY <1>5, <1>6, <2>1, <2>2
<1>7. CASE Row(k, [preps[k] EXCEPT !.writerStale = TRUE])
  <2>1. PICK row : row = [preps[k] EXCEPT !.writerStale = TRUE]
    OBVIOUS
  <2>2. /\ row \in PrepRows /\ row.pin = preps[k].pin /\ row.wording = preps[k].wording
        /\ row.writer = preps[k].writer /\ row.status = preps[k].status
    BY <1>4, <2>1 DEF PrepRows
  <2> QED
    BY <1>5, <1>7, <2>1, <2>2
<1> QED
  BY <1>6, <1>7 DEF Lapse

\* An interview is deleted, and its preparation with it.
LEMMA DeleteKeeps ==
  ASSUME BookingInv, NEW k \in Keys, DeleteInterview(k)
  PROVE  BookingInv'
<1>1. /\ UNCHANGED <<clock, leases, pages, sockets, calls, sweep, analyses, works, lock, bank>>
      /\ bank' \subseteq Questions /\ analyses' \in [Replicas -> [Preparations -> Analyses]]
      /\ LeftKept /\ AttendanceTypeOK /\ CreditInv /\ SocketInv
  BY SpendKeeps DEF DeleteInterview, BookingInv, BookingTypeOK
<1>2. AttendanceStep
  BY <1>1, DeletedKeeps DEF DeleteInterview
<1>3. SocketInv'
  BY <1>1, <1>2, SocketsKeep DEF AttendanceStep, RowKept
<1>4. Aside
  BY <1>2, <1>3, AttendanceAside
<1>5. \A j \in Preparations :
        \/ preps'[j] = preps[j]
        \/ preps[j] # NoPreparation /\ preps'[j] = Emptied(preps[j])
  BY DEF DeleteInterview
<1>6. \A j \in Preparations : j \in Keys /\ RowInv(j) /\ RowKept(j)
  BY <1>2, PrepTyped DEF AttendanceStep
<1>7. ASSUME NEW j \in Preparations
      PROVE  RowInv(j)' /\ RowGrows(j) /\ preps'[j] \in {NoPreparation} \cup PrepRows
  <2>1. CASE preps'[j] = preps[j]
    <3>1. RowInv(j)' /\ RowGrows(j)
      BY <1>1, <1>6, <2>1, RowStays
    <3> QED
      BY <2>1, <3>1 DEF BookingInv, BookingTypeOK
  <2>2. CASE preps[j] # NoPreparation /\ preps'[j] = Emptied(preps[j])
    <3>1. PICK row : row = Emptied(preps[j])
      OBVIOUS
    <3>2. /\ "gone" \in {"kept", "expired", "gone"} /\ 0 \in Nat /\ FALSE \in BOOLEAN
          /\ "DELETED" \in {"ANALYZING", "REVIEW", "CONFIRMED", "READY", "DELETED"}
      OBVIOUS
    <3>3. preps[j] \in PrepRows
      BY <2>2, PrepTyped
    <3>4. /\ row \in PrepRows /\ row.pin = preps[j].pin /\ row.wording = preps[j].wording
          /\ row.writer = 0 /\ row.status = "DELETED"
      BY <3>1, <3>2, <3>3 DEF PrepRows, Emptied
    <3>5. row # NoPreparation
      BY <3>4 DEF NoPreparation, None
    <3>6. RowInv(j)' /\ RowGrows(j)
      BY <1>1, <1>6, <2>2, <3>1, <3>4, <3>5, RowAlters
    <3> QED
      BY <2>2, <3>1, <3>4, <3>6
  <2> QED
    BY <1>5, <2>1, <2>2
<1>8. preps' \in [Preparations -> {NoPreparation} \cup PrepRows]
  <2>1. \A j \in Preparations : preps'[j] \in {NoPreparation} \cup PrepRows
    BY <1>7
  <2>2. preps' = [j \in Preparations |-> preps'[j]]
    BY DEF DeleteInterview
  <2> QED
    BY <2>1, <2>2
<1>9. PrepsFine
  BY <1>7, <1>8 DEF PrepsFine
<1> QED
  BY <1>1, <1>4, <1>9, RowStep

\* A process dies, and with it all its workers and its hold on admission.
LEMMA CrashedKeeps ==
  ASSUME BookingInv, NEW p \in Replicas, Crash(p)
  PROVE  BookingInv'
<1>1. /\ AttendanceCrash /\ LeftKept /\ UNCHANGED <<preps, bank>> /\ bank' \subseteq Questions
      /\ AttendanceTypeOK /\ CreditInv /\ SocketInv
  BY SpendKeeps DEF Crash, BookingInv, BookingTypeOK
<1>2. AttendanceStep
  BY <1>1, CrashKeeps
<1>3. SocketInv'
  BY <1>1, <1>2, SocketsKeep DEF AttendanceStep, RowKept
<1>4. Aside
  BY <1>2, <1>3, AttendanceAside
<1>5. PrepsFine
  BY <1>1, <1>4, NoRowTouched
<1>6. analyses' \in [Replicas -> [Preparations -> Analyses]]
  BY DEF Crash, BookingInv, BookingTypeOK, Analyses
<1>7. /\ works' \in [Replicas -> [Keys -> Jobs]]
      /\ \A k \in Keys : works'[p][k] = Resting
      /\ \A q \in Replicas, k \in Keys : q # p => works'[q][k] = works[q][k]
  BY DEF Crash, BookingInv, BookingTypeOK, Jobs
<1>8. \A q \in Replicas, k \in Keys : On(q, k, "insert")' <=> q # p /\ On(q, k, "insert")
  BY <1>7 DEF On, Resting
<1>9. lock' = {x \in lock : x[1] # p} /\ LockInv
  BY DEF Crash, BookingInv, AdmissionInv
<1>10. LockInv'
  <2>1. \A q, r \in Replicas, j, k \in Keys :
          On(q, j, "insert")' /\ On(r, k, "insert")' => q = r /\ j = k
    BY <1>8, <1>9 DEF LockInv
  <2>2. ASSUME NEW q \in Replicas, NEW k \in Keys, On(q, k, "insert")'
        PROVE  lock' # {} /\ Admissible(UserOf(k))'
    <3>1. On(q, k, "insert") /\ q # p
      BY <1>8, <2>2
    <3>2. lock # {} /\ Admissible(UserOf(k))
      BY <1>9, <3>1 DEF LockInv
    <3>3. PICK r \in Replicas, j \in Keys : <<r, j>> \in lock /\ On(r, j, "insert")
      BY <1>9, <3>2 DEF LockInv
    <3>4. <<q, k>> \in lock
      BY <1>9, <3>1, <3>3 DEF LockInv
    <3>5. <<q, k>> \in lock'
      BY <1>9, <3>1, <3>4
    <3> QED
      BY <1>4, <3>2, <3>5 DEF Aside
  <2>3. ASSUME NEW x \in lock'
        PROVE  \E q \in Replicas, k \in Keys : x = <<q, k>> /\ On(q, k, "insert")'
    <3>1. PICK q \in Replicas, k \in Keys : x = <<q, k>> /\ On(q, k, "insert")
      BY <1>9, <2>3 DEF LockInv
    <3> QED
      BY <1>8, <1>9, <2>3, <3>1
  <2> QED
    BY <2>1, <2>2, <2>3 DEF LockInv
<1>11. \A q \in Replicas, k \in Preparations :
         \/ works'[q][k] = works[q][k]
         \/ \E w \in Jobs : works'[q][k] = w /\ HandInv(k, w)'
  <2>1. \A k \in Preparations : HandInv(k, Resting)'
    BY DEF HandInv
  <2>2. Resting \in Jobs /\ Preparations \subseteq Keys
    BY PreparationAssumption DEF Jobs
  <2> QED
    BY <1>7, <2>1, <2>2
<1> QED
  BY <1>1, <1>4, <1>5, <1>6, <1>7, <1>10, <1>11, BookStep DEF Aside

-----------------------------------------------------------------------------
(* The theorems.                                                           *)

\* What exists at first was admitted, and nothing is under way.
LEMMA BookingBegins ==
  ASSUME Init
  PROVE  BookingInv
<1>1. /\ clock = 0 /\ left \in Settings
      /\ interviews = [k \in Keys |-> IF k \in left.begun THEN Created(None, None) ELSE NoInterview]
      /\ leases = [k \in Keys |-> Never] /\ sockets = [k \in Keys |-> Down]
      /\ calls = [c \in Calls |-> NoCall]
  BY DEF Init, AttendanceInit
<1>2. /\ preps = [k \in Preparations |-> NoPreparation]
      /\ analyses = [p \in Replicas |-> [k \in Preparations |-> Resting]]
      /\ works = [p \in Replicas |-> [k \in Keys |-> Resting]]
      /\ lock = {} /\ bank = Questions
  BY DEF Init
<1>3. /\ {"begun", "prepare"} \subseteq DOMAIN left /\ left.begun \cap left.prepare = {}
      /\ left.begun \subseteq Keys /\ Cardinality(left.begun) <= MaxActive
      /\ \A j, k \in left.begun : UserOf(j) = UserOf(k) => j = k
  BY <1>1, SettingsAssumption
<1>4. PICK row : row = Created(None, None)
  OBVIOUS
<1>5. /\ row \in Interviews /\ row.at = "active" /\ row.created = 0 /\ row.paused = 0
      /\ row # NoInterview
  <2>1. None \in Asked /\ None \in Ways /\ Never \in Int /\ 0 \in Nat
    BY DEF Asked, Ways, Never
  <2> QED
    BY <1>1, <1>4, <2>1 DEF Created, Interviews, NoInterview, None
<1>6. /\ \A k \in left.begun : interviews[k] = row
      /\ \A k \in Keys \ left.begun : interviews[k] = NoInterview
  BY <1>1, <1>3, <1>4
<1>7. AttendanceTypeOK
  <2>1. interviews \in [Keys -> {NoInterview} \cup Interviews]
    BY <1>1, <1>4, <1>5
  <2> QED
    BY <1>1, <2>1 DEF AttendanceTypeOK, CallsMade, Never
<1>8. BookingTypeOK
  BY <1>2, <1>3 DEF BookingTypeOK, Analyses, Jobs
<1>9. CreditInv
  <2>1. ASSUME NEW k \in Keys, Made(k) PROVE interviews[k].created <= clock /\ Fits(k)
    <3>1. interviews[k] = row
      BY <1>6, <2>1 DEF Made
    <3>2. \A c \in Calls : Pending(k, c) = 0
      BY <1>1 DEF Pending, NoCall, None
    <3>3. PICK total : total = [S \in SUBSET Calls |-> 0]
      OBVIOUS
    <3>4. total \in [SUBSET Calls -> Nat] /\ Adds(k, total) /\ total[Calls] = 0
      BY <3>2, <3>3 DEF Adds
    <3> QED
      BY <1>1, <1>5, <3>1, <3>4 DEF Fits
  <2>2. \A k \in Keys : ~Gone(k)
    BY <1>1 DEF Gone
  <2> QED
    BY <1>1, <2>1, <2>2 DEF CreditInv
<1>10. SocketInv
  BY <1>1 DEF SocketInv, Down
<1>11. LockInv
  BY <1>2 DEF LockInv, On, Resting
<1>12. \A k \in Keys : /\ Active(k) <=> k \in left.begun
                       /\ interviews[k].at # None <=> k \in left.begun
  BY <1>5, <1>6 DEF Active, NoInterview, None
<1>13. AdmissionHolds
  <2>1. {k \in Keys : Active(k)} = left.begun
    BY <1>3, <1>12
  <2>2. ASSUME NEW k \in Keys, NEW S \in SUBSET {j \in Keys : UserOf(j) = UserOf(k)},
               S \subseteq left.begun
        PROVE  Cardinality(S) \in {0, 1}
    <3>1. CASE S = {}
      BY <3>1, FS_EmptySet
    <3>2. CASE S # {}
      <4>1. PICK j \in S : S = {j}
        BY <1>3, <2>2, <3>2
      <4> QED
        BY <4>1, FS_Singleton
    <3> QED
      BY <3>1, <3>2
  <2>3. ASSUME NEW k \in Keys
        PROVE  LET mine == {j \in Keys : UserOf(j) = UserOf(k)}
               IN  /\ Cardinality({j \in mine : Active(j)}) <= 1
                   /\ Cardinality({j \in mine : interviews[j].at # None}) <= Monthly
    <3> DEFINE mine == {j \in Keys : UserOf(j) = UserOf(k)}
               A == {j \in mine : Active(j)}
               M == {j \in mine : interviews[j].at # None}
    <3>1. /\ A \in SUBSET mine /\ A \subseteq left.begun
          /\ M \in SUBSET mine /\ M \subseteq left.begun
      BY <1>12
    <3>2. Cardinality(A) \in {0, 1} /\ Cardinality(M) \in {0, 1}
      <4> HIDE DEF A, M
      <4> QED
        BY <2>2, <3>1
    <3>3. Monthly \in Nat \ {0}
      BY PreparationAssumption
    <3> QED
      BY <3>2, <3>3
  <2> QED
    BY <1>3, <2>1, <2>3 DEF AdmissionHolds
<1>14. BookInv
  <2>1. Preparations \subseteq Keys
    BY PreparationAssumption
  <2>2. \A k \in Preparations : RowInv(k)
    BY <1>2, <1>6, <2>1 DEF RowInv, Made
  <2>3. \A k \in Preparations, p \in Replicas : HandInv(k, works[p][k])
    BY <1>2, <2>1 DEF HandInv
  <2> QED
    BY <2>2, <2>3 DEF BookInv
<1> QED
  BY <1>7, <1>8, <1>9, <1>10, <1>11, <1>13, <1>14 DEF BookingInv, AdmissionInv

\* One step.
LEMMA BookingKeeps ==
  ASSUME BookingInv, [Next]_vars
  PROVE  BookingInv'
<1> DEFINE Rest == bank' \subseteq Questions
                   /\ analyses' \in [Replicas -> [Preparations -> Analyses]]
<1>1. CASE AttendanceNext /\ UNCHANGED bookingVars
  <2>1. AttendanceTypeOK /\ BookingTypeOK /\ CreditInv /\ SocketInv
    BY DEF BookingInv
  <2>2. AttendanceStep
    BY <1>1, <2>1, AttendanceKeeps
  <2>3. SocketInv'
    BY <1>1, <2>1, <2>2, SocketsKeep DEF AttendanceStep, RowKept
  <2>4. Aside
    BY <2>2, <2>3, AttendanceAside
  <2>5. UNCHANGED <<preps, works, lock>> /\ Rest
    BY <1>1, <2>1 DEF bookingVars, BookingTypeOK
  <2> QED
    BY <2>4, <2>5, NoRowTouched, RowStep
<1>2. ASSUME NEW p \in Replicas, NEW k \in Keys, Work(p, k) \/ Complete(p, k)
      PROVE  BookingInv'
  BY <1>2, ChooseKeeps, LookUpKeeps, AdmitKeeps, InsertKeeps, AnalysedKeeps, PinKeeps,
     ClaimWordingKeeps, WriteKeeps, FinishKeeps, CompleteKeeps DEF Work
<1>3. ASSUME NEW k \in Preparations, Confirm(k) \/ Erase(k) \/ Lapse(k) PROVE BookingInv'
  BY <1>3, ConfirmKeeps, EraseKeeps, LapseKeeps
<1>4. CASE Retire
  <2>1. LeftKept /\ UNCHANGED <<attendanceVars, preps, analyses, works, lock>> /\ Rest
    BY <1>4, SpendKeeps DEF Retire, BookingInv, BookingTypeOK
  <2>2. Aside
    BY <2>1, InterviewsAside
  <2> QED
    BY <2>1, <2>2, NoRowTouched, RowStep
<1>5. CASE UNCHANGED vars
  <2>1. LeftKept /\ UNCHANGED <<attendanceVars, preps, analyses, works, lock>> /\ Rest
    BY <1>5 DEF vars, bookingVars, LeftKept, BookingInv, BookingTypeOK
  <2>2. Aside
    BY <2>1, InterviewsAside
  <2> QED
    BY <2>1, <2>2, NoRowTouched, RowStep
<1> QED
  BY <1>1, <1>2, <1>3, <1>4, <1>5, PrepareKeeps, CrashedKeeps, DeleteKeeps DEF Next

\* What holds of interviews, their clocks and what they were prepared from.
THEOREM BookingHolds == Spec => []BookingInv
<1>1. Init => BookingInv
  BY BookingBegins
<1>2. BookingInv /\ [Next]_vars => BookingInv'
  BY BookingKeeps
<1> QED
  BY <1>1, <1>2, PTL DEF Spec

\* Whoever asks, on whatever process, and however often: no account has two
\* active interviews or more than the month allows, nor the service more than
\* its cap (assertAdmission under the advisory lock).
THEOREM AdmissionIsKept == Spec => []AdmissionHolds
<1>1. BookingInv => AdmissionHolds
  BY DEF BookingInv, AdmissionInv
<1> QED
  BY <1>1, BookingHolds, PTL

\* A preparation that says it is ready has its interview, which asks the
\* question that was pinned in the words that were kept.
THEOREM ReadyIsItsInterview == Spec => []ReadyIsOneInterview
<1>1. BookingInv => ReadyIsOneInterview
  <2> SUFFICES ASSUME BookingInv, NEW k \in Preparations, preps[k].status = "READY"
               PROVE  /\ interviews[k] # NoInterview
                      /\ interviews[k].question = preps[k].pin
                      /\ interviews[k].wording = preps[k].wording
    BY DEF ReadyIsOneInterview
  <2>1. RowInv(k) /\ preps[k] # NoPreparation
    BY PrepTyped DEF None
  <2> QED
    BY <2>1 DEF RowInv, Made
<1> QED
  BY <1>1, BookingHolds, PTL

\* However calls, drops, reloads and crashes interleave, the time given back
\* fits, with the grace, into the time the interview has been there.
THEOREM TimeIsCreditedOnce == Spec => []CreditedOnce
<1>1. BookingInv => CreditedOnce
  <2> SUFFICES ASSUME BookingInv, NEW k \in Keys, Exists(k), interviews[k].paused > 0
               PROVE  interviews[k].paused + Grace <= clock - interviews[k].created
    BY DEF CreditedOnce
  <2>1. AttendanceTypeOK /\ CreditInv
    BY DEF BookingInv
  <2>2. Made(k) /\ interviews[k] \in Interviews
    BY <2>1, MadeTyped
  <2>3. PICK total \in [SUBSET Calls -> Nat] :
          LET credit == interviews[k].paused + total[Calls]
          IN  credit > 0 => credit + Grace <= Since(k) - interviews[k].created
    BY <2>1, <2>2 DEF CreditInv, Fits
  <2>4. /\ total[Calls] \in Nat /\ Grace \in Nat /\ clock \in Nat
        /\ interviews[k].paused \in Nat /\ interviews[k].created \in Nat
    BY <2>1, <2>2, AttendanceAssumption DEF Interviews, AttendanceTypeOK
  <2>5. Since(k) \in Int /\ Since(k) <= clock
    BY <2>1, <2>4 DEF Since, CreditInv, AttendanceTypeOK
  <2> QED
    BY <2>3, <2>4, <2>5
<1> QED
  BY <1>1, BookingHolds, PTL

=============================================================================
