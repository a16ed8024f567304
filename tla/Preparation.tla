----------------------------- MODULE Preparation -----------------------------
(***************************************************************************)
(* How interviews are made: POST /interview-sessions, and preparations     *)
(* from resume to interview (preparation/index.ts, pg-store.ts), both      *)
(* through the admission transaction of pg-lifecycle.ts, on several API    *)
(* processes.  What is made lives on as Attendance says.                   *)
(*                                                                         *)
(* A key is a preparation or a direct request; retries repeat the key.     *)
(* Each action is one statement, one model call or one transaction's step. *)
(***************************************************************************)
EXTENDS Attendance

CONSTANTS
  Preparations,  \* the keys that are preparations
  UserOf(_),     \* whose they are
  AsksFor(_),    \* the question a candidate picked, or None
  Questions,     \* the bank
  Replicas,      \* API processes
  MaxActive,     \* maxActiveInterviews
  Monthly        \* monthlyInterviewsPerUser

ASSUME PreparationAssumption ==
  /\ Preparations \subseteq Keys /\ IsFiniteSet(Replicas)
  /\ MaxActive \in Nat \ {0} /\ Monthly \in Nat \ {0} /\ None \notin Questions

\* What exists at first was admitted, and is not prepared again.
ASSUME SettingsAssumption ==
  \A st \in Settings :
    /\ {"begun", "prepare"} \subseteq DOMAIN st /\ st.begun \cap st.prepare = {}
    /\ st.begun \subseteq Keys /\ Cardinality(st.begun) <= MaxActive
    /\ \A j, k \in st.begun : UserOf(j) = UserOf(k) => j = k

VARIABLES
  preps,     \* interview_preparations
  analyses,  \* analysisWork of each process
  works,     \* completionWork of each process, and its direct requests
  lock,      \* who holds the advisory lock of admission, if any
  bank       \* the questions that are ACTIVE

bookingVars == <<preps, analyses, works, lock, bank>>
vars == <<attendanceVars, bookingVars, left>>

-----------------------------------------------------------------------------
(* State.                                                                  *)

\* text: "kept", "expired" or "gone"; reader, writer: the tokens of whoever
\* analyses and restates (0: nobody), stale once their two minutes are over.
NoPreparation == [status |-> None]
Prepared ==
  [status |-> "ANALYZING", text |-> "kept", facts |-> FALSE, reader |-> 0, readerStale |-> FALSE,
   pin |-> None, wording |-> 0, writer |-> 0, writerStale |-> FALSE, session |-> FALSE]

Emptied(row) ==
  [row EXCEPT !.status = "DELETED", !.text = "gone", !.facts = FALSE, !.reader = 0, !.writer = 0]

Resting == [at |-> "idle"]
Begin(at, row) == [at |-> at, question |-> row.pin, fit |-> FALSE, wording |-> row.wording, token |-> 0]

\* randomUUID.  A wording goes by the token of the one who wrote it.
Begun     == {k \in Preparations : preps[k] # NoPreparation}
Analysing == {x \in Replicas \X Preparations : analyses[x[1]][x[2]] # Resting}
AtWork    == {x \in Replicas \X Keys : works[x[1]][x[2]] # Resting}
Tokens ==
  {preps[k].reader : k \in Begun} \cup {preps[k].writer : k \in Begun}
  \cup {preps[k].wording : k \in Begun}
  \cup {analyses[x[1]][x[2]].token : x \in Analysing}
  \cup {works[x[1]][x[2]].token : x \in AtWork}
  \cup {works[x[1]][x[2]].wording : x \in AtWork}
Fresh == CHOOSE n \in 1..(Cardinality(Tokens) + 1) : n \notin Tokens

Row(k, row) == preps' = [preps EXCEPT ![k] = row]
Turn(p, k, with) == works' = [works EXCEPT ![p][k] = with]
Going(p, k, at) == Turn(p, k, [works[p][k] EXCEPT !.at = at])
Stop(p, k) == Turn(p, k, Resting)
On(p, k, at) == works[p][k].at = at

Works == left' = left
Breaks == Spend("fault")

Init ==
  /\ AttendanceInit
  /\ preps = [k \in Preparations |-> NoPreparation]
  /\ analyses = [p \in Replicas |-> [k \in Preparations |-> Resting]]
  /\ works = [p \in Replicas |-> [k \in Keys |-> Resting]]
  /\ lock = {} /\ bank = Questions

-----------------------------------------------------------------------------
(* The resume.                                                             *)

\* POST /preparations, first or again: the row is there, and its analysis is
\* claimed unless somebody else has it.
ClaimAnalysis(p, k, row) ==
  /\ analyses[p][k] = Resting
  /\ row.status = "ANALYZING" /\ row.text = "kept" /\ (row.reader = 0 \/ row.readerStale)
  /\ Row(k, [row EXCEPT !.reader = Fresh, !.readerStale = FALSE])
  /\ analyses' = [analyses EXCEPT ![p][k] = [at |-> "call", token |-> Fresh]]

Prepare(p, k) ==
  /\ p \in left.up /\ k \in left.prepare
  /\ IF preps[k] = NoPreparation
     THEN Row(k, Prepared) /\ UNCHANGED analyses
     ELSE ClaimAnalysis(p, k, preps[k])
  /\ UNCHANGED <<attendanceVars, works, lock, bank, left>>

\* saveAnalysis: only under the claim, and only while there is a source.
StoreAnalysis(p, k) ==
  LET row == preps[k]
  IN  IF row.status = "ANALYZING" /\ row.reader = analyses[p][k].token /\ row.text = "kept"
      THEN /\ Row(k, [row EXCEPT !.facts = TRUE, !.status = "REVIEW", !.reader = 0])
           /\ analyses' = [analyses EXCEPT ![p][k] = Resting]
      ELSE /\ analyses' = [analyses EXCEPT ![p][k].at = "release"] /\ UNCHANGED preps

\* The model answers, or something fails and the claim is given back, unless
\* that fails too.
Analysed(p, k) ==
  /\ \/ analyses[p][k].at = "call" /\ Works /\ StoreAnalysis(p, k)
     \/ /\ analyses[p][k].at = "call" /\ Breaks /\ UNCHANGED preps
        /\ analyses' = [analyses EXCEPT ![p][k].at = "release"]
     \/ /\ analyses[p][k].at = "release"
        /\ analyses' = [analyses EXCEPT ![p][k] = Resting]
        /\ \/ Works /\ Row(k, [preps[k] EXCEPT !.reader =
                               IF @ = analyses[p][k].token THEN 0 ELSE @])
           \/ Breaks /\ UNCHANGED preps
  /\ UNCHANGED <<attendanceVars, works, lock, bank>>

\* PATCH facts
Confirm(k) ==
  /\ preps[k].status = "REVIEW"
  /\ Row(k, [preps[k] EXCEPT !.status = "CONFIRMED"])
  /\ UNCHANGED <<attendanceVars, analyses, works, lock, bank, left>>

\* DELETE resume; DELETE preparation; the source expires, and is purged.
Erase(k) ==
  /\ preps[k] # NoPreparation
  /\ \/ /\ preps[k].status # "DELETED" /\ Spend("erase")
        /\ \/ Row(k, [preps[k] EXCEPT !.text = "gone", !.reader = 0])
           \/ Row(k, Emptied(preps[k]))
     \/ /\ preps[k].text = "kept" /\ Spend("expire")
        /\ Row(k, [preps[k] EXCEPT !.text = "expired"])
     \/ /\ preps[k].text = "expired" /\ UNCHANGED left
        /\ Row(k, [preps[k] EXCEPT !.text = "gone", !.reader = 0])
  /\ UNCHANGED <<attendanceVars, analyses, works, lock, bank>>

-----------------------------------------------------------------------------
(* The question and its wording.                                           *)

\* POST complete, again and again, with the row it was read from; and POST
\* /interview-sessions, which finds nothing to return yet.
Complete(p, k) ==
  /\ p \in left.up /\ works[p][k] = Resting
  /\ IF k \in Preparations
     THEN preps[k].status = "CONFIRMED" /\ Turn(p, k, Begin("choose", preps[k]))
     ELSE k \in left.prepare /\ ~Exists(k) /\ Turn(p, k, Begin("choose", Prepared))
  /\ UNCHANGED <<attendanceVars, preps, analyses, lock, bank, left>>

\* chooseQuestion: one the account has not seen, unless it has seen them all.
Seen(user) == {interviews[k].question : k \in {j \in Keys : Exists(j) /\ UserOf(j) = user}}
Unseen(k) == IF bank \ Seen(UserOf(k)) # {} THEN bank \ Seen(UserOf(k)) ELSE bank
Choices(k) == IF AsksFor(k) # None THEN bank \cap {AsksFor(k)} ELSE Unseen(k)

\* A pinned question is fetched whether or not it is still ACTIVE.
Choose(p, k) ==
  LET w == works[p][k]
      chosen(q, at) == Turn(p, k, [w EXCEPT !.question = q, !.fit = q \in bank, !.at = at])
  IN  /\ On(p, k, "choose")
      /\ \/ w.question # None /\ Works
            /\ chosen(w.question, IF w.wording = 0 THEN "claim" ELSE "lookup")
         \/ w.question = None /\ Works
            /\ \E q \in Choices(k) : chosen(q, IF k \in Preparations THEN "pin" ELSE "lookup")
         \/ w.question = None /\ Choices(k) = {} /\ Works /\ Stop(p, k)
         \/ Breaks /\ Stop(p, k)
      /\ UNCHANGED <<attendanceVars, preps, analyses, lock, bank>>

\* pinScenario: the first pin stands.  What comes back is the row as it is.
Pin(p, k) ==
  LET w == works[p][k]
      row == preps[k]
      pinned == [row EXCEPT !.pin = w.question]
      onward == Turn(p, k, [w EXCEPT !.wording = row.wording,
                                     !.at = IF row.wording = 0 THEN "claim" ELSE "lookup"])
  IN  /\ On(p, k, "pin")
      /\ \/ row.status = "CONFIRMED" /\ row.pin \in {None, w.question} /\ Works
            /\ Row(k, pinned) /\ onward
         \/ row.status = "READY" /\ row.pin = w.question /\ Works /\ onward /\ UNCHANGED preps
         \/ /\ \/ Works /\ (row.status = "DELETED" \/ row.pin \notin {None, w.question})
               \/ Breaks
            /\ Stop(p, k) /\ UNCHANGED preps
      /\ UNCHANGED <<attendanceVars, analyses, lock, bank>>

Writable(row) ==
  row.status = "CONFIRMED" /\ row.wording = 0 /\ (row.writer = 0 \/ row.writerStale)

\* claimRestatement, or PREPARATION_BUSY.
ClaimWording(p, k) ==
  /\ On(p, k, "claim")
  /\ \/ /\ Writable(preps[k]) /\ Works
        /\ Row(k, [preps[k] EXCEPT !.writer = Fresh, !.writerStale = FALSE])
        /\ Turn(p, k, [works[p][k] EXCEPT !.token = Fresh, !.at = "write"])
     \/ ((~Writable(preps[k]) /\ Works) \/ Breaks) /\ Stop(p, k) /\ UNCHANGED preps
  /\ UNCHANGED <<attendanceVars, analyses, lock, bank>>

\* Defect: the wording is stored without the claim.
StoreWordingAnyway(p, k) ==
  /\ Row(k, [preps[k] EXCEPT !.wording = works[p][k].token, !.writer = 0])
  /\ Turn(p, k, [works[p][k] EXCEPT !.wording = works[p][k].token, !.at = "lookup"])

\* saveRestatement
StoreWording(p, k) ==
  LET w == works[p][k]
  IN  IF preps[k].status = "CONFIRMED" /\ preps[k].writer = w.token
      THEN /\ Row(k, [preps[k] EXCEPT !.wording = w.token, !.writer = 0])
           /\ Turn(p, k, [w EXCEPT !.wording = w.token, !.at = "lookup"])
      ELSE Going(p, k, "release") /\ UNCHANGED preps

\* A wording is always found, the canonical one if need be; a failure to store
\* it gives the claim back, unless that fails too.
Write(p, k) ==
  /\ \/ On(p, k, "write") /\ Works /\ StoreWording(p, k)
     \/ On(p, k, "write") /\ Breaks /\ Going(p, k, "release") /\ UNCHANGED preps
     \/ /\ On(p, k, "release") /\ Stop(p, k)
        /\ \/ Works /\ Row(k, [preps[k] EXCEPT !.writer =
                               IF @ = works[p][k].token THEN 0 ELSE @])
           \/ Breaks /\ UNCHANGED preps
  /\ UNCHANGED <<attendanceVars, analyses, lock, bank>>

-----------------------------------------------------------------------------
(* createStarted.                                                          *)

AfterCreate(p, k) == IF k \in Preparations THEN Going(p, k, "finish") ELSE Stop(p, k)

LookUp(p, k) ==
  /\ On(p, k, "lookup")
  /\ \/ Exists(k) /\ Works /\ AfterCreate(p, k)
     \/ ~Exists(k) /\ Works /\ Going(p, k, "admit")
     \/ Breaks /\ Stop(p, k)
  /\ UNCHANGED <<attendanceVars, preps, analyses, lock, bank>>

\* assertAdmission: a count over all rows, deleted ones included in the month's.
Admissible(user) ==
  /\ ~\E k \in Keys : Active(k) /\ UserOf(k) = user
  /\ Cardinality({k \in Keys : Active(k)}) < MaxActive
  /\ Cardinality({k \in Keys : interviews[k].at # None /\ UserOf(k) = user}) < Monthly

\* Defect: the counts are read without the lock.
AdmitUnlocked(p, k) ==
  /\ On(p, k, "admit") /\ UNCHANGED lock
  /\ \/ Admissible(UserOf(k)) /\ Works /\ Going(p, k, "insert")
     \/ ~Admissible(UserOf(k)) /\ Works /\ Stop(p, k)
  /\ UNCHANGED <<attendanceVars, preps, analyses, bank>>

\* The lock is held until the transaction ends.
Admit(p, k) ==
  /\ On(p, k, "admit") /\ lock = {}
  /\ \/ Admissible(UserOf(k)) /\ Works /\ lock' = {<<p, k>>} /\ Going(p, k, "insert")
     \/ ~Admissible(UserOf(k)) /\ Works /\ UNCHANGED lock /\ Stop(p, k)
     \/ Breaks /\ UNCHANGED lock /\ Stop(p, k)
  /\ UNCHANGED <<attendanceVars, preps, analyses, bank>>

\* The insert and the commit.  A row of that key is returned, unless it is
\* deleted; only an ACTIVE question makes a new one.  An answer that is lost
\* may be one of success.
Insert(p, k) ==
  LET w == works[p][k]
      made == [interviews EXCEPT ![k] = Created(w.question, w.wording)]
      new == interviews[k] = NoInterview /\ w.fit
  IN  /\ On(p, k, "insert") /\ lock' = {}
      /\ \/ new /\ Works /\ interviews' = made /\ AfterCreate(p, k)
         \/ Exists(k) /\ Works /\ UNCHANGED interviews /\ AfterCreate(p, k)
         \/ ~new /\ ~Exists(k) /\ Works /\ UNCHANGED interviews /\ Stop(p, k)
         \/ Breaks /\ Stop(p, k) /\ interviews' \in {interviews} \cup (IF new THEN {made} ELSE {})
      /\ UNCHANGED <<clock, leases, pages, sockets, calls, sweep, preps, analyses, bank>>

\* store.complete
Finish(p, k) ==
  /\ On(p, k, "finish") /\ Stop(p, k)
  /\ \/ /\ preps[k].status = "CONFIRMED" /\ Works
        /\ Row(k, [preps[k] EXCEPT !.status = "READY", !.session = TRUE,
                                   !.wording = works[p][k].wording])
     \/ preps[k].status # "CONFIRMED" /\ Works /\ UNCHANGED preps
     \/ Breaks /\ UNCHANGED preps
  /\ UNCHANGED <<attendanceVars, analyses, lock, bank>>

-----------------------------------------------------------------------------
(* Around it.                                                              *)

\* Two minutes pass: under a worker that is alive only if it stalls.
Lapse(k) ==
  LET row == preps[k]
      alive(t) == \E p \in Replicas : \/ analyses[p][k] # Resting /\ analyses[p][k].token = t
                                      \/ works[p][k] # Resting /\ works[p][k].token = t
  IN  /\ row # NoPreparation
      /\ \/ /\ row.reader # 0 /\ ~row.readerStale /\ Row(k, [row EXCEPT !.readerStale = TRUE])
            /\ IF alive(row.reader) THEN Spend("stall") ELSE UNCHANGED left
         \/ /\ row.writer # 0 /\ ~row.writerStale /\ Row(k, [row EXCEPT !.writerStale = TRUE])
            /\ IF alive(row.writer) THEN Spend("stall") ELSE UNCHANGED left
      /\ UNCHANGED <<attendanceVars, analyses, works, lock, bank>>

\* An operator retires a question.
Retire ==
  /\ Spend("retire") /\ \E q \in bank : bank' = bank \ {q}
  /\ UNCHANGED <<attendanceVars, preps, analyses, works, lock>>

\* Privacy deletion of an ended interview takes its preparation along, if it
\* is told which.
DeleteInterview(k) ==
  /\ interviews[k].at = "ended" /\ Spend("delete")
  /\ interviews' = [interviews EXCEPT ![k].at = "deleted"]
  /\ preps' = [j \in Preparations |->
       IF j = k /\ preps[k] # NoPreparation /\ preps[k].session THEN Emptied(preps[k]) ELSE preps[j]]
  /\ UNCHANGED <<clock, leases, pages, sockets, calls, sweep, analyses, works, lock, bank>>

\* A process dies: its transaction is rolled back, what it claimed stays so.
Crash(p) ==
  /\ p \in left.up /\ Spend("crash") /\ AttendanceCrash
  /\ analyses' = [analyses EXCEPT ![p] = [k \in Preparations |-> Resting]]
  /\ works' = [works EXCEPT ![p] = [k \in Keys |-> Resting]]
  /\ lock' = {x \in lock : x[1] # p}
  /\ UNCHANGED <<preps, bank>>

Work(p, k) ==
  \/ Choose(p, k) \/ LookUp(p, k) \/ Admit(p, k) \/ Insert(p, k)
  \/ k \in Preparations
     /\ (Analysed(p, k) \/ Pin(p, k) \/ ClaimWording(p, k) \/ Write(p, k) \/ Finish(p, k))

Next ==
  \/ AttendanceNext /\ UNCHANGED bookingVars
  \/ \E p \in Replicas :
       \/ Crash(p)
       \/ \E k \in Keys : Work(p, k) \/ Complete(p, k)
       \/ \E k \in Preparations : Prepare(p, k)
  \/ \E k \in Preparations : Confirm(k) \/ Erase(k) \/ Lapse(k)
  \/ \E k \in Keys : DeleteInterview(k)
  \/ Retire

\* Steps are taken; claims run out; a candidate asks again until told an end;
\* time passes and the sweep runs.
Fairness ==
  /\ \A p \in Replicas, k \in Keys : WF_vars(Work(p, k))
  /\ \A k \in Keys : WF_vars(\E p \in Replicas : Complete(p, k))
  /\ \A k \in Preparations : WF_vars(Lapse(k))
  /\ WF_vars(Tick /\ UNCHANGED bookingVars) /\ WF_vars(Sweeping /\ UNCHANGED bookingVars)

Spec     == Init /\ [][Next]_vars
FairSpec == Spec /\ Fairness

-----------------------------------------------------------------------------
(* Properties.                                                             *)

\* PRODUCTION_ITERATIONS.md: "one active interview per account, a global active
\* cap, monthly account allowance": whichever endpoint and process makes them,
\* and whoever retries.
AdmissionHolds ==
  /\ Cardinality({k \in Keys : Active(k)}) <= MaxActive
  /\ \A k \in Keys :
       LET mine == {j \in Keys : UserOf(j) = UserOf(k)}
       IN  /\ Cardinality({j \in mine : Active(j)}) <= 1
           /\ Cardinality({j \in mine : interviews[j].at # None}) <= Monthly

\* A preparation that is ready names the interview of its key, which asks the
\* question it pinned in the words it keeps, however many workers wrote some.
ReadyIsOneInterview ==
  \A k \in Preparations :
    preps[k].status = "READY" =>
      /\ interviews[k] # NoInterview
      /\ interviews[k].question = preps[k].pin /\ interviews[k].wording = preps[k].wording

=============================================================================
