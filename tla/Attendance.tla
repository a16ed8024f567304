------------------------------ MODULE Attendance ------------------------------
(***************************************************************************)
(* Being there: the life of an interview from its row to its end, with the *)
(* connection lease of one API process (lease.ts), /resume, /disconnected  *)
(* and the completion sweep (session/index.ts), the clock the row keeps    *)
(* (session-store.ts) and the page and the socket of the candidate         *)
(* (page.tsx, session-transport.ts).                                       *)
(*                                                                         *)
(* Time is counted in units of which Grace, Abandon and Expected are       *)
(* multiples; an HTTP call takes as long as it likes and may be lost.      *)
(***************************************************************************)
EXTENDS Integers, FiniteSets

CONSTANTS
  Keys,      \* idempotency keys: an interview goes by the one that made it
  Calls,     \* HTTP calls a page may have under way at once
  Grace,     \* GRACE_SECONDS
  Abandon,   \* ABANDON_SECONDS
  Expected,  \* expectedSeconds
  Settings   \* what exists at first, and what may happen how often

ASSUME AttendanceAssumption ==
  /\ Grace \in Nat /\ Abandon \in Nat \ {0} /\ Expected \in Nat \ {0}
  /\ IsFiniteSet(Keys) /\ IsFiniteSet(Calls)

None  == "none"
Never == -1

VARIABLES
  clock,
  interviews,  \* interview_sessions, by key
  leases,      \* leases of the process: since when disconnected, or Never
  pages,       \* the interview's page: "closed", "live", or the call it waits for
  sockets,     \* whether the candidate has a socket, and since when
  calls,       \* HTTP calls under way
  sweep,       \* interviews the sweep has yet to end, and why
  left         \* what may still happen

attendanceVars == <<clock, interviews, leases, pages, sockets, calls, sweep>>

Spend(kind) == left[kind] > 0 /\ left' = [left EXCEPT ![kind] = @ - 1]

-----------------------------------------------------------------------------
(* Rows and leases.                                                        *)

NoInterview == [at |-> None]

\* question, wording: the pinned snapshot; why: what ended it.
Created(question, wording) ==
  [at |-> "active", question |-> question, wording |-> wording, created |-> clock,
   started |-> Never, paused |-> 0, why |-> None]

Exists(k) == interviews[k].at \in {"active", "ended"}
Active(k) == interviews[k].at = "active"

\* remainingSeconds of a started interview; dueForCompletion.
Remaining(i) ==
  LET kept == Expected - (clock - i.started - i.paused) IN IF kept < 0 THEN 0 ELSE kept

\* Defect: due only in the unit in which the time runs out.
DueOnTheDot(k) ==
  Active(k) /\ interviews[k].started # Never
  /\ Expected = clock - interviews[k].started - interviews[k].paused

Due(k) == Active(k) /\ interviews[k].started # Never /\ Remaining(interviews[k]) = 0

\* onDisconnect, onReconnect, isAbandoned.
Gone(k) == leases[k] # Never
OnDisconnect(k) == IF Gone(k) THEN leases[k] ELSE clock
Credit(k) ==
  IF Gone(k) /\ clock - leases[k] > Grace THEN clock - leases[k] - Grace ELSE 0
IsAbandoned(k) == Gone(k) /\ clock - leases[k] >= Abandon

Down == [up |-> FALSE, since |-> clock]

NoCall == [at |-> None]

AttendanceInit ==
  /\ clock = 0 /\ left \in Settings
  /\ interviews = [k \in Keys |-> IF k \in left.begun THEN Created(None, None) ELSE NoInterview]
  /\ leases = [k \in Keys |-> Never]
  /\ pages = [k \in Keys |-> "closed"] /\ sockets = [k \in Keys |-> Down]
  /\ calls = [c \in Calls |-> NoCall] /\ sweep = {}

-----------------------------------------------------------------------------
(* The candidate and the page.                                             *)

\* The page asks to resume before it opens a socket.
Open(k) ==
  /\ pages[k] = "closed" /\ Exists(k)
  /\ \E c \in Calls :
       /\ calls[c] = NoCall
       /\ pages' = [pages EXCEPT ![k] = c]
       /\ calls' = [calls EXCEPT ![c] = [at |-> "resume", of |-> k]]
  /\ Spend("open")
  /\ UNCHANGED <<clock, interviews, leases, sockets, sweep>>

\* A page that is closed or reloaded tells the server nothing.
Close(k) ==
  /\ pages[k] # "closed" /\ Spend("close")
  /\ pages' = [pages EXCEPT ![k] = "closed"]
  /\ sockets' = [sockets EXCEPT ![k] = IF @.up THEN Down ELSE @]
  /\ UNCHANGED <<clock, interviews, leases, calls, sweep>>

\* The socket opens, at first and whenever it was lost; nothing else is sent.
Dial(k) ==
  /\ pages[k] = "live" /\ ~sockets[k].up /\ Exists(k)
  /\ sockets' = [sockets EXCEPT ![k] = [up |-> TRUE, since |-> clock]]
  /\ UNCHANGED <<clock, interviews, leases, pages, calls, sweep, left>>

\* onclose reports the loss, if there is a network to report it over.
Drop(k) ==
  /\ pages[k] = "live" /\ sockets[k].up /\ Spend("drop")
  /\ sockets' = [sockets EXCEPT ![k] = Down]
  /\ \/ \E c \in Calls : /\ calls[c] = NoCall
                         /\ calls' = [calls EXCEPT ![c] = [at |-> "disconnected", of |-> k]]
     \/ UNCHANGED calls
  /\ UNCHANGED <<clock, interviews, leases, pages, sweep>>

\* The first transition starts the clock.
Start(k) ==
  /\ Active(k) /\ interviews[k].started = Never /\ sockets[k].up
  /\ clock <= left.startBy
  /\ interviews' = [interviews EXCEPT ![k].started = clock]
  /\ UNCHANGED <<clock, leases, pages, sockets, calls, sweep, left>>

\* finalizeSession as far as this module goes: the row, and the lease.
Ended(k, why) ==
  /\ interviews' = [interviews EXCEPT ![k] =
       IF @.at = "active" THEN [@ EXCEPT !.at = "ended", !.why = why] ELSE @]
  /\ leases' = [leases EXCEPT ![k] = Never]

EndInterview(k) ==
  /\ Active(k) /\ Spend("end")
  /\ Ended(k, "candidate")
  /\ UNCHANGED <<clock, pages, sockets, calls, sweep>>

-----------------------------------------------------------------------------
(* The process.                                                            *)

Answer(c) == calls' = [calls EXCEPT ![c] = NoCall]

\* The page goes live, or to the report if the interview is over.
Shown(c, k) ==
  pages' = [pages EXCEPT ![k] =
    IF @ # c THEN @ ELSE IF interviews[k].at = "ended" THEN "closed" ELSE "live"]

\* Defect: the lease is left as it is.
ResumeKeepsLease(c) ==
  LET k == calls[c].of
  IN  /\ calls[c].at = "resume"
      /\ UNCHANGED leases
      /\ IF Credit(k) > 0
         THEN /\ calls' = [calls EXCEPT ![c] = [at |-> "credit", of |-> k,
                                                ticks |-> Credit(k)]]
              /\ UNCHANGED pages
         ELSE Answer(c) /\ Shown(c, k)
      /\ UNCHANGED <<clock, interviews, sockets, sweep, left>>

\* /resume: the lease is read and put right in one go, and then the credit is
\* put on record.
Resume(c) ==
  LET k == calls[c].of
  IN  /\ calls[c].at = "resume"
      /\ IF ~Exists(k)
         THEN Answer(c) /\ Shown(c, k) /\ UNCHANGED leases
         ELSE /\ leases' = [leases EXCEPT ![k] = Never]
              /\ IF Credit(k) > 0
                 THEN /\ calls' = [calls EXCEPT ![c] = [at |-> "credit", of |-> k,
                                                        ticks |-> Credit(k)]]
                      /\ UNCHANGED pages
                 ELSE Answer(c) /\ Shown(c, k)
      /\ UNCHANGED <<clock, interviews, sockets, sweep, left>>

\* addPause: nothing for an interview that has ended.
AddPause(c) ==
  LET k == calls[c].of
  IN  /\ calls[c].at = "credit"
      /\ interviews' = IF Active(k)
                       THEN [interviews EXCEPT ![k].paused = @ + calls[c].ticks]
                       ELSE interviews
      /\ Answer(c) /\ Shown(c, k)
      /\ UNCHANGED <<clock, leases, sockets, sweep, left>>

Disconnected(c) ==
  LET k == calls[c].of
  IN  /\ calls[c].at = "disconnected" /\ Answer(c)
      /\ leases' = IF Exists(k) THEN [leases EXCEPT ![k] = OnDisconnect(k)] ELSE leases
      /\ UNCHANGED <<clock, interviews, pages, sockets, sweep, left>>

\* A call is lost, or it fails before the credit is on record: the page opens
\* its socket all the same.
Lose(c) ==
  /\ calls[c] # NoCall /\ Spend("lose") /\ Answer(c)
  /\ pages' = [pages EXCEPT ![calls[c].of] = IF @ = c THEN "live" ELSE @]
  /\ UNCHANGED <<clock, interviews, leases, sockets, sweep>>

\* Every five seconds: the interviews whose time is up, by their rows, and those
\* abandoned, by the leases.
Discover ==
  LET due == {k \in Keys : Due(k)}
      abandoned == {k \in Keys : IsAbandoned(k)}
  IN  /\ sweep = {} /\ due \cup abandoned # {}
      /\ sweep' = {<<k, "time">> : k \in due} \cup {<<k, "abandoned">> : k \in abandoned \ due}
      /\ UNCHANGED <<clock, interviews, leases, pages, sockets, calls, left>>

\* They are then ended one by one, and asked nothing more.
EndDue(k, why) ==
  /\ <<k, why>> \in sweep
  /\ sweep' = sweep \ {<<k, why>>}
  /\ Ended(k, why)
  /\ UNCHANGED <<clock, pages, sockets, calls, left>>

\* The process dies, and another takes its place: every socket is lost, and
\* every lease forgotten.
AttendanceCrash ==
  /\ leases' = [k \in Keys |-> Never] /\ sweep' = {}
  /\ calls' = [c \in Calls |-> NoCall]
  /\ pages' = [k \in Keys |-> IF pages[k] \in Calls THEN "live" ELSE pages[k]]
  /\ sockets' = [k \in Keys |-> IF sockets[k].up THEN Down ELSE sockets[k]]
  /\ UNCHANGED <<clock, interviews>>

\* Time passes.  An abandoned lease waits no longer than a unit for the sweep.
Tick ==
  /\ clock < left.until
  /\ \A k \in Keys : Gone(k) => clock - leases[k] <= Abandon
  /\ clock' = clock + 1
  /\ UNCHANGED <<interviews, leases, pages, sockets, calls, sweep, left>>

Sweeping == Discover \/ \E k \in Keys, why \in {"time", "abandoned"} : EndDue(k, why)
Serve(c) == Resume(c) \/ AddPause(c) \/ Disconnected(c)

AttendanceNext ==
  \/ \E k \in Keys : Open(k) \/ Close(k) \/ Dial(k) \/ Drop(k) \/ Start(k) \/ EndInterview(k)
  \/ \E c \in Calls : Serve(c) \/ Lose(c)
  \/ Sweeping \/ Tick

-----------------------------------------------------------------------------
(* Properties.                                                             *)

\* However calls, drops and reloads interleave, no stretch of time is given
\* back twice, nor the grace: what is credited, with the grace that no credit is
\* given for, fits into the time since the interview was made.
CreditedOnce ==
  \A k \in Keys :
    Exists(k) /\ interviews[k].paused > 0
      => interviews[k].paused + Grace <= clock - interviews[k].created

\* The clock is the server's: an interview whose clock started ends, whatever
\* becomes of the page, of its calls and of the process that held its lease.
StartedEnds ==
  \A k \in Keys : interviews[k].at = "active" /\ interviews[k].started # Never
                    ~> interviews[k].at # "active"

=============================================================================
