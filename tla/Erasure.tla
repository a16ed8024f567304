------------------------------- MODULE Erasure -------------------------------
(***************************************************************************)
(* Privacy deletion (privacy/index.ts, deletion.ts, pg-deletion-store.ts,  *)
(* redact_session_events of migration 007) over the report jobs it races   *)
(* with, for one account.                                                  *)
(*                                                                         *)
(* A request is on record before any store is touched.  Whoever claims it  *)
(* hides the sessions, redacts their events, empties the other stores and  *)
(* then completes it; maintenance takes up what somebody left undone.      *)
(***************************************************************************)
EXTENDS ReportJobs

CONSTANTS
  Deleters,        \* DELETE requests and maintenance passes under way at once
  AccountRequests  \* requests to delete the account

Requests == Sessions \cup AccountRequests

ASSUME ErasureAssumption ==
  /\ IsFiniteSet(Requests) /\ Sessions \cap AccountRequests = {}

VARIABLES
  requests,   \* privacy_deletion_requests; a session's carries its name
  deleters,   \* what each of them is doing
  incidents,  \* support_incidents of a session: "none", "filed", or "late"
  filing,     \* support reports past their access check
  resumes,    \* sessions whose preparation still holds the resume's facts
  consents    \* whether consent_grants holds the account's decisions

erasureVars == <<requests, deleters, incidents, filing, resumes, consents>>
vars == <<reportVars, erasureVars>>

-----------------------------------------------------------------------------

(* State.                                                                  *)

Unasked == [at |-> "none"]
Asked(ids) == [at |-> "pending", ids |-> ids, held |-> None, lapsed |-> FALSE]

\* request, rest: the one it works on and those it holds besides; todo, found:
\* sessions still to be hidden or erased, and those that were there; now: the
\* session whose stores it empties; failed: whether a store was unreachable.
Free == [at |-> "idle"]
Begin(r, rest) ==
  [at |-> "hide", request |-> r, rest |-> rest, todo |-> requests[r].ids,
   found |-> {}, now |-> None, failed |-> FALSE]

Existing == {s \in Sessions : sessions[s] \in {"active", "ended"}}
Ended    == {s \in Sessions : sessions[s] = "ended"}

Doing(d, at)    == deleters[d].at = at
Become(d, with) == deleters' = [deleters EXCEPT ![d] = with]
Turned(d, at)   == [deleters[d] EXCEPT !.at = at]

\* Defect: a request stays with whoever claimed it.
MayClaimUnheld(r) == requests[r].at = "pending" /\ requests[r].held = None

\* claim, recoverable: what nobody holds, or holds no longer.
MayClaim(r) == requests[r].at = "pending" /\ (requests[r].held = None \/ requests[r].lapsed)

Taken(d, claimed) ==
  [r \in Requests |->
     IF r \in claimed THEN [requests[r] EXCEPT !.held = d, !.lapsed = FALSE] ELSE requests[r]]
Holds(d, r) == requests[r].at = "pending" /\ requests[r].held = d

Init ==
  /\ ReportInit
  /\ requests = [r \in Requests |-> Unasked]
  /\ deleters = [d \in Deleters |-> Free]
  /\ incidents = [s \in Sessions |-> "none"] /\ filing = {}
  /\ resumes = Sessions /\ consents = TRUE 

-----------------------------------------------------------------------------
(* Asking.                                                                 *)

\* submitDeletion: the request is on record, or was; it is claimed next.
Submit(d, r, ids) ==
  /\ Doing(d, "idle") /\ d \in left.deleters
  /\ requests' = [requests EXCEPT ![r] = IF @ = Unasked THEN Asked(ids) ELSE @]
  /\ Become(d, [at |-> "claim", request |-> r])
  /\ Spend("ask")
  /\ UNCHANGED <<incidents, filing, resumes, consents,
                 sessions, content, rows, tasks, passes, pending>>

\* DELETE /privacy/sessions/:id, or maintenance for one past its retention.
\* A hidden session is unknown: nobody can ask again.
AskSession(d, s) ==
  /\ sessions[s] = "ended"
  /\ Submit(d, s, {s})

\* DELETE /privacy/account takes up an unfinished request rather than make one.
AskAccount(d, r) ==
  LET open == {q \in AccountRequests : requests[q].at = "pending"}
  IN  /\ Existing \subseteq Ended
      /\ IF open = {} THEN requests[r] = Unasked ELSE r \in open
      /\ Submit(d, r, Existing)

\* Without the claim the answer is DELETION_BUSY.
Claim1(d) ==
  LET r == deleters[d].request
  IN  /\ Doing(d, "claim")
      /\ \/ /\ MayClaim(r) /\ Works
            /\ requests' = Taken(d, {r})
            /\ Become(d, Begin(r, {}))
         \/ /\ (~MayClaim(r) /\ Works) \/ Breaks
            /\ Become(d, Free) /\ UNCHANGED requests
      /\ UNCHANGED <<incidents, filing, resumes, consents,
                     sessions, content, rows, tasks, passes, pending>>

\* maintain: one statement claims everything that is free.
Maintain(d) ==
  LET free == {r \in Requests : MayClaim(r)}
  IN  /\ Doing(d, "idle") /\ free # {} /\ d \in left.deleters
      /\ requests' = Taken(d, free)
      /\ \E r \in free : Become(d, Begin(r, free \ {r}))
      /\ UNCHANGED <<incidents, filing, resumes, consents, reportVars>>

-----------------------------------------------------------------------------
(* processDeletion and executeDeletion.                                    *)

\* On to the next request this pass claimed, without asking whether the
\* claim still stands.
Leave(d) ==
  IF deleters[d].rest = {} THEN Become(d, Free)
  ELSE \E r \in deleters[d].rest : Become(d, Begin(r, deleters[d].rest \ {r}))

\* Any error on the way gives the claim back, unless that fails too.
Release(d) ==
  LET r == deleters[d].request
  IN  /\ Doing(d, "release")
      /\ \/ /\ requests' = IF Holds(d, r) THEN [requests EXCEPT ![r].held = None]
                           ELSE requests
            /\ Works /\ Leave(d)
         \/ UNCHANGED requests /\ Breaks /\ Become(d, Free)
      /\ UNCHANGED <<incidents, filing, resumes, consents,
                     sessions, content, rows, tasks, passes, pending>>

\* sessions.tombstone for each session of the request.
Hide(d) ==
  /\ Doing(d, "hide")
  /\ \/ \E s \in deleters[d].todo :
          /\ sessions' = [sessions EXCEPT ![s] = "deleted"] /\ Works
          /\ Become(d, [deleters[d] EXCEPT !.todo = @ \ {s}, !.found = @ \cup {s}])
     \/ /\ deleters[d].todo = {} /\ Works /\ UNCHANGED sessions
        /\ Become(d, [Turned(d, "erase") EXCEPT !.todo = deleters[d].found])
     \/ deleters[d].todo # {} /\ Breaks /\ Become(d, Turned(d, "release")) /\ UNCHANGED sessions
  /\ UNCHANGED <<content, rows, tasks, passes, pending, requests, incidents,
                 filing, resumes, consents>>

\* eventLog.redact: an error here ends the attempt.
Redact(d) ==
  /\ Doing(d, "erase")
  /\ \/ \E s \in deleters[d].todo :
          /\ content' = [content EXCEPT ![s] = "redacted"] /\ Works
          /\ Become(d, [Turned(d, "reports") EXCEPT !.now = s, !.todo = @ \ {s}])
     \/ deleters[d].todo # {} /\ Breaks /\ Become(d, Turned(d, "release")) /\ UNCHANGED content
     \/ /\ deleters[d].todo = {} /\ Works /\ UNCHANGED content
        /\ Become(d, Turned(d, IF deleters[d].request \in AccountRequests
                               THEN "account" ELSE "complete"))
  /\ UNCHANGED <<sessions, rows, tasks, passes, pending, requests, incidents,
                 filing, resumes, consents>>

\* The other stores: one that cannot be reached is noted, not fatal.
Emptied(d, next) ==
  \/ Works /\ Become(d, Turned(d, next))
  \/ Breaks /\ Become(d, [Turned(d, next) EXCEPT !.failed = TRUE])

ForgetReport(d) ==
  /\ Doing(d, "reports") /\ Emptied(d, "support")
  /\ rows' = IF left' = left THEN [rows EXCEPT ![deleters[d].now] = NoRow] ELSE rows
  /\ UNCHANGED <<sessions, content, tasks, passes, pending, requests, incidents,
                 filing, resumes, consents>>

ForgetIncidents(d) ==
  /\ Doing(d, "support") /\ Emptied(d, "resume")
  /\ incidents' = IF left' = left THEN [incidents EXCEPT ![deleters[d].now] = "none"]
                  ELSE incidents
  /\ UNCHANGED <<sessions, content, rows, tasks, passes, pending, requests,
                 filing, resumes, consents>>

ForgetResume(d) ==
  /\ Doing(d, "resume") /\ Emptied(d, "erase")
  /\ resumes' = IF left' = left THEN resumes \ {deleters[d].now} ELSE resumes
  /\ UNCHANGED <<sessions, content, rows, tasks, passes, pending, requests,
                 incidents, filing, consents>>

\* Account scope: the stores once more by user (support, then preparations),
\* and the consents once nothing was unreachable.
ForgetUser(d) ==
  /\ Doing(d, "account") /\ Emptied(d, "complete")
  /\ incidents' = IF left' = left THEN [s \in Sessions |-> "none"] ELSE incidents
  /\ resumes' = IF left' = left THEN {} ELSE resumes
  /\ consents' = IF left' = left /\ ~deleters[d].failed THEN FALSE ELSE consents
  /\ UNCHANGED <<sessions, content, rows, tasks, passes, pending, requests,
                 filing>>

\* Defect: what could not be reached does not keep the request open.
CompleteRegardless(d) ==
  LET r == deleters[d].request
  IN  /\ Doing(d, "complete")
      /\ IF Holds(d, r)
         THEN /\ requests' = [requests EXCEPT ![r].at = "done"] /\ Leave(d)
         ELSE Become(d, Turned(d, "release")) /\ UNCHANGED requests
      /\ UNCHANGED <<incidents, filing, resumes, consents, reportVars>>

\* deletions.complete, if nothing was unreachable and the claim stands; the
\* user gets the receipt.  An error may come after it took effect.
Finished(d) ==
  LET r == deleters[d].request
      done == [requests EXCEPT ![r].at = "done"]
      fit == Holds(d, r) /\ ~deleters[d].failed
  IN  /\ Doing(d, "complete")
      /\ \/ /\ fit /\ Works /\ requests' = done /\ Leave(d)
         \/ ~fit /\ Works /\ Become(d, Turned(d, "release")) /\ UNCHANGED requests
         \/ /\ fit /\ Breaks /\ Become(d, Turned(d, "release"))
            /\ requests' \in {requests, done}
      /\ UNCHANGED <<incidents, filing, resumes, consents,
                     sessions, content, rows, tasks, passes, pending>>

-----------------------------------------------------------------------------
(* Around it.                                                              *)

\* POST support-incidents: the access check, and later the insert.
CheckIncident(s) ==
  /\ s \in Existing /\ incidents[s] = "none" /\ s \notin filing
  /\ filing' = filing \cup {s} /\ Spend("file")
  /\ UNCHANGED <<sessions, content, rows, tasks, passes, pending, requests, deleters, incidents, resumes, consents>>

FileIncident(s) ==
  /\ s \in filing /\ filing' = filing \ {s}
  /\ incidents' = [incidents EXCEPT ![s] = IF s \in Existing THEN "filed" ELSE "late"]
  /\ UNCHANGED <<reportVars, requests, deleters, resumes, consents>>

\* The lease of two minutes runs out: under a deleter that is alive only if
\* it stalls.
LapseClaim(r) ==
  /\ requests[r].at = "pending" /\ requests[r].held # None /\ ~requests[r].lapsed
  /\ IF ~Doing(requests[r].held, "idle") /\ ~Doing(requests[r].held, "claim")
     THEN Spend("stall") ELSE UNCHANGED left
  /\ requests' = [requests EXCEPT ![r].lapsed = TRUE]
  /\ UNCHANGED <<sessions, content, rows, tasks, passes, pending, deleters,
                 incidents, filing, resumes, consents>>

\* The process a deleter runs on dies.
Die(d) ==
  /\ ~Doing(d, "idle") /\ Spend("crash") /\ Become(d, Free)
  /\ UNCHANGED <<sessions, content, rows, tasks, passes, pending, requests,
                 incidents, filing, resumes, consents>>

Delete(d) ==
  \/ Claim1(d) \/ Hide(d) \/ Redact(d) \/ ForgetReport(d) \/ ForgetIncidents(d)
  \/ ForgetResume(d) \/ ForgetUser(d) \/ Finished(d) \/ Release(d)

Next ==
  \/ (ReportNext \/ \E p \in Replicas : Crash(p)) /\ UNCHANGED erasureVars
  \/ \E d \in Deleters :
       \/ Delete(d) \/ Maintain(d) \/ Die(d)
       \/ \E s \in Sessions : AskSession(d, s)
       \/ \E r \in AccountRequests : AskAccount(d, r)
  \/ \E s \in Sessions : CheckIncident(s) \/ FileIncident(s)
  \/ \E r \in Requests : LapseClaim(r)

Fairness ==
  /\ ReportFairness
  /\ \A d \in Deleters : WF_vars(Delete(d)) /\ WF_vars(Maintain(d))
  /\ \A r \in Requests : WF_vars(LapseClaim(r))

Spec     == Init /\ [][Next]_vars
FairSpec == Spec /\ Fairness

-----------------------------------------------------------------------------
(* Properties.                                                             *)

Untold(r) ==
  \/ r = NoRow
  \/ /\ \A g \in GraderSet : r.progress[g] # "full"
     /\ r.body # NoReport => /\ r.body.facts # "full"
                         /\ \A g \in GraderSet : r.body.grades[g] # "full"

Erased(s) ==
  /\ sessions[s] = "deleted" /\ content[s] = "redacted" /\ Untold(rows[s])
  /\ s \notin resumes /\ incidents[s] # "filed"

\* A deletion on record as completed leaves nothing of its sessions readable:
\* not in the log, not in a report or a grade a worker was computing
\* meanwhile or that was queued again afterwards, not in a preparation, and
\* no support report filed before.  (A support report that passed its access
\* check before the session was hidden may still arrive: "late".)
NothingOutlivesDeletion ==
  \A r \in Requests :
    requests[r].at = "done" => \A s \in requests[r].ids : Erased(s)

\* A report that is ready stays as it is, whatever a worker that lost the job
\* to another still tries to write, until it is removed altogether.
ReadyReportStands ==
  [][\A s \in Sessions :
       rows[s].status = "READY" => rows'[s] \in {rows[s], NoRow}]_vars

\* Every interview that ends gets its report, unless every attempt allowed
\* failed or the session was deleted: workers may die holding the job, and
\* outcomes and answers may be lost.
ReportSettles ==
  \A s \in Sessions :
    sessions[s] = "ended" ~>
      \/ sessions[s] = "deleted" \/ rows[s].status = "READY"
      \/ rows[s].status = "FAILED" /\ rows[s].attempts >= MaxAttempts

\* A deletion once asked for is completed, whatever dies or fails on the way.
DeletionCompletes ==
  \A r \in Requests : requests[r].at = "pending" ~> requests[r].at = "done"

=============================================================================
