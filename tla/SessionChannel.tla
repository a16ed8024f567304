--------------------------- MODULE SessionChannel ---------------------------
(***************************************************************************)
(* The channel the candidate's input takes: session-client.ts and          *)
(* session-transport.ts in the browser, auth's socket tickets, ws.ts and   *)
(* channel.ts in the API process, and the client sequence of the durable   *)
(* log, up to the request that ends the interview.                         *)
(*                                                                         *)
(* A page numbers its inputs from where /resume left off and keeps each in *)
(* an outbox until it is acknowledged.  A connection serves its frames one *)
(* at a time; an action below is the completion of what a frame awaits     *)
(* with the code up to its next await, so two connections interleave.      *)
(***************************************************************************)
EXTENDS Integers, Sequences, FiniteSets, SequencesExt

CONSTANTS
  Pages,        \* page loads: reloads of one tab, and further tabs
  Connections,  \* sockets that may exist at once
  FirstPage,    \* the one on which the interview starts
  MaxPending,   \* frames a connection may have waiting (64 in ws.ts)
  Budgets       \* what may happen, and how often (see Budget)

None == "none"

\* inputs each page produces; other pages loaded; connections lost; database
\* operations or /resume requests that fail; restarts; times that run out.
\* failed says whether an operation has failed.
Budget(inputs, loads, drops, faults, restarts, times) ==
  [inputs |-> inputs, load |-> loads, drop |-> drops, fault |-> faults,
   restart |-> restarts, time |-> times, failed |-> FALSE]

ASSUME ChannelAssumption ==
  /\ None \notin Connections /\ Pages \cap {None, "no", "time"} = {}
  /\ FirstPage \in Pages /\ MaxPending \in Nat

VARIABLES
  tabs,       \* the state of each page's SessionClient and transport
  ticket,     \* the page that holds the session's pending socket ticket
  socks,      \* the connections, as the server and the network hold them
  lane,       \* connections whose append waits for the session row
  watermark,  \* lastClientSeq of the session: a set of at most one number
  log,        \* the client inputs on record, in the order stored
  ended,      \* "no", the page whose request ended the session, or "time"
  left        \* what is left of the budget

vars == <<tabs, ticket, socks, lane, watermark, log, ended, left>>

-----------------------------------------------------------------------------
(* State.                                                                  *)

\* outbox is in the order of numbering; acked is lastAckedClientSeq; end says
\* how far the page is with ending the interview, through input number final.
Unborn ==
  [at |-> "unborn", first |-> 0, next |-> 0, outbox |-> <<>>, acked |-> -1,
   sock |-> None, dial |-> "no", end |-> "no", final |-> -1]

Idle == [at |-> "idle"]

\* wire holds frames under way; the server has not accepted them yet.
NoSocket == [at |-> "free", wire |-> <<>>, inbox |-> <<>>, replies |-> <<>>,
             job |-> Idle]

Live(p)  == tabs[p].at = "live"
Open(c)  == socks[c].at = "open"
Held(c)  == \E p \in Pages : tabs[p].sock = c
Stored   == {log[i] : i \in DOMAIN log}
Taken(n) == \E e \in Stored : e.seq = n

\* eventLog.latestClientSeq
Latest == CHOOSE n \in {-1} \cup {e.seq : e \in Stored} :
            \A e \in Stored : e.seq <= n

\* A new connection is given one of the free slots, whichever that is.
NextFree ==
  LET free == {c \in Connections : socks[c].at = "free"}
  IN  IF free = {} THEN {} ELSE {CHOOSE c \in free : TRUE}

Spend(kind) ==
  /\ left[kind] > 0
  /\ left' = [left EXCEPT ![kind] = @ - 1, !.failed = @ \/ kind = "fault"]

Init ==
  /\ tabs = [p \in Pages |->
       IF p = FirstPage THEN [Unborn EXCEPT !.at = "live"] ELSE Unborn]
  /\ ticket = None
  /\ socks = [c \in Connections |-> NoSocket] /\ lane = <<>>
  /\ watermark = {} /\ log = <<>> /\ ended = "no"
  /\ left \in Budgets

-----------------------------------------------------------------------------
(* The page.                                                               *)

\* disconnect: a page that is left dials no more and sends no more.
Gone(tab) == [tab EXCEPT !.at = "gone", !.sock = None]

\* A page asks /resume where its numbering starts; when the request fails it
\* starts at 0.  The pages in `closed` are gone by then, their sockets with
\* them: a reload closes the page it replaces, a second tab closes none.
Load(p) ==
  /\ tabs[p].at = "unborn" /\ ended = "no" /\ left.load > 0
  /\ \E failed \in BOOLEAN, closed \in SUBSET {q \in Pages : Live(q)} :
       LET start == IF failed THEN 0 ELSE Latest + 1
       IN  /\ failed => left.fault > 0
           /\ left' = [left EXCEPT !.load = @ - 1,
                                   !.fault = IF failed THEN @ - 1 ELSE @,
                                   !.failed = @ \/ failed]
           /\ tabs' = [q \in Pages |->
                CASE q = p -> [Unborn EXCEPT !.at = "live", !.first = start,
                                             !.next = start]
                  [] q \in closed -> Gone(tabs[q])
                  [] OTHER -> tabs[q]]
  /\ UNCHANGED <<ticket, socks, lane, watermark, log, ended>>

\* trySend: nothing leaves a page that is not connected.
Send(c, frames) ==
  IF c = None THEN socks ELSE [socks EXCEPT ![c].wire = @ \o frames]

\* enqueue
Produce(p) ==
  LET e == [page |-> p, seq |-> tabs[p].next]
  IN  /\ Live(p) /\ tabs[p].end = "no" /\ left.inputs[p] > 0
      /\ left' = [left EXCEPT !.inputs[p] = @ - 1]
      /\ tabs' = [tabs EXCEPT ![p].next = @ + 1, ![p].outbox = Append(@, e)]
      /\ socks' = Send(tabs[p].sock, <<e>>)
      /\ UNCHANGED <<ticket, lane, watermark, log, ended>>

\* Every dial gets a ticket of its own, and issuing it revokes the one
\* pending.  A session that has ended refuses, and the client stops dialling.
RequestTicket(p) ==
  /\ Live(p) /\ tabs[p].sock = None /\ tabs[p].dial = "no"
  /\ IF ended = "no"
     THEN ticket' = p /\ tabs' = [tabs EXCEPT ![p].dial = "ticket"]
     ELSE UNCHANGED ticket /\ tabs' = [tabs EXCEPT ![p].dial = "stopped"]
  /\ UNCHANGED <<socks, lane, watermark, log, ended, left>>

\* Defect: what was not acknowledged before is not sent again.
RedeemOnly(p) ==
  /\ Live(p) /\ tabs[p].dial = "ticket" /\ ticket = p /\ ended = "no"
  /\ ticket' = None
  /\ \E c \in NextFree :
       /\ tabs' = [tabs EXCEPT ![p].dial = "no", ![p].sock = c]
       /\ socks' = [socks EXCEPT ![c] = [NoSocket EXCEPT !.at = "open"]]
  /\ UNCHANGED <<lane, watermark, log, ended, left>>

\* What is not acknowledged from number n on, oldest first (flushOutbox): the
\* outbox is in the order of numbering.
Unacked(p, n) ==
  LET box   == tabs[p].outbox
      first == SelectInSeq(box, LAMBDA e : e.seq >= n)
  IN  IF first = 0 THEN <<>> ELSE SubSeq(box, first, Len(box))

\* The acknowledged input leaves the outbox.
Settled(box, n) == RemoveFirstMatch(box, LAMBDA e : e.seq = n)

\* The upgrade redeems the ticket, once; the open socket is sent everything
\* unacknowledged.
Redeem(p) ==
  /\ Live(p) /\ tabs[p].dial = "ticket" /\ ticket = p /\ ended = "no"
  /\ ticket' = None
  /\ \E c \in NextFree :
       /\ tabs' = [tabs EXCEPT ![p].dial = "no", ![p].sock = c]
       /\ socks' = [socks EXCEPT ![c] = [NoSocket EXCEPT !.at = "open",
                                                         !.wire = Unacked(p, 0)]]
  /\ UNCHANGED <<lane, watermark, log, ended, left>>

\* The upgrade is refused, and the page will dial again.
Refused(p) ==
  /\ Live(p) /\ tabs[p].dial = "ticket" /\ (ticket # p \/ ended # "no")
  /\ tabs' = [tabs EXCEPT ![p].dial = "no"]
  /\ ticket' = IF ticket = p THEN None ELSE ticket
  /\ UNCHANGED <<socks, lane, watermark, log, ended, left>>

\* handleMessage
Receive(p) ==
  LET c == tabs[p].sock
  IN  /\ Live(p) /\ c # None /\ socks[c].replies # <<>>
      /\ LET m    == Head(socks[c].replies)
             rest == [socks EXCEPT ![c].replies = Tail(@)]
         IN  CASE m.kind = "ACK" ->
                    /\ tabs' = [tabs EXCEPT
                         ![p].acked  = IF m.seq > @ THEN m.seq ELSE @,
                         ![p].outbox = Settled(@, m.seq)]
                    /\ socks' = rest
               [] m.kind = "REPLAY_FROM" ->
                    /\ socks' = [rest EXCEPT ![c].wire = @ \o Unacked(p, m.seq)]
                    /\ UNCHANGED tabs
               [] m.kind = "SESSION_ENDED" ->
                    /\ tabs' = [tabs EXCEPT ![p] = Gone(@)]
                    /\ socks' = rest
               [] OTHER -> UNCHANGED tabs /\ socks' = rest
      /\ UNCHANGED <<ticket, lane, watermark, log, ended, left>>

\* The page learns that the server closed the socket, and will dial again.
NoticeClose(p) ==
  LET c == tabs[p].sock
  IN  /\ Live(p) /\ c # None /\ ~Open(c) /\ socks[c].replies = <<>>
      /\ tabs' = [tabs EXCEPT ![p].sock = None]
      /\ UNCHANGED <<ticket, socks, lane, watermark, log, ended, left>>

-----------------------------------------------------------------------------
(* Losing connections.                                                     *)

\* The network fails under an open socket: the page sees it at once, frames
\* still under way may be lost, the server goes on until it notices.
Drop(p) ==
  LET c == tabs[p].sock
  IN  /\ Live(p) /\ c # None /\ Open(c) /\ Spend("drop")
      /\ tabs' = [tabs EXCEPT ![p].sock = None]
      /\ \E arrived \in 0..Len(socks[c].wire) :
           socks' = [socks EXCEPT ![c].wire = SubSeq(@, 1, arrived),
                                  ![c].replies = <<>>]
      /\ UNCHANGED <<ticket, lane, watermark, log, ended>>

\* `closed` is set: frames not started are skipped, nothing more is written.
Shut(sock, at) == [sock EXCEPT !.at = at, !.inbox = <<>>, !.wire = <<>>]

\* The candidate's credential expires and the server closes the socket.
Expire(c) ==
  /\ Open(c) /\ Spend("drop")
  /\ socks' = [socks EXCEPT ![c] = Shut(@, "closing")]
  /\ UNCHANGED <<tabs, ticket, lane, watermark, log, ended>>

\* The socket's close event: the channel forgets the session's watermark.
Closed(c) ==
  /\ socks[c].at = "closing" \/ Open(c)
  /\ ~Held(c)
  /\ socks' = [socks EXCEPT
       ![c] = IF @.job = Idle THEN NoSocket ELSE Shut(@, "closed")]
  /\ watermark' = {}
  /\ UNCHANGED <<tabs, ticket, lane, log, ended, left>>

\* The process is restarted.
Restart ==
  /\ Spend("restart")
  /\ socks' = [c \in Connections |-> NoSocket] /\ lane' = <<>> /\ watermark' = {}
  /\ tabs' = [p \in Pages |-> [tabs[p] EXCEPT !.sock = None]]
  /\ UNCHANGED <<ticket, log, ended>>

-----------------------------------------------------------------------------
(* The server: one frame at a time on each connection.                     *)

\* A frame arrives; one too many closes the socket, and the frames queued
\* behind the one in hand with it.
Arrive(c) ==
  /\ Open(c) /\ socks[c].wire # <<>>
  /\ LET pending == Len(socks[c].inbox) + IF socks[c].job = Idle THEN 0 ELSE 1
     IN  socks' = [socks EXCEPT ![c] =
           IF pending + 1 > MaxPending THEN Shut(@, "closing")
           ELSE [socks[c] EXCEPT !.inbox = Append(@, Head(socks[c].wire)),
                                 !.wire = Tail(@)]]
  /\ UNCHANGED <<tabs, ticket, lane, watermark, log, ended, left>>

\* A frame is done; a socket whose close event has run is then forgotten.
Done(sock) == IF sock.at = "closed" THEN NoSocket ELSE [sock EXCEPT !.job = Idle]

\* write: dropped when the socket is closed, lost when nobody holds it.
Answer(c, message) ==
  Done(IF Open(c) /\ Held(c) THEN [socks[c] EXCEPT !.replies = Append(@, message)]
                             ELSE socks[c])

Goes(c, job) == [socks[c] EXCEPT !.job = job]

ReplayFrom(n) == [kind |-> "REPLAY_FROM", seq |-> n]
Ack(n)        == [kind |-> "ACK", seq |-> n]
SaysEnded     == [kind |-> "SESSION_ENDED"]
Internal      == [kind |-> "INTERNAL"]

\* Defect: an input ahead of the watermark is stored as it comes.
AdmitAny(c, e, mark) ==
  [sock |-> Goes(c, [at |-> "append", event |-> e, expected |-> mark + 1]), waits |-> <<c>>]

\* handleClientEvent, with the watermark known: past a hole nothing is stored.
Admit(c, e, mark) ==
  IF e.seq > mark + 1
  THEN [sock |-> Answer(c, ReplayFrom(mark + 1)), waits |-> <<>>]
  ELSE [sock |-> Goes(c, [at |-> "append", event |-> e, expected |-> mark + 1]),
        waits |-> <<c>>]

\* processFrame: unless the socket is closed, the next frame is taken up, the
\* session is read, and the watermark is looked at or asked for.
TakeFrame(c) ==
  /\ Open(c) /\ socks[c].job = Idle /\ socks[c].inbox # <<>>
  /\ LET e == Head(socks[c].inbox)
         r == IF ended # "no" THEN [sock |-> Answer(c, SaysEnded), waits |-> <<>>]
              ELSE IF watermark = {}
              THEN [sock |-> Goes(c, [at |-> "latest", event |-> e]), waits |-> <<>>]
              ELSE Admit(c, e, CHOOSE mark \in watermark : TRUE)
     IN  /\ socks' = [socks EXCEPT ![c] = [r.sock EXCEPT !.inbox = Tail(@)]]
         /\ lane' = lane \o r.waits
  /\ UNCHANGED <<tabs, ticket, watermark, log, ended, left>>

LatestRead(c) ==
  /\ socks[c].job.at = "latest"
  /\ watermark' = {Latest}
  /\ LET r == Admit(c, socks[c].job.event, Latest)
     IN  socks' = [socks EXCEPT ![c] = r.sock] /\ lane' = lane \o r.waits
  /\ UNCHANGED <<tabs, ticket, log, ended, left>>

\* The append commits, in the order in which appends asked for the row: an
\* input stored before is a duplicate, a number another input took conflicts,
\* and a session that ended meanwhile takes nothing.  The watermark moves
\* when the input reaches what the frame expected on its way in.  A new input
\* is dispatched before the connection's next frame, which may be long.
Appended(c) ==
  LET job == socks[c].job
      e   == job.event
      Becomes(sock) == socks' = [socks EXCEPT ![c] = sock]
      Acknowledged  ==
        /\ watermark' = IF e.seq >= job.expected THEN {e.seq} ELSE watermark
        /\ Becomes(Answer(c, Ack(e.seq)))
  IN  /\ lane # <<>> /\ Head(lane) = c /\ lane' = Tail(lane)
      /\ \/ /\ ended # "no"
            /\ Becomes(Answer(c, SaysEnded)) /\ UNCHANGED <<log, watermark>>
         \/ /\ ended = "no" /\ e \in Stored
            /\ Acknowledged /\ UNCHANGED log
         \/ /\ ended = "no" /\ e \notin Stored /\ Taken(e.seq)
            /\ Becomes(Goes(c, [at |-> "conflict"])) /\ UNCHANGED <<log, watermark>>
         \/ /\ ended = "no" /\ ~Taken(e.seq)
            /\ Acknowledged /\ log' = Append(log, e)
      /\ UNCHANGED <<tabs, ticket, ended, left>>

\* CLIENT_SEQUENCE_CONFLICT: the watermark is read again.
Conflicted(c) ==
  /\ socks[c].job.at = "conflict"
  /\ watermark' = {Latest}
  /\ socks' = [socks EXCEPT ![c] = Answer(c, ReplayFrom(Latest + 1))]
  /\ UNCHANGED <<tabs, ticket, lane, log, ended, left>>

\* What a frame awaits fails: an append is rolled back, and the page is told.
Fail(c) ==
  /\ socks[c].job # Idle /\ Spend("fault")
  /\ lane' = RemoveFirst(lane, c)
  /\ socks' = [socks EXCEPT ![c] = Answer(c, Internal)]
  /\ UNCHANGED <<tabs, ticket, watermark, log, ended>>

-----------------------------------------------------------------------------
(* Ending the interview.                                                   *)

PendingThrough(p, n) == \E i \in DOMAIN tabs[p].outbox : tabs[p].outbox[i].seq <= n

\* onEnd: flush, and wait until everything sent so far is acknowledged.
AskToEnd(p) ==
  /\ Live(p) /\ tabs[p].end = "no"
  /\ tabs' = [tabs EXCEPT ![p].end = "waiting", ![p].final = tabs[p].next - 1]
  /\ UNCHANGED <<ticket, socks, lane, watermark, log, ended, left>>

\* The wait times out, and the candidate may try again.
GiveUpEnding(p) ==
  /\ Live(p) /\ tabs[p].end = "waiting" /\ PendingThrough(p, tabs[p].final)
  /\ tabs' = [tabs EXCEPT ![p].end = "no", ![p].final = -1]
  /\ UNCHANGED <<ticket, socks, lane, watermark, log, ended, left>>

\* Defect: the page does not wait, and the server takes its word for it.
EndAtOnce(p) ==
  /\ Live(p) /\ tabs[p].end = "waiting"
  /\ tabs' = [tabs EXCEPT ![p] = Gone(@)]
  /\ ended' = IF ended = "no" THEN p ELSE ended
  /\ watermark' = {}
  /\ UNCHANGED <<ticket, socks, lane, log, left>>

\* resolveAckWaiters: nothing up to the number waited for is pending.
WaitIsOver(p) ==
  tabs[p].final <= tabs[p].acked \/ ~PendingThrough(p, tabs[p].final)

\* The wait is over, and the end request is served (finalizeSession): refused
\* while the record lacks the page's last number.
End(p) ==
  /\ Live(p) /\ tabs[p].end = "waiting" /\ WaitIsOver(p)
  /\ IF ended = "no" /\ Latest < tabs[p].final
     THEN /\ tabs' = [tabs EXCEPT ![p].end = "no", ![p].final = -1]
          /\ UNCHANGED <<ended, watermark>>
     ELSE /\ tabs' = [tabs EXCEPT ![p] = Gone(@)]
          /\ ended' = IF ended = "no" THEN p ELSE ended
          /\ watermark' = {}
  /\ UNCHANGED <<ticket, socks, lane, log, left>>

\* The completion sweep ends it when its time is over.
TimeIsUp ==
  /\ ended = "no" /\ Spend("time") /\ ended' = "time" /\ watermark' = {}
  /\ UNCHANGED <<tabs, ticket, socks, lane, log>>

-----------------------------------------------------------------------------
Serve(c) ==
  \/ Arrive(c) \/ TakeFrame(c) \/ LatestRead(c) \/ Appended(c) \/ Conflicted(c)
  \/ Closed(c)

Browse(p) ==
  RequestTicket(p) \/ Redeem(p) \/ Refused(p) \/ Receive(p) \/ NoticeClose(p)

Next ==
  \/ \E p \in Pages :
       \/ Load(p) \/ Produce(p) \/ Browse(p) \/ Drop(p)
       \/ AskToEnd(p) \/ GiveUpEnding(p) \/ End(p)
  \/ \E c \in Connections : Serve(c) \/ Expire(c) \/ Fail(c)
  \/ Restart \/ TimeIsUp

Spec == Init /\ [][Next]_vars

\* A live page goes on dialling and reading, and the server goes on serving.
\* Two pages do not revoke each other's tickets for ever: a retry waits a
\* random delay, much longer than an upgrade takes.  Nobody has to produce
\* anything, to load a page or to end the interview.
FairSpec ==
  /\ Spec
  /\ \A p \in Pages : WF_vars(Browse(p)) /\ SF_vars(Redeem(p))
  /\ \A c \in Connections : WF_vars(Serve(c))

-----------------------------------------------------------------------------
(* Properties.                                                             *)

Made(p) == {[page |-> p, seq |-> n] : n \in tabs[p].first..(tabs[p].next - 1)}
Waiting(p) == {tabs[p].outbox[i] : i \in DOMAIN tabs[p].outbox}

\* The channel keeps the promise of InputStream: whatever connections drop,
\* processes restart, pages reload and operations fail, the record holds
\* numbered inputs without a gap, none twice, and what has left an outbox as
\* acknowledged is on record.
Stream == INSTANCE InputStream WITH
  made <- UNION {Made(p) : p \in Pages},
  kept <- log,
  told <- UNION {Made(p) \ Waiting(p) : p \in Pages}

KeepsItsPromise == Stream!Promise

\* Another page numbered an input of its own the same.
NumberTaken(e) == e \notin Stored /\ Taken(e.seq)

\* An interview the candidate ends seals everything that page had produced,
\* except an input whose number another page used.
EndKeepsEverything ==
  \A p \in Pages : ended = p =>
    \A e \in Made(p) : e.seq <= tabs[p].final => e \in Stored \/ NumberTaken(e)

\* Nothing stays in the outbox of a page that is still open: after drops,
\* expiries and restarts it is delivered, unless the interview has ended, an
\* operation failed, another page used the number, or more is waiting than a
\* connection may have pending.
OutboxDrains ==
  \A p \in Pages :
    (Live(p) /\ tabs[p].outbox # <<>>) ~>
      (\/ ~Live(p) \/ ended # "no" \/ left.failed
       \/ Len(tabs[p].outbox) > MaxPending
       \/ \A e \in Waiting(p) : NumberTaken(e))

=============================================================================
