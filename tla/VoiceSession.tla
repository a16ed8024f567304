---------------------------- MODULE VoiceSession ----------------------------
(***************************************************************************)
(* The browser's voice (web/lib/voice-session.ts over realtime-voice.ts,   *)
(* utterance-lifecycle.ts and playback.ts) between three parties that each *)
(* move on their own: the interview server, which authorizes one utterance *)
(* at a time and must hear how it ended; the provider, which generates     *)
(* audio on a connection that drops, stalls and is rotated; and the        *)
(* candidate, who talks, mutes, reloads and stops.                         *)
(*                                                                         *)
(* page holds one VoiceSession.  A handler maps the page to the next page; *)
(* handlers call each other as the methods do.                             *)
(*   minting, leaving     connectProvider calls that await a credential;   *)
(*                        replaced sockets whose close event is to come    *)
(*   retry, rotate        reconnectTimer, goAwayTimer                      *)
(*   air, wake            the turn the provider is producing on the socket,*)
(*                        and what the socket still carries of earlier ones*)
(*   speaker              queued chunks, each by the utterance it belongs to*)
(*   pending, failure, empty, tail   pendingSpeech, pendingFailure,        *)
(*                        emptyTurnAtMs, the cached tail's stream          *)
(*   posts, ready, flights           outcomeReports, the postVoiceReady    *)
(*                        loop and its requests under way                  *)
(*   stray                reports of a stopped object, still under way     *)
(*   told, owed           history: the outcome of each utterance, and the  *)
(*                        chunks of it nobody has heard since it was last  *)
(*                        spoken                                           *)
(*   mixed, untold        history: the utterances asked for behind a wake, *)
(*                        and those the page gave up telling the server of *)
(*   passed, thrown       history: chunks of transcript passed on, and     *)
(*                        dropped by stopping or reloading                 *)
(***************************************************************************)
EXTENDS VoiceInput, UtteranceLifecycle, Integers, Sequences

CONSTANTS
  Settings,     \* the kinds of utterance authorized, and how much may go wrong
  MaxMints,     \* credentials a session may have
  MaxDials,     \* bound: connectProvider calls at once
  MaxWords      \* bound: chunks of transcript, at least what a setting allows

Kinds == {"MODEL", "HEAD", "TAIL", "BAD"}

ASSUME VoiceAssumption ==
  \A s \in Settings : {"say", "late"} \subseteq DOMAIN s /\ s.say \in Seq(Kinds)
                      /\ s.late \in BOOLEAN

VARIABLES server, acts, page, left

vars == <<server, acts, page, left>>

Tries == 3
ReadyTries == 4
Brief == 1
None == "none"

NoReady == [behind |-> 0, tries |-> 0, sent |-> FALSE]

Ids == 1 .. Len(left.say)

\* Chunks of an utterance: a cached head, a head and a tail, or a model's turn.
Length(kind) == IF kind = "HEAD" THEN 1 ELSE 2

Silence ==
  [on |-> FALSE, starting |-> FALSE, ended |-> FALSE, v |-> NoLine,
   minting |-> 0, leaving |-> 0, retry |-> FALSE, rotate |-> FALSE,
   air |-> <<>>, wake |-> <<>>, utt |-> NoUtterance, pending |-> 0, failure |-> None,
   empty |-> FALSE, tail |-> None, speaker |-> <<>>, stuck |-> FALSE,
   posts |-> <<>>, ready |-> NoReady, finished |-> {}, muted |-> FALSE,
   words |-> NoWords, finish |-> "no", flights |-> {}, stray |-> {}, told |-> <<>>,
   owed |-> <<>>, mixed |-> {}, untold |-> {}, passed |-> 0, thrown |-> 0]

\* A page with no voice on it, which keeps what outlives a VoiceSession.
Fresh(w, stray) ==
  [Silence EXCEPT !.flights = {[r EXCEPT !.mine = FALSE] : r \in w.flights},
                  !.stray = w.stray \cup stray, !.ended = w.ended,
                  !.told = w.told, !.owed = w.owed, !.mixed = w.mixed,
                  !.untold = w.untold, !.passed = w.passed,
                  !.thrown = w.thrown + w.words.chunks]

Init ==
  /\ left \in Settings
  /\ server = [open |-> 0, next |-> 1, begun |-> FALSE, mints |-> 0]
  /\ acts = <<>>
  /\ page = [Silence EXCEPT !.told = [i \in Ids |-> None],
                            !.owed = [i \in Ids |-> Length(left.say[i])]]

Spend(cost) == left[cost] > 0 /\ left' = [left EXCEPT ![cost] = @ - 1]

-----------------------------------------------------------------------------
(* Handlers *)

PostReady(w) ==
  [w EXCEPT !.ready = [behind |-> Len(w.posts), tries |-> ReadyTries, sent |-> FALSE],
            !.flights = {[r EXCEPT !.mine = FALSE] : r \in @}]

\* scheduleReconnect, when no model utterance is left to fail.
Retry(w) ==
  IF ~w.on \/ w.retry THEN w
  ELSE [w EXCEPT !.rotate = FALSE, !.pending = 0, !.retry = TRUE]

\* finishUtterance: the one place where an utterance ends.
Finish(w, u) ==
  LET quiet  == CancelSpeech(w.v)
      done   == [w EXCEPT !.utt = NoUtterance, !.v = quiet, !.empty = FALSE,
                   !.failure = None, !.tail = None,
                   !.pending = IF @ = u.id THEN 0 ELSE @,
                   !.speaker = IF u.phase = "COMPLETED" THEN @ ELSE <<>>,
                   !.finished = @ \cup {u.id},
                   !.posts = Append(@, [id |-> u.id, tries |-> 1]),
                   !.told[u.id] = u.phase]
      broken == u.source = "MODEL" /\ u.reason \in {"NO_FIRST_AUDIO", "MID_STREAM_STALL"}
  IN  IF u.phase # "FAILED" THEN done
      ELSE IF broken THEN Retry(done)
      ELSE IF u.got = 0 /\ u.id = Brief /\ quiet.at = "ready" THEN PostReady(done)
      ELSE done

Signal(w, signal, reason) ==
  LET u == Apply(w.utt, signal, reason)
  IN  IF w.utt.id = 0 THEN w
      ELSE IF u.phase \in Terminal THEN Finish(w, u)
      ELSE [w EXCEPT !.utt = u]

\* Playback stops at once, and the utterance with it.
Cut(w, signal, reason) == Signal([w EXCEPT !.speaker = <<>>], signal, reason)

ScheduleReconnect(w, reason) ==
  IF ~w.on \/ w.retry THEN w
  ELSE Retry(IF w.utt.id # 0 /\ w.utt.source = "MODEL" THEN Cut(w, "FAIL", reason) ELSE w)

\* requestModelSpeech: held for the next handshake unless the line is ready.
\* What a provider that is asked again had produced of its last turn may be
\* on the wire yet (left.late), and comes before the new one.
Request(w, id) ==
  LET turn == [of |-> id, left |-> Length("MODEL"), ends |-> TRUE]
      wake == IF ~left.late THEN <<>>
              ELSE IF w.air # <<>> /\ Head(w.air).ends THEN w.wake \o w.air
              ELSE w.wake
  IN  IF w.v.at # "ready" THEN [w EXCEPT !.pending = id]
      ELSE Signal([w EXCEPT !.v = Asked(@, id), !.air = <<turn>>, !.wake = wake,
                            !.mixed = IF wake = <<>> THEN @ ELSE @ \cup {id}],
                  "REQUESTED", None)

\* enqueueAt: a chunk plays when those queued before it have played.
Queued(w, of) == [w EXCEPT !.speaker = Append(@, of)]

\* A chunk comes, one of this utterance as far as the page knows.
Play(w, of) ==
  LET heard == Signal(Signal(Queued(w, of), "AUDIO_RECEIVED", None),
                      "PLAYBACK_STARTED", None)
  IN  [heard EXCEPT !.v = IF w.utt.source = "MODEL" THEN NoteModel(@, TRUE)
                          ELSE NoteLocal(@, TRUE)]

FailAfterDrain(w, reason) ==
  IF w.speaker # <<>> THEN [w EXCEPT !.failure = reason] ELSE Signal(w, "FAIL", reason)

\* speak: the ACTION that authorizes utterance id.
Spoken(w, id, kind) ==
  LET past == IF w.utt.id = 0 THEN w ELSE Cut(w, "FAIL", "SUPERSEDED")
      free == [past EXCEPT !.told[id] = None, !.owed[id] = Length(kind)]
      head == Play([free EXCEPT !.utt = New(id, "CACHED")], id)
  IN  CASE kind = "MODEL" -> Request([free EXCEPT !.utt = New(id, "MODEL")], id)
        [] kind = "HEAD"  -> Signal(head, "SOURCE_COMPLETE", None)
        [] kind = "TAIL"  -> [head EXCEPT !.tail = "asked"]
        [] kind = "BAD"   ->
             Request([free EXCEPT !.utt = SwitchSource(New(id, "CACHED"), "MODEL")], id)

\* Defect: a stream that stops half way has no deadline of its own.
DeadlineForFirst(w) ==
  IF w.utt.id = 0 \/ w.utt.source # "MODEL" \/ w.utt.got > 0 THEN None
  ELSE IF w.empty THEN "EMPTY_RESPONSE"
  ELSE IF w.utt.phase = "AUTHORIZED" THEN "PROVIDER_UNAVAILABLE" ELSE "NO_FIRST_AUDIO"

\* armWatchdog: the one deadline that applies now.  Queued audio that plays
\* as it should is gone before its deadline.
Deadline(w) ==
  LET u == w.utt
  IN  IF u.id = 0 THEN None
      ELSE IF u.got = 0 THEN
             IF u.source # "MODEL" THEN None
             ELSE IF w.empty THEN "EMPTY_RESPONSE"
             ELSE IF u.phase = "AUTHORIZED" THEN "PROVIDER_UNAVAILABLE"
             ELSE "NO_FIRST_AUDIO"
      ELSE IF ~u.complete THEN
             IF w.speaker # <<>> THEN None
             ELSE IF u.source = "MODEL" THEN "MID_STREAM_STALL" ELSE "CACHED_TAIL_STALL"
      ELSE IF w.speaker # <<>> /\ w.stuck THEN "PLAYBACK_STALLED" ELSE None

\* The settled transcript goes to the application channel; finishInput waits
\* for that.
Flush(w, words) ==
  [w EXCEPT !.words = words,
            !.passed = @ + w.words.chunks - words.chunks,
            !.finish = IF @ = "waiting" /\ words.chunks < w.words.chunks
                       THEN "settled" ELSE @]

\* The candidate's turn is closed: the detector says so, mute or teardown.
TurnClosed(w) ==
  IF w.v.speaking THEN [w EXCEPT !.v = Ceased(@), !.words = Stopped(@)] ELSE w

\* onDisconnected, whichever connection reports it.
Disconnected(w) == ScheduleReconnect(Flush(w, Flushed(w.words)), "PROVIDER_DISCONNECTED")

\* Defect: the new line starts with no words, also those not passed on yet.
ReplacedAfresh(w) ==
  [w EXCEPT !.starting = FALSE, !.air = <<>>, !.wake = <<>>, !.words = NoWords,
     !.leaving = IF w.v.at \in {"dialing", "ready"} THEN @ + 1 ELSE @,
     !.v = [NoLine EXCEPT !.at = "dialing"]]

\* connectProvider, once it has its credential: the old line is closed and the
\* new one dialed.  An open socket reports its close later.
Replaced(w) ==
  LET old  == TurnClosed(w)
      line == [NoLine EXCEPT !.at = "dialing"]
  IN  [old EXCEPT !.starting = FALSE, !.air = <<>>, !.wake = <<>>,
         !.leaving = IF w.v.at \in {"dialing", "ready"} THEN @ + 1 ELSE @,
         !.v = IF w.utt.id # 0 /\ w.utt.source = "CACHED" THEN NoteLocal(line, TRUE)
               ELSE line]

\* stop.  Reports already queued go on by themselves.
Shutdown(w) ==
  LET off == Cut([w EXCEPT !.on = FALSE], "CANCEL", "SESSION_STOPPED")
  IN  Fresh(off, {off.posts[i] : i \in 1 .. Len(off.posts)})

-----------------------------------------------------------------------------
(* The server *)

Authorize ==
  /\ server.begun /\ server.open = 0 /\ server.next \in Ids
  /\ server' = [server EXCEPT !.open = @ + server.next, !.next = @ + 1]
  /\ acts' = Append(acts, server.next)
  /\ UNCHANGED <<page, left>>

\* voice-utterance-complete: stale outcomes are refused.
Reported(id) == [server EXCEPT !.open = IF @ = id THEN 0 ELSE @]

\* voice-ready: an authorization the page does not hold is closed.
Reconciled(active) == [server EXCEPT !.begun = TRUE, !.open = IF @ = active THEN @ ELSE 0]

\* The ACTION reaches the page, which may have no voice to speak it with.
\* The channel may deliver it twice.
Speak ==
  /\ acts # <<>>
  /\ \/ acts' = Tail(acts) /\ UNCHANGED left
     \/ page.on /\ Spend("dup") /\ UNCHANGED acts
  /\ LET id == Head(acts)
     IN  page' = IF ~page.on \/ page.utt.id = id \/ id \in page.finished THEN page
                 ELSE Spoken(page, id, left.say[id])
  /\ UNCHANGED server

Settled(w) ==
  [w EXCEPT !.posts = Tail(@), !.ready.behind = IF @ > 0 THEN @ - 1 ELSE 0]

\* Defect: a report is sent once.
LastTryAlready(post) == TRUE

LastTry(post) == post.tries = Tries

\* What the page leaves untold when the last try of a report has failed.
Forsaken(post) == IF post.tries < Tries THEN {} ELSE {post.id}

ReportArrives ==
  /\ page.posts # <<>>
  /\ server' = Reported(Head(page.posts).id)
  /\ page' = Settled(page)
  /\ UNCHANGED <<acts, left>>

\* The request or its answer is lost; after the last try the next report goes.
ReportFails ==
  /\ page.posts # <<>> /\ Spend("http")
  /\ \/ server' = Reported(Head(page.posts).id)
     \/ UNCHANGED server
  /\ page' = IF LastTry(Head(page.posts))
             THEN [Settled(page) EXCEPT !.untold = @ \cup Forsaken(Head(page.posts))]
             ELSE [page EXCEPT !.posts[1].tries = @ + 1]
  /\ UNCHANGED acts

StrayArrives ==
  \E post \in page.stray :
    /\ server' = Reported(post.id)
    /\ page' = [page EXCEPT !.stray = @ \ {post}]
    /\ UNCHANGED <<acts, left>>

StrayFails ==
  \E post \in page.stray :
    /\ Spend("http")
    /\ server' \in {server, Reported(post.id)}
    /\ LET again == IF LastTry(post) THEN {} ELSE {[post EXCEPT !.tries = @ + 1]}
       IN  page' = [page EXCEPT !.stray = (@ \ {post}) \cup again,
                                !.untold = @ \cup Forsaken(post)]
    /\ UNCHANGED acts

\* postVoiceReady waits for the reports before it, then says what it is playing.
ReadyPost ==
  /\ page.on /\ page.ready.tries > 0 /\ page.ready.behind = 0 /\ ~page.ready.sent
  /\ page' = [page EXCEPT !.ready.sent = TRUE, !.ready.tries = @ - 1,
                          !.flights = @ \cup {[active |-> page.utt.id, mine |-> TRUE]}]
  /\ UNCHANGED <<server, acts, left>>

ReadyArrives ==
  \E r \in page.flights :
    /\ server' = Reconciled(r.active)
    /\ page' = [page EXCEPT !.flights = @ \ {r},
                            !.ready = IF r.mine THEN NoReady ELSE @]
    /\ UNCHANGED <<acts, left>>

ReadyFails ==
  \E r \in page.flights :
    /\ Spend("http")
    /\ server' \in {server, Reconciled(r.active)}
    /\ page' = [page EXCEPT !.flights = @ \ {r},
                            !.ready.sent = @ /\ ~r.mine,
                            !.untold = IF r.mine /\ page.ready.tries = 0
                                       THEN @ \cup {server.open} ELSE @]
    /\ UNCHANGED acts

-----------------------------------------------------------------------------
(* Audio *)

\* A frame of turn comes, whose arrival leaves rest, or over when it was the
\* turn's end.  The page tags it with the utterance it last asked for.
Framed(turn, rest, over) ==
  LET v     == page.v
      mine  == page.utt.id # 0 /\ page.utt.source = "MODEL" /\ page.utt.id = v.req
      ended == [over EXCEPT !.v = [IF v.sounded \/ ~v.generating
                                   THEN [v EXCEPT !.accepting = FALSE, !.generating = FALSE]
                                   ELSE v EXCEPT !.floor = v.local \/ v.model]]
      told  == IF ~mine THEN ended
               ELSE IF v.sounded THEN Signal(ended, "SOURCE_COMPLETE", None)
               ELSE [ended EXCEPT !.empty = TRUE]
      loud  == [rest EXCEPT !.v.floor = TRUE, !.v.sounded = TRUE]
  IN  \/ turn.left > 0
         /\ page' = IF ~v.accepting THEN rest
                    ELSE IF mine THEN Play(loud, turn.of) ELSE loud
      \/ turn.left = 0 /\ turn.ends
         /\ page' = [told EXCEPT !.v = Released(@)]

FrameArrives ==
  /\ page.v.at = "ready" /\ page.wake = <<>> /\ page.air # <<>>
  /\ Framed(Head(page.air), [page EXCEPT !.air[1].left = @ - 1],
            [page EXCEPT !.air = <<>>])
  /\ UNCHANGED <<server, acts, left>>

LateFrameArrives ==
  /\ page.v.at = "ready" /\ page.wake # <<>>
  /\ Framed(Head(page.wake), [page EXCEPT !.wake[1].left = @ - 1],
            [page EXCEPT !.wake = Tail(@)])
  /\ UNCHANGED <<server, acts, left>>

\* The provider stops producing: it says the turn is over, or nothing more.
Balk ==
  /\ page.air # <<>> /\ Head(page.air).ends /\ Spend("balk")
  /\ LET turn == Head(page.air)
     IN  \E ends \in BOOLEAN :
           page' = [page EXCEPT !.air[1] = [turn EXCEPT !.left = 0, !.ends = ends],
                                !.owed[turn.of] = IF ends THEN @ - turn.left ELSE @]
  /\ UNCHANGED <<server, acts>>

\* The provider heard the candidate's boundary open over its turn.
Interrupt ==
  /\ page.wake = <<>> /\ page.air # <<>> /\ page.v.open /\ Spend("cut")
  /\ LET w == [page EXCEPT !.air = <<>>]
     IN  page' = IF page.v.accepting /\ ~page.v.local
                 THEN Cut([w EXCEPT !.v = [Invalidated(@) EXCEPT !.floor = FALSE]],
                          "INTERRUPT", None)
                 ELSE w
  /\ UNCHANGED <<server, acts>>

\* onPlaybackProgress: a chunk was heard to its end.
ChunkEnds ==
  LET rest == Tail(page.speaker)
      on   == page.utt.id # 0 /\ page.utt.source = "MODEL" /\ rest # <<>>
      w    == [page EXCEPT !.speaker = rest, !.v = NoteModel(@, on),
                           !.owed[Head(page.speaker)] = @ - 1]
  IN  /\ page.speaker # <<>> /\ ~page.stuck
      /\ page' = IF rest # <<>> THEN w
                 ELSE IF w.failure # None THEN Signal(w, "FAIL", w.failure)
                 ELSE Signal(w, "PLAYBACK_DRAINED", None)
      /\ UNCHANGED <<server, acts, left>>

\* The browser suspends the output.  The page resumes it only when some device
\* is plugged or unplugged (voice-session.ts:1370).
Freeze == page.speaker # <<>> /\ ~page.stuck /\ Spend("freeze")
          /\ page' = [page EXCEPT !.stuck = TRUE] /\ UNCHANGED <<server, acts>>

Thaw == page.stuck /\ page' = [page EXCEPT !.stuck = FALSE]
        /\ UNCHANGED <<server, acts, left>>

\* streamCachedTail: the server serves only what it has authorized now.
TailMoves ==
  /\ page' = CASE page.tail = "asked" /\ server.open = page.utt.id ->
                    Play([page EXCEPT !.tail = "ending"], page.utt.id)
               [] page.tail = "asked" /\ server.open # page.utt.id ->
                    FailAfterDrain([page EXCEPT !.tail = None], "CACHED_TAIL_FAILED")
               [] page.tail = "ending" ->
                    Signal([page EXCEPT !.tail = None], "SOURCE_COMPLETE", None)
               [] OTHER -> page
  /\ page.tail # None
  /\ UNCHANGED <<server, acts, left>>

TailDies ==
  /\ page.tail # None /\ Spend("tail")
  /\ page' = FailAfterDrain([page EXCEPT !.tail = None], "CACHED_TAIL_FAILED")
  /\ UNCHANGED <<server, acts>>

Expire ==
  /\ Deadline(page) # None
  /\ page' = Cut(page, "FAIL", Deadline(page))
  /\ UNCHANGED <<server, acts, left>>

-----------------------------------------------------------------------------
(* The candidate *)

StartTalking ==
  /\ page.v.at # "none" /\ ~page.muted /\ ~page.v.speaking /\ Spend("talk")
  /\ page' = [page EXCEPT !.v = Begun(@), !.words = Started(@)]
  /\ UNCHANGED <<server, acts>>

StopTalking ==
  /\ page.v.speaking
  /\ page' = TurnClosed(page)
  /\ UNCHANGED <<server, acts, left>>

\* Sustained voice, or a word that means stop.
ConfirmBargeIn ==
  /\ page.v.barge
  /\ page' = Cut([page EXCEPT !.v = Confirmed(@)], "INTERRUPT", None)
  /\ UNCHANGED <<server, acts, left>>

Mute ==
  /\ page.on /\ Spend("mute")
  /\ page' = IF page.muted THEN [page EXCEPT !.muted = FALSE]
             ELSE [TurnClosed(page) EXCEPT !.muted = TRUE]
  /\ UNCHANGED <<server, acts>>

TranscriptArrives ==
  /\ page.v.at = "ready" /\ page.words.spoke /\ Spend("word")
  /\ page' = [page EXCEPT !.words = Heard(@)]
  /\ UNCHANGED <<server, acts>>

WordsSettle ==
  /\ page.words.timer
  /\ page' = Flush(page, Elapsed(page.words))
  /\ UNCHANGED <<server, acts, left>>

\* finishInput: the candidate ends the interview; with nothing to wait for it
\* returns at once.
FinishInput ==
  /\ page.on /\ page.finish = "no" /\ Spend("finish")
  /\ LET words == page.words
     IN  page' = IF ~words.open /\ ~words.awaiting THEN [page EXCEPT !.finish = "settled"]
                 ELSE IF words.open
                 THEN [TurnClosed(page) EXCEPT !.muted = TRUE, !.finish = "waiting"]
                 ELSE [page EXCEPT !.finish = "waiting"]
  /\ UNCHANGED <<server, acts>>

\* The wait is bounded; after it the page seals the interview and stops voice.
Leave ==
  /\ page.finish \in {"waiting", "settled"}
  /\ page' = [Shutdown(page) EXCEPT !.ended = TRUE]
  /\ UNCHANGED <<server, acts, left>>

Start ==
  /\ ~page.on /\ ~page.ended
  /\ page' = [page EXCEPT !.on = TRUE, !.starting = TRUE, !.minting = 1]
  /\ UNCHANGED <<server, acts, left>>

Stop ==
  /\ page.on /\ Spend("stop")
  /\ page' = Shutdown(page)
  /\ UNCHANGED <<server, acts>>

\* The page is gone with its timers; a report under way may still arrive, and
\* what the channel had not delivered is lost.
Reload ==
  /\ page.on /\ Spend("reload")
  /\ \E sent \in {{}, {[page.posts[i] EXCEPT !.tries = Tries] : i \in {1} \cap DOMAIN page.posts}} :
       page' = Fresh(page, sent)
  /\ acts' = <<>>
  /\ UNCHANGED server

-----------------------------------------------------------------------------
(* The connection *)

Minted ==
  /\ page.minting > 0 /\ server.mints < MaxMints
  /\ server' = [server EXCEPT !.mints = @ + 1]
  /\ page' = [Replaced(page) EXCEPT !.minting = @ - 1]
  /\ UNCHANGED <<acts, left>>

\* Refused, or failed.  A first attempt gives up; a later one is retried.
MintFails ==
  /\ page.minting > 0
  /\ \/ server.mints = MaxMints /\ UNCHANGED left
     \/ Spend("http")
  /\ page' = IF page.starting THEN Shutdown(page)
             ELSE ScheduleReconnect([page EXCEPT !.minting = @ - 1], "PROVIDER_DISCONNECTED")
  /\ UNCHANGED <<server, acts>>

\* onReady: speech that was held for the handshake is asked for now.
SocketReady ==
  /\ page.v.at = "dialing"
  /\ LET up == [page EXCEPT !.v = SetUp(@), !.pending = 0]
     IN  page' = PostReady(IF page.pending # 0 /\ page.pending = page.utt.id
                           THEN Request(up, page.pending) ELSE up)
  /\ UNCHANGED <<server, acts, left>>

Drop ==
  /\ page.v.at \in {"dialing", "ready"} /\ Spend("drop")
  /\ page' = Disconnected([page EXCEPT !.v = Lost(@), !.air = <<>>, !.wake = <<>>])
  /\ UNCHANGED <<server, acts>>

\* The close event of a socket that was replaced.
OldSocketCloses ==
  /\ page.leaving > 0
  /\ page' = Disconnected([page EXCEPT !.leaving = @ - 1])
  /\ UNCHANGED <<server, acts, left>>

\* An error on a socket that stays open.
ErrorFrame ==
  /\ page.v.at = "ready" /\ Spend("error")
  /\ page' = ScheduleReconnect(page, "PROVIDER_DISCONNECTED")
  /\ UNCHANGED <<server, acts>>

GoAway ==
  /\ page.v.at = "ready" /\ Spend("goAway")
  /\ page' = [page EXCEPT !.rotate = TRUE]
  /\ UNCHANGED <<server, acts>>

\* The rotation, which waits for a model's turn only as long as it can.
Rotate ==
  /\ page.rotate /\ page.minting < MaxDials
  /\ LET w == [page EXCEPT !.rotate = FALSE]
     IN  page' = [IF w.utt.id # 0 /\ w.utt.source = "MODEL"
                  THEN Cut(w, "FAIL", "PROVIDER_GOAWAY") ELSE w EXCEPT !.minting = @ + 1]
  /\ UNCHANGED <<server, acts, left>>

Reconnect ==
  /\ page.retry /\ page.minting < MaxDials
  /\ page' = [page EXCEPT !.retry = FALSE, !.minting = @ + 1]
  /\ UNCHANGED <<server, acts, left>>

-----------------------------------------------------------------------------

Dials == Minted \/ MintFails \/ SocketReady \/ OldSocketCloses \/ Rotate \/ Reconnect

Settles ==
  \/ Speak \/ ReportArrives \/ StrayArrives \/ ReadyPost \/ ReadyArrives
  \/ FrameArrives \/ LateFrameArrives \/ ChunkEnds \/ TailMoves \/ Expire
  \/ StopTalking \/ WordsSettle \/ Leave

Happens ==
  \/ Authorize \/ ReportFails \/ StrayFails \/ ReadyFails \/ Balk \/ Interrupt
  \/ Freeze \/ Thaw \/ TailDies \/ StartTalking \/ ConfirmBargeIn \/ Mute \/ TranscriptArrives
  \/ FinishInput \/ Stop \/ Reload \/ Drop \/ ErrorFrame \/ GoAway

Next == Dials \/ Settles \/ Happens \/ Start

Spec == Init /\ [][Next]_vars

\* What is under way goes on: deliveries, audio and timers; dialing; and the
\* candidate turns voice on again.  A suspended output need not be resumed.
FairSpec == Spec /\ WF_vars(Settles) /\ WF_vars(Dials) /\ WF_vars(Start)

-----------------------------------------------------------------------------
(* Properties *)

\* An utterance reported as completed was heard to its end: every chunk its
\* source produced was played out.  Except one that was asked for while the
\* socket still carried frames of an earlier turn: those are tagged with the
\* new utterance (realtime-voice.ts:351, :655-660), so it may be told as
\* completed by the end of the other turn.
CompletedWasHeard ==
  \A id \in Ids \ page.mixed : page.told[id] = "COMPLETED" => page.owed[id] = 0

\* The output is suspended under an utterance with more to come: the page arms
\* no deadline while audio is queued (voice-session.ts:686-687).
Suspended == page.stuck /\ page.speaker # <<>> /\ ~page.utt.complete

\* Every utterance ends, whatever the provider and the network do.  Except
\* when the browser suspends the output before the source is complete, and
\* never resumes it.
UtterancesEnd == <>[]Suspended \/ []<>(page.utt.id = 0)

\* The server is not left believing that the interviewer still speaks, unless
\* the output stays suspended, each of the page's tries to tell it of that
\* utterance failed (three of a report, voice-session.ts:793, or four of
\* readiness, :825), the interview is over, or the session has used up its
\* credentials.
AuthorizationCloses ==
  \/ <>[]Suspended
  \/ []<>(server.open \in {0} \cup page.untold \/ page.ended \/ server.mints = MaxMints)

\* What the provider transcribed is passed on to the application channel,
\* whatever happens to the connection; only turning voice off and reloading
\* the page drop it (stop, voice-session.ts:1144).
WordsGetThrough ==
  \A n \in 1 .. MaxWords :
    page.words.chunks + page.passed + page.thrown >= n ~> page.passed + page.thrown >= n

=============================================================================
