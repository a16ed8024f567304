----------------------------- MODULE TurnTaking -----------------------------
(***************************************************************************)
(* When the interviewer takes the floor: a microphone in a room, the       *)
(* detector that finds the boundaries of speech in it (vad.ts), the tail   *)
(* read at a boundary (turn-predictor.ts), the channel that carries both   *)
(* and the transcript (session-client.ts), what its words are taken for    *)
(* (Intent), and the server that measures the silence and holds a turn     *)
(* until there is enough of it (runtime.ts, turn-completion.ts).           *)
(*                                                                         *)
(* Time passes one frame at a time (Tick).  Every instant is kept as its   *)
(* age in frames, up to Cap, beyond which no silence makes a difference.   *)
(* What is due happens within MaxLag frames: the channel, the transcriber, *)
(* the classifier and the timer may each be late by that much.             *)
(*                                                                         *)
(* Left to InterviewRuntime: the appends between a judgement and its       *)
(* consequences, barge-in, and the gate's other rules, so that a turn      *)
(* whose end is accepted is answered here.                                 *)
(***************************************************************************)
EXTENDS Prosody, Intent

CONSTANTS
  Mode,     \* of the interview: which policy
  Settings, \* what may happen: [room, utterances, transcripts, mutes, coalesce]
  Cap,      \* frames after which a silence is as long as any
  MaxLag    \* frames by which what is due may be late

VARIABLES
  setting,  \* the room's level, what the candidate may be heard to say
            \* (sequences of sounds), the words a turn may be transcribed to
            \* (Intent), how often the microphone is muted, and whether
            \* transcripts wait for the end of speech
  vad,      \* the detector
  saying,   \* what is left of what the candidate is saying
  frames,   \* frames heard, as the predictor keeps them
  muted,
  mutes,
  quiet,    \* frames since speech was last heard
  words,    \* speech heard that has no final transcript yet
  line,     \* client events on their way to the server
  server,
  lag       \* frames for which something has been due

vars == <<setting, vad, saying, frames, muted, mutes, quiet, words, line, server, lag>>

Policy == Policies[Mode]

\* A sound is what a frame holds: how far above the room, which pitch, and
\* whether it belongs to a word.
Silence == [over |-> 0, f0 |-> None, word |-> FALSE]

ASSUME TurnTakingAssumption ==
  /\ Mode \in DOMAIN Policies
  /\ Cap \in Nat /\ MaxLag \in Nat \ {0}

-----------------------------------------------------------------------------
(* The server.  `speaking` is candidateSpeakingNow; `stopped` the age of   *)
(* lastSpeechStoppedAtMs; `pull` what the last boundary's prosody amounts  *)
(* to; `silence` what silenceNow() answers, counted in frames; `held` and  *)
(* `after` are heldTurn and speakingNowHeld; `open` says what the words    *)
(* read like that no answer has been given to; `job` is the turn being     *)
(* classified; `talkedOver` is history: a sound dropped the turn that was  *)
(* held, and no words have come since.                                     *)

NoServer ==
  [speaking |-> FALSE, stopped |-> None, pull |-> 0, silence |-> None,
   held |-> {}, after |-> {}, open |-> {}, job |-> FALSE, talkedOver |-> FALSE]

ClearHeldTurn(s) == [s EXCEPT !.held = {}, !.after = {}]

Milliseconds(age) == IF age = None THEN Untimed ELSE age * FrameMs

Ended(s, turn, pull) ==
  EndProbability(turn, Milliseconds(s.silence), Policy, pull) >= Policy.threshold

\* How many frames until the timer looks again: 25 ms past the crossing.
Wait(s, pull) ==
  (SilenceRequired(Policy, pull) - Milliseconds(s.silence) + 25 + FrameMs - 1)
    \div FrameMs

\* holdForSilence: only a turn that nothing but the clock held back.
HoldForSilence(s, turn, pull, tries) ==
  IF s.silence # None /\ turn.text >= Policy.threshold /\ Wait(s, pull) > 0
  THEN [s EXCEPT !.held = {[turn |-> turn, pull |-> pull, tries |-> tries + 1,
                            wait |-> Wait(s, pull)]}]
  ELSE s

\* judge(): whoever speaks keeps the floor; a turn that has ended is answered.
Judge(s, turn, pull, tries) ==
  IF ~s.speaking /\ Ended(s, turn, pull)
  THEN [s EXCEPT !.open = {}, !.silence = None]
  ELSE IF s.speaking /\ tries = 0
  THEN [s EXCEPT !.after = {[turn |-> turn]}]
  ELSE IF tries < 2 THEN HoldForSilence(s, turn, pull, tries)
  ELSE s

SpeechStarted(s) ==
  [ClearHeldTurn(s) EXCEPT !.speaking = TRUE, !.stopped = None, !.pull = 0,
                           !.talkedOver = @ \/ s.held # {}]

\* A turn held only because the candidate was speaking is looked at again.
SpeechStopped(s, event) ==
  LET now == [s EXCEPT !.speaking = FALSE, !.stopped = event.age,
                       !.pull = event.pull, !.after = {}]
  IN  IF s.after = {} \/ s.held # {} THEN now
      ELSE [now EXCEPT !.silence = 0,
              !.held = {[turn |-> h.turn, pull |-> event.pull, tries |-> 1,
                         wait |-> 1] : h \in s.after}]

\* evaluateTurn up to the classifier: both instants are the client's.
SpeechFinal(s, event) ==
  [ClearHeldTurn(s) EXCEPT !.job = TRUE, !.talkedOver = FALSE,
     !.silence = IF s.stopped = None THEN None
                 ELSE IF s.stopped > event.age THEN s.stopped - event.age ELSE 0]

-----------------------------------------------------------------------------
(* The client.                                                             *)

Event(type, age, pull) == [type |-> type, age |-> age, pull |-> pull]

Boundary(step, heard) ==
  CASE step.event = "start" -> <<Event("SPEECH_STARTED", step.ago, 0)>>
    [] step.event = "end" ->
         <<Event("SPEECH_STOPPED", step.ago, ProsodyPull(Estimate(heard, step.ago)))>>
    [] OTHER -> <<>>

\* Ages of events stop at Cap, like every clock.
Older(age) == Later(age, Cap)

ServerLater(s) ==
  [s EXCEPT !.stopped = Older(@), !.silence = Older(@),
     !.held = {[h EXCEPT !.wait = IF @ = 0 THEN 0 ELSE @ - 1] : h \in @}]

Due ==
  \/ line # <<>> \/ server.job
  \/ words /\ ~vad.speaking
  \/ \E h \in server.held : h.wait = 0

\* One frame: what the candidate says is heard unless the microphone is off.
Tick ==
  LET sound == IF saying = <<>> THEN Silence ELSE Head(saying)
      level == setting.room + sound.over
      heard == Heard(frames, [db |-> level, f0 |-> sound.f0], Since(vad.quiet) + 1)
      step  == IF muted THEN Same(Aged(vad)) ELSE PushDb(Aged(vad), level)
  IN  /\ Due => lag < MaxLag
      /\ lag' = IF Due THEN lag + 1 ELSE 0
      /\ saying' = IF saying = <<>> THEN saying ELSE Tail(saying)
      /\ vad' = step.vad
      /\ frames' = IF muted THEN frames ELSE heard
      /\ quiet' = IF ~muted /\ sound # Silence /\ step.vad.speaking THEN 0
                  ELSE Older(quiet)
      /\ words' = (words \/ (~muted /\ sound.word /\ step.vad.speaking))
      /\ line' = [i \in DOMAIN line |-> [line[i] EXCEPT !.age = Older(@)]]
                   \o Boundary(step, heard)
      /\ server' = ServerLater(server)
      /\ UNCHANGED <<setting, muted, mutes>>

\* The candidate speaks up, once the detector has heard the room.
Speak(utterance) ==
  /\ saying = <<>> /\ ~Calibrating(vad)
  /\ saying' = utterance
  /\ UNCHANGED <<setting, vad, frames, muted, mutes, quiet, words, line, server, lag>>

Mute ==
  LET step == Reset(vad)
  IN  /\ mutes < setting.mutes /\ ~muted /\ ~Calibrating(vad)
      /\ muted' = TRUE
      /\ mutes' = mutes + 1
      /\ vad' = step.vad
      /\ line' = line \o Boundary(step, frames)
      /\ frames' = <<>>
      /\ UNCHANGED <<setting, saying, quiet, words, server, lag>>

Unmute ==
  /\ muted
  /\ muted' = FALSE
  /\ UNCHANGED <<setting, vad, saying, frames, mutes, quiet, words, line, server, lag>>

\* The final transcript of everything heard so far.
Transcribed ==
  /\ words
  /\ setting.coalesce => ~vad.speaking
  /\ words' = FALSE
  /\ line' = Append(line, Event("SPEECH_FINAL", 0, 0))
  /\ UNCHANGED <<setting, vad, saying, frames, muted, mutes, quiet, server>>
  /\ lag' = IF Due' THEN lag ELSE 0

-----------------------------------------------------------------------------
(* The server's handlers, one event at a time.                             *)

Ingest(type, next) ==
  /\ ~server.job /\ line # <<>> /\ Head(line).type = type
  /\ server' = next
  /\ line' = Tail(line)
  /\ UNCHANGED <<setting, vad, saying, frames, muted, mutes, quiet, words>>
  /\ lag' = IF Due' THEN lag ELSE 0

Started == Ingest("SPEECH_STARTED", SpeechStarted(server))

Stopped == Ingest("SPEECH_STOPPED", SpeechStopped(server, Head(line)))

Final == Ingest("SPEECH_FINAL", SpeechFinal(server, Head(line)))

\* What the words said since the last answer may be taken for.
TurnsHeard == UNION {Turns(text) : text \in setting.transcripts}

\* The classifier has read the turn.
Classified(turn) ==
  /\ server.job
  /\ server' = Judge([server EXCEPT !.job = FALSE, !.open = {turn}], turn,
                     server.pull, 0)
  /\ UNCHANGED <<setting, vad, saying, frames, muted, mutes, quiet, words, line>>
  /\ lag' = IF Due' THEN lag ELSE 0

\* onSilenceElapsed.
Elapsed ==
  \E h \in server.held :
    /\ h.wait = 0
    /\ server' = Judge(ClearHeldTurn(server), h.turn, h.pull, h.tries)
    /\ UNCHANGED <<setting, vad, saying, frames, muted, mutes, quiet, words, line>>
    /\ lag' = IF Due' THEN lag ELSE 0

-----------------------------------------------------------------------------

Init ==
  /\ setting \in Settings
  /\ vad = Fresh
  /\ saying = <<>>
  /\ frames = <<>>
  /\ muted = FALSE /\ mutes = 0
  /\ quiet = Cap
  /\ words = FALSE
  /\ line = <<>>
  /\ server = NoServer
  /\ lag = 0

Next ==
  \/ Tick
  \/ \E utterance \in setting.utterances : Speak(utterance)
  \/ Mute \/ Unmute
  \/ Transcribed
  \/ Started \/ Stopped \/ Final
  \/ \E turn \in TurnsHeard : Classified(turn)
  \/ Elapsed

Serve ==
  \/ Transcribed
  \/ Started \/ Stopped \/ Final
  \/ \E turn \in TurnsHeard : Classified(turn)
  \/ Elapsed

\* Frames keep coming, and what is due is done.
Fairness == WF_vars(Tick) /\ WF_vars(Serve)

Spec == Init /\ [][Next]_vars /\ Fairness

-----------------------------------------------------------------------------

\* The interviewer never takes a floor that was only paused on.  Whoever read
\* the words, a turn that trails off is not accepted as ended; and where one
\* is that has not handed the floor back, the candidate has really been silent
\* for what the policy asks of a voice that sounded as theirs did, or has
\* resumed and the server cannot know it yet (the veto on what trails off,
\* vad.ts's backdated boundaries, silenceBefore, the silence timer).
Resumed ==
  \/ vad.speaking \/ vad.voice # None
  \/ \E i \in DOMAIN line : line[i].type = "SPEECH_STARTED"

Accepted(turn) ==
  /\ server'.open = {}
  /\ \/ Classified(turn)
     \/ Elapsed /\ \E h \in server.held : h.turn = turn

NeverCutShort ==
  [][ \A turn \in TurnsHeard :
        Accepted(turn) =>
          /\ ~server.speaking /\ ~turn.trails
          /\ \/ turn.asks \/ Resumed
             \/ quiet * FrameMs >= SilenceRequired(Policy, server.pull) ]_vars

\* A finished thought is answered: once the candidate stays silent, no words
\* that read as finished are left without an answer (holdForSilence, the
\* re-judgement, the turn held while the candidate speaks).  The exception is
\* what SPEECH_STARTED does to a turn held for silence (runtime.ts:696-699):
\* a cough long enough to be speech drops it, brings no words of its own, and
\* no answer ever comes, where vad.ts:19-22 takes a false start for harmless.
Finished(turn) == turn.text >= Policy.threshold /\ ~turn.trails

FinishedIsAnswered ==
  <>[](quiet = Cap) =>
    <>[](\A turn \in server.open : ~Finished(turn) \/ server.talkedOver)
=============================================================================
