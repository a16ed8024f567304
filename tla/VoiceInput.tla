----------------------------- MODULE VoiceInput -----------------------------
(***************************************************************************)
(* What the candidate says: the parts of web/lib/realtime-voice.ts and     *)
(* web/lib/voice-session.ts that decide when the provider hears a boundary *)
(* and when a transcript goes to the application channel.                  *)
(*                                                                         *)
(* A line is one RealtimeVoice: a provider connection with its voice       *)
(* activity detector.  Its operators map a line to the next line.          *)
(*   at          handshake: "none" before there is one                     *)
(*   req         the utterance asked of the model, 0 for none              *)
(*   accepting, generating, sounded   acceptingModelAudio, modelGenerating,*)
(*               modelAudioThisTurn                                        *)
(*   local, model, floor   playback known active, interviewerSpeaking      *)
(*   speaking, barge, deferred, open   the detector, a provisional barge-  *)
(*               in, a held boundary, inputActivityOpen                    *)
(* Words are the final transcript chunks received and not yet passed on.   *)
(***************************************************************************)
EXTENDS Naturals

NoLine ==
  [at |-> "none", req |-> 0, accepting |-> FALSE, generating |-> FALSE,
   sounded |-> FALSE, local |-> FALSE, model |-> FALSE, floor |-> FALSE,
   speaking |-> FALSE, barge |-> FALSE, deferred |-> FALSE, open |-> FALSE]

NoWords ==
  [spoke |-> FALSE, open |-> FALSE, awaiting |-> FALSE, chunks |-> 0,
   timer |-> FALSE]

Invalidated(v) ==
  [v EXCEPT !.req = 0, !.accepting = FALSE, !.generating = FALSE,
            !.sounded = FALSE]

\* Opens the provider boundary, which only a ready connection carries.
Opened(v) == [v EXCEPT !.open = @ \/ v.at = "ready"]

\* afterInterviewerChange: a held interruption is now the candidate talking.
Released(v) ==
  IF v.floor \/ v.generating THEN v
  ELSE [v EXCEPT !.deferred = FALSE, !.barge = FALSE,
                 !.open = @ \/ (v.deferred /\ v.speaking /\ v.at = "ready")]

NoteLocal(v, active) ==
  Released([v EXCEPT !.local = active, !.floor = active \/ v.model])

NoteModel(v, active) ==
  Released([v EXCEPT !.model = active, !.floor = active \/ v.local])

\* cancelSpeech, with no playback from now on.
CancelSpeech(v) ==
  Released([Invalidated(v) EXCEPT !.local = FALSE, !.model = FALSE, !.floor = FALSE])

Asked(v, id) ==
  [Invalidated(v) EXCEPT !.req = id, !.accepting = TRUE, !.generating = TRUE]

\* confirmBargeIn, before it is reported.
Confirmed(v) ==
  LET free == [Invalidated(v) EXCEPT !.barge = FALSE, !.local = FALSE,
                 !.model = FALSE, !.floor = FALSE, !.deferred = FALSE]
  IN  IF v.deferred /\ v.speaking THEN Opened(free) ELSE free

\* The detector declares speech.  Over an answer it is provisional, and while
\* the provider is generating its boundary is held back.
Begun(v) ==
  LET over == v.floor \/ v.generating
      now  == [v EXCEPT !.speaking = TRUE, !.barge = over]
  IN  IF v.generating THEN [now EXCEPT !.deferred = TRUE] ELSE Opened(now)

\* The detector declares the end, or mute or teardown forces it.
Ceased(v) ==
  [v EXCEPT !.speaking = FALSE, !.barge = FALSE, !.deferred = FALSE,
            !.open = IF v.deferred THEN @ ELSE FALSE]

\* setupComplete: speech that began during the handshake gets its boundary.
SetUp(v) ==
  LET up == [v EXCEPT !.at = "ready"] IN IF v.speaking THEN Opened(up) ELSE up

\* The socket closed under the connection.
Lost(v) ==
  [Invalidated(v) EXCEPT !.at = "closed", !.open = FALSE, !.deferred = FALSE,
                         !.floor = v.local \/ v.model, !.barge = FALSE]

-----------------------------------------------------------------------------

Flushed(words) ==
  IF words.open \/ words.chunks = 0 THEN words
  ELSE [words EXCEPT !.chunks = 0, !.awaiting = FALSE]

Started(words) ==
  [words EXCEPT !.spoke = TRUE, !.open = TRUE, !.awaiting = TRUE,
                !.timer = FALSE]

Stopped(words) ==
  [words EXCEPT !.open = FALSE, !.awaiting = TRUE, !.timer = TRUE]

Heard(words) ==
  [words EXCEPT !.chunks = @ + 1, !.timer = @ \/ ~words.open]

Elapsed(words) == Flushed([words EXCEPT !.timer = FALSE])
=============================================================================
