----------------------------- MODULE Microphone -----------------------------
(***************************************************************************)
(* The capture half of a browser's VoiceSession (web/lib/voice-session.ts): *)
(* start and stop, the candidate's choice of device, and the recovery from  *)
(* a device that goes away.  Each of them waits, for the device and then    *)
(* for the audio worklet, while the others run.                            *)
(*                                                                         *)
(* A stream is known by its number; streams[n] is [device, live, armed],   *)
(* armed while its onended handler is set.  Mute, which only sets the      *)
(* tracks' enabled flag, is TurnTaking's; the speaker is left out.         *)
(***************************************************************************)
EXTENDS Integers, Sequences

CONSTANTS Microphones, \* input devices there may be
          Choices,     \* bound: devices the candidate chooses
          Changes      \* bound: devices plugged in or out

VARIABLES plugged,  \* the devices that are there
          streams,  \* every stream that was opened
          feeding,  \* streams with a capture graph in the audio context
          capture,  \* the session's fields, see CaptureInit
          tasks,    \* start, switchMicrophone and recoverMicrophone calls that wait
          news,     \* what the browser has not told yet: whether devices
                    \* changed, and which streams' tracks ended
          choices, changes

micVars == <<plugged, streams, feeding, capture, tasks, news, choices, changes>>

NoStream == 0
Default == "default"  \* no device asked for

\* on: start was called; open: there is an audio context; stream, wanted,
\* recovering: stream, activeDeviceId, recoveringMicrophone.  missed: a loss
\* was reported while a recovery was under way, and ignored.
CaptureInit ==
  /\ plugged \in SUBSET Microphones
  /\ streams = <<>> /\ feeding = {} /\ tasks = {}
  /\ news = [changed |-> FALSE, ended |-> {}]
  /\ capture = [on |-> FALSE, stopping |-> FALSE, open |-> FALSE, listens |-> FALSE,
                recovering |-> FALSE, stream |-> NoStream, graph |-> NoStream,
                wanted |-> Default, missed |-> FALSE]
  /\ choices = 0 /\ changes = 0

\* A call that waits for a device (stream = NoStream; `next` are the devices
\* it tries after this one) or for the worklet.
Opening(call, device, next) ==
  [call |-> call, device |-> device, next |-> next, stream |-> NoStream,
   previous |-> NoStream]

\* What getUserMedia may give for a device.
Granted(device) == IF device = Default THEN plugged ELSE plugged \cap {device}

\* A stream that is over; which device it was does not matter any more.
Dead(stream) == [stream EXCEPT !.live = FALSE, !.device = Default]

Retired(n) == [streams EXCEPT ![n] = [Dead(@) EXCEPT !.armed = FALSE]]

IsLive(n) == n # NoStream /\ streams[n].live

-----------------------------------------------------------------------------

Start ==
  /\ ~capture.on
  /\ capture' = [capture EXCEPT !.on = TRUE]
  /\ tasks' = {Opening("start", Default, <<>>)}
  /\ UNCHANGED <<plugged, streams, feeding, news, choices, changes>>

SwitchMicrophone(device) ==
  /\ capture.open /\ ~capture.stopping /\ choices < Choices
  /\ choices' = choices + 1
  /\ tasks' = tasks \cup {Opening("switch", device, <<>>)}
  /\ UNCHANGED <<plugged, streams, feeding, capture, news, changes>>

\* stop(), up to the close of the audio context and its fields.
Stopped(c) ==
  [c EXCEPT !.stopping = TRUE, !.open = FALSE, !.listens = FALSE,
            !.stream = NoStream, !.graph = NoStream, !.wanted = Default]

Silenced(n) == IF n = NoStream THEN streams ELSE Retired(n)

Stop ==
  /\ capture.on /\ ~capture.stopping
  /\ capture' = Stopped(capture)
  /\ streams' = Silenced(capture.stream)
  /\ feeding' = {}
  /\ UNCHANGED <<plugged, tasks, news, choices, changes>>

\* openStream gives a stream.  start() makes the audio context, even where
\* stop() has been called since; the others detach the old graph.
Opened(t) ==
  /\ t.stream = NoStream
  /\ \E device \in Granted(t.device) :
       LET n == Len(streams) + 1
       IN  /\ streams' = Append(streams, [device |-> device, live |-> TRUE, armed |-> TRUE])
           /\ IF t.call = "start"
              THEN /\ capture' = [capture EXCEPT !.stream = n, !.open = TRUE, !.listens = TRUE]
                   /\ UNCHANGED feeding
              ELSE /\ capture' = [capture EXCEPT !.stream = n, !.graph = NoStream,
                                                 !.wanted = t.device]
                   /\ feeding' = feeding \ {capture.graph}
           /\ tasks' = (tasks \ {t}) \cup
                         {[t EXCEPT !.stream = n, !.previous = capture.stream]}
  /\ UNCHANGED <<plugged, news, choices, changes>>

\* Defect: a recovery that cannot have the same device gives up.
GivesUp(t) ==
  IF t.call = "start" THEN Stopped(capture)
  ELSE IF t.call = "recover" THEN [capture EXCEPT !.recovering = FALSE]
  ELSE capture

NextTryNone(t) == /\ tasks' = tasks \ {t} /\ capture' = GivesUp(t)

\* The call ends, or tries the next device.
NextTry(t) ==
  IF t.next = <<>> THEN tasks' = tasks \ {t} /\ capture' = GivesUp(t)
  ELSE /\ tasks' = (tasks \ {t}) \cup {Opening(t.call, Head(t.next), Tail(t.next))}
       /\ UNCHANGED capture

\* getUserMedia has no such device.
Refused(t) ==
  /\ t.stream = NoStream /\ Granted(t.device) = {}
  /\ NextTry(t)
  /\ UNCHANGED <<plugged, streams, feeding, news, choices, changes>>

\* startCapture, and the release of the old stream.  start() captures
\* whichever stream is the session's by then.
Captured(t) ==
  LET n == IF t.call = "start" THEN capture.stream ELSE t.stream
  IN  /\ t.stream # NoStream /\ capture.open
      /\ feeding' = feeding \cup {n}
      /\ capture' = [capture EXCEPT !.graph = n,
                       !.recovering = @ /\ t.call # "recover"]
      /\ streams' = IF t.previous = NoStream THEN streams
                    ELSE Retired(t.previous)
      /\ tasks' = tasks \ {t}
      /\ UNCHANGED <<plugged, news, choices, changes>>

\* The audio context is closed: nothing can be attached to it any more.
CaptureFails(t) ==
  /\ t.call # "start" /\ t.stream # NoStream /\ ~capture.open
  /\ NextTry(t)
  /\ UNCHANGED <<plugged, streams, feeding, news, choices, changes>>

\* connectProvider fails, or the context is closed: start() releases what the
\* session holds.
StartFails(t) ==
  /\ t.call = "start" /\ t.stream # NoStream
  /\ tasks' = tasks \ {t}
  /\ capture' = Stopped(capture)
  /\ streams' = Silenced(capture.stream)
  /\ feeding' = {}
  /\ UNCHANGED <<plugged, news, choices, changes>>

-----------------------------------------------------------------------------
(* The hardware, and what the browser says of it.  Bound: devices come and  *)
(* go while a session runs.                                                *)

MayChange == changes < Changes /\ capture.on /\ ~capture.stopping

Plug(device) ==
  /\ MayChange /\ device \notin plugged
  /\ changes' = changes + 1
  /\ plugged' = plugged \cup {device}
  /\ news' = [news EXCEPT !.changed = TRUE]
  /\ UNCHANGED <<streams, feeding, capture, tasks, choices>>

Unplug(device) ==
  LET lost == {n \in DOMAIN streams : streams[n].live /\ streams[n].device = device}
  IN  /\ MayChange /\ device \in plugged
      /\ changes' = changes + 1
      /\ plugged' = plugged \ {device}
      /\ streams' = [n \in DOMAIN streams |->
                       IF n \in lost THEN Dead(streams[n]) ELSE streams[n]]
      /\ news' = [changed |-> TRUE, ended |-> news.ended \cup lost]
      /\ UNCHANGED <<feeding, capture, tasks, choices>>

\* recoverMicrophone, up to its first wait.
RecoverMicrophone ==
  IF capture.recovering
  THEN capture' = [capture EXCEPT !.missed = TRUE] /\ UNCHANGED tasks
  ELSE IF ~capture.open THEN UNCHANGED <<capture, tasks>>
  ELSE /\ capture' = [capture EXCEPT !.recovering = TRUE]
       /\ tasks' = tasks \cup {Opening("recover", capture.wanted, <<Default>>)}

TrackEnded(n) ==
  /\ n \in news.ended
  /\ news' = [news EXCEPT !.ended = @ \ {n}]
  /\ IF streams[n].armed /\ ~capture.stopping THEN RecoverMicrophone
     ELSE UNCHANGED <<capture, tasks>>
  /\ UNCHANGED <<plugged, streams, feeding, choices, changes>>

\* handleDeviceChange: a stream that is still live is only news for the picker.
HandleDeviceChange ==
  /\ news.changed
  /\ news' = [news EXCEPT !.changed = FALSE]
  /\ IF capture.listens /\ ~capture.stopping /\ ~IsLive(capture.stream)
     THEN RecoverMicrophone
     ELSE UNCHANGED <<capture, tasks>>
  /\ UNCHANGED <<plugged, streams, feeding, choices, changes>>

-----------------------------------------------------------------------------

MicStep ==
  \/ \E t \in tasks : Opened(t) \/ Refused(t) \/ Captured(t) \/ CaptureFails(t)
  \/ \E n \in news.ended : TrackEnded(n)
  \/ HandleDeviceChange

MicNext ==
  \/ Start \/ Stop \/ MicStep
  \/ \E device \in Microphones : Plug(device) \/ Unplug(device)
  \/ \E device \in Microphones \cup {Default} : SwitchMicrophone(device)
  \/ \E t \in tasks : StartFails(t)

Capturing == IsLive(capture.stream) /\ capture.stream \in feeding

\* A lost microphone comes back: while the session runs and there is a device
\* left, it ends up capturing from a live one, whatever was chosen, plugged in
\* and pulled out on the way (recoverMicrophone, handleDeviceChange).  Not so
\* where a loss is reported while a recovery is under way: that one is ignored,
\* and no later event tells of it.
MicrophoneComesBack ==
  <>[](plugged # {} /\ capture.open /\ ~capture.stopping) => <>[](Capturing \/ capture.missed)
=============================================================================
