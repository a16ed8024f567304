----------------------------- MODULE SpeechCache -----------------------------
(***************************************************************************)
(* An authored line, rendered ahead of time: UtteranceAudioCache            *)
(* (realtime/utterance-audio.ts) over the renderer (realtime/tts.ts), the   *)
(* verifier (realtime/transcriber.ts) and a directory on disk, and the      *)
(* head and tail a page is given (deliver and the voice-utterance-audio     *)
(* route of session/index.ts).                                              *)
(*                                                                         *)
(* Lines share nothing but the places of prewarm's pool, so the module is   *)
(* about one of them.  Several processes share the directory (the server,   *)
(* voice:prerender, the server that replaces this one) and each may be      *)
(* killed at any point.  Two renders of a line are two recordings.          *)
(***************************************************************************)
EXTENDS Integers

CONSTANTS Server, Others, \* the process that serves, the others on the directory
          Renders         \* numbers that tell recordings apart

ASSUME SpeechCacheAssumption == Server \notin Others /\ Renders \subseteq Nat \ {0}

VARIABLES memory, \* entries: per process, what it holds of the line
          work,   \* inFlight: per process, the step of ensure's task
          files,  \* the recording and the metadata on disk
          heard   \* what a page was given last: a head and a tail

cacheVars == <<memory, work, files, heard>>

Processes == {Server} \union Others

\* A recording, and whether it says the authored words and nothing else.
Recordings == [number : Renders, faithful : BOOLEAN]
NoRecording == [number |-> 0, faithful |-> TRUE]

\* A rendition: the samples, and the recording its metadata (rate, hash) is of.
Rendition(pcm, metadata) == [pcm |-> pcm, metadata |-> metadata]
Nothing == Rendition(NoRecording, NoRecording)
Unheard == [head |-> Nothing, tail |-> Nothing]
Resting == [step |-> "none", of |-> NoRecording]

CacheInit ==
  /\ memory = [p \in Processes |-> Nothing]
  /\ work = [p \in Processes |-> Resting]
  /\ files = Nothing
  /\ heard = Unheard

-----------------------------------------------------------------------------
(* Lookup.                                                                 *)

\* Defect: the metadata is believed, whatever recording lies beside it.
ReadDiskUnhashed ==
  IF files.metadata = NoRecording \/ files.pcm = NoRecording THEN Nothing ELSE files

\* readDisk: a recording whose hash the metadata has, or nothing.
ReadDisk == IF files.pcm = files.metadata THEN files ELSE Nothing

\* get: what the process holds, or else finds on disk, and then holds.
Found(p) == IF memory[p] # Nothing THEN memory[p] ELSE ReadDisk
Held(p, rendition) == memory' = [memory EXCEPT ![p] = rendition]

-----------------------------------------------------------------------------
(* ensure: one task per process.                                           *)

At(p, step) == work[p].step = step
Step(p, step, r) == work' = [work EXCEPT ![p] = [step |-> step, of |-> r]]
Over(p) == Step(p, "none", NoRecording)

\* A worker of prewarm reaches the line and misses: the task is in flight.
Ensure(p) ==
  /\ At(p, "none") /\ Found(p) = Nothing
  /\ Step(p, "rendering", NoRecording)
  /\ UNCHANGED <<memory, files, heard>>

\* prewarm finds the line where another process left it.
Get(p) ==
  /\ Found(p) # memory[p] /\ Held(p, Found(p))
  /\ UNCHANGED <<work, files, heard>>

\* The renderer answers with a recording, which may not say the words.
Rendered(p) ==
  /\ At(p, "rendering")
  /\ \E r \in Recordings : Step(p, "verifying", r)
  /\ UNCHANGED <<memory, files, heard>>

\* The verifier transcribes the recording: it is held if the words match, and
\* the line is left to the realtime model if they do not.
Verified(p) ==
  LET r == work[p].of IN
  /\ At(p, "verifying")
  /\ IF r.faithful
     THEN Held(p, Rendition(r, r)) /\ Step(p, "writing", r)
     ELSE UNCHANGED memory /\ Over(p)
  /\ UNCHANGED <<files, heard>>

\* The renderer or the verifier cannot be reached, or answers with an error.
RenderFails(p) ==
  /\ work[p].step \in {"rendering", "verifying"} /\ Over(p)
  /\ UNCHANGED <<memory, files, heard>>

\* persist: both temporary files are written, then renamed one by one.  A
\* write that fails leaves the line in memory only.
RenamePcm(p) ==
  /\ At(p, "writing")
  /\ \/ files' = [files EXCEPT !.pcm = work[p].of] /\ Step(p, "written", work[p].of)
     \/ UNCHANGED files /\ Over(p)
  /\ UNCHANGED <<memory, heard>>

RenameMetadata(p) ==
  /\ At(p, "written")
  /\ files' = [files EXCEPT !.metadata = work[p].of] /\ Over(p)
  /\ UNCHANGED <<memory, heard>>

\* The process is killed and started again: the directory is what is left,
\* and what the server had authorized (authorizedUtterances) is forgotten.
Killed(p) ==
  /\ memory' = [memory EXCEPT ![p] = Nothing]
  /\ work' = [work EXCEPT ![p] = Resting]
  /\ heard' = IF p = Server THEN Unheard ELSE heard
  /\ UNCHANGED files

-----------------------------------------------------------------------------
(* Delivery.                                                               *)

\* deliver: the line is authorized, and its head goes out with the ACTION.
Deliver ==
  /\ Found(Server) # Nothing /\ Held(Server, Found(Server))
  /\ heard' = [head |-> Found(Server), tail |-> Nothing]
  /\ UNCHANGED <<work, files>>

\* voice-utterance-audio: the rest, of what the cache holds by then.
ServeTail ==
  /\ heard.head # Nothing /\ Found(Server) # Nothing
  /\ Held(Server, Found(Server))
  /\ heard' = [heard EXCEPT !.tail = Found(Server)]
  /\ UNCHANGED <<work, files>>

-----------------------------------------------------------------------------
TaskStep(p) == Rendered(p) \/ Verified(p) \/ RenamePcm(p) \/ RenameMetadata(p)
CacheNext == \/ \E p \in Processes : \/ Ensure(p) \/ Get(p) \/ TaskStep(p)
                                     \/ RenderFails(p) \/ Killed(p)
             \/ Deliver \/ ServeTail
CacheSpec == CacheInit /\ [][CacheNext]_cacheVars

-----------------------------------------------------------------------------
(* What is played of a line was verified to say its words, in one piece:    *)
(* the rate it is played at is its own, whichever processes wrote the       *)
(* directory at once or died between the two files.                         *)
PlayedWhole ==
  \A part \in {heard.head, heard.tail} :
    part.pcm.faithful /\ part.pcm = part.metadata

=============================================================================
