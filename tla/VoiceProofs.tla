----------------------------- MODULE VoiceProofs -----------------------------
(***************************************************************************)
(* Proofs about VoiceSession: an utterance told as completed was heard,    *)
(* unless it was asked for behind a wake of an earlier turn (mixed).       *)
(*                                                                         *)
(* It rests on counting.  What is owed of the utterance being spoken is    *)
(* what waits in the speaker and what its source has still to send, and a  *)
(* source is complete only with nothing to send (Counted).  That in turn   *)
(* rests on whose audio it is: a line that was asked for an utterance      *)
(* carries that utterance's turn (Aired), behind a wake only if it is      *)
(* mixed (Waking), and the speaker plays nothing else (Uttered).           *)
(***************************************************************************)
EXTENDS VoiceSession, SequenceTheorems, TLAPS

-----------------------------------------------------------------------------
(* The invariant, of a page w and the ids of the utterances.               *)

PageFields ==
  {"on", "starting", "ended", "v", "minting", "leaving", "retry", "rotate", "air", "utt",
   "pending", "failure", "empty", "tail", "speaker", "stuck", "posts", "ready", "finished",
   "muted", "words", "finish", "flights", "stray", "told", "owed", "wake", "mixed", "untold",
   "passed", "thrown"}

LineFields ==
  {"at", "req", "accepting", "generating", "sounded", "local", "model", "floor", "speaking",
   "barge", "deferred", "open"}

UtteranceFields == {"id", "source", "phase", "got", "complete", "playing", "reason"}

Shaped(ids, w) ==
  /\ ids \subseteq Nat \ {0}
  /\ DOMAIN w = PageFields /\ DOMAIN w.v = LineFields /\ DOMAIN w.utt = UtteranceFields
  /\ DOMAIN w.told = ids /\ w.owed \in [ids -> Int]
  /\ w.utt.id \in ids \cup {0} /\ w.utt.got \in Nat
  /\ w.speaker \in Seq(ids) /\ Len(w.air) <= 1
  /\ w.air \in Seq([of : ids, left : Nat, ends : BOOLEAN])
  /\ w.wake \in Seq([of : ids, left : Nat, ends : BOOLEAN])

\* The turn in the air is of the utterance spoken now, a model's then, or of
\* one that ended and was not completed; a line that was asked takes it.
Aired(w) ==
  w.air # <<>> =>
    LET turn == w.air[1]
    IN  /\ turn.of \in w.finished \cup {w.utt.id}
        /\ w.told[turn.of] = "COMPLETED" => turn.of \in w.mixed
        /\ turn.of = w.utt.id =>
             /\ w.utt.source = "MODEL"
             /\ w.utt.complete = FALSE \/ turn.of \in w.mixed
        /\ w.v.req # 0 => /\ turn.of = w.v.req
                          /\ w.v.accepting = TRUE \/ turn.of \in w.mixed
        /\ turn.ends = FALSE => turn.left = 0

\* Before it come only frames of utterances that ended and were not completed.
Waking(w) ==
  /\ w.wake # <<>> /\ w.v.req # 0 => w.v.req \in w.mixed
  /\ \A i \in 1..Len(w.wake) :
       /\ w.wake[i].of \in w.finished
       /\ w.told[w.wake[i].of] = "COMPLETED" => w.wake[i].of \in w.mixed

\* What was told as completed was heard.
Honest(ids, w) == \A id \in ids \ w.mixed : w.told[id] = "COMPLETED" => w.owed[id] = 0

\* The speaker plays the utterance spoken now, and only it is held for the
\* next handshake.
Uttered(w) ==
  LET u == w.utt
  IN  /\ w.v.at = "ready" => w.pending = 0
      /\ w.pending \in {0, u.id}
      /\ u.id = 0 => w.speaker = <<>> /\ w.tail = None
      /\ u.id # 0 =>
           /\ u.phase \notin Terminal /\ u.id \notin w.finished
           /\ w.told[u.id] # "COMPLETED"
           /\ \A i \in 1..Len(w.speaker) :
                /\ w.speaker[i] = u.id \/ u.id \in w.mixed
                /\ w.told[w.speaker[i]] = "COMPLETED" => w.speaker[i] \in w.mixed
           /\ w.tail # None => u.source = "CACHED" /\ u.complete = FALSE

\* What is owed waits, or is still to come.
Counted(w) ==
  LET u == w.utt
      waiting == Len(w.speaker)
  IN  u.id # 0 =>
        /\ u.playing = (w.speaker # <<>>)
        /\ w.pending # 0 =>
             /\ u.source = "MODEL" /\ u.complete = FALSE /\ waiting = 0 /\ w.owed[u.id] = 2
             /\ w.air # <<>> => w.air[1].of # u.id
        /\ u.id \notin w.mixed =>
             /\ u.complete = TRUE => w.owed[u.id] = waiting
             /\ w.tail = "asked" => w.owed[u.id] = waiting + 1
             /\ w.tail = "ending" => w.owed[u.id] = waiting
             /\ w.air # <<>> /\ w.air[1].of = u.id /\ w.v.req = u.id /\ w.air[1].ends = TRUE
                  => w.owed[u.id] = waiting + w.air[1].left

Loose(ids, w) ==
  Shaped(ids, w) /\ Aired(w) /\ Waking(w) /\ Honest(ids, w) /\ Uttered(w)
Sound(ids, w) == Loose(ids, w) /\ Counted(w)

-----------------------------------------------------------------------------
(* The line.                                                               *)

\* What most steps of a line leave alone: at most the request is given up.
SameLine(v, q) ==
  /\ DOMAIN q = LineFields /\ (q.at = "ready" => v.at = "ready")
  /\ (q.req = v.req /\ q.accepting = v.accepting) \/ q.req = 0

\* Two such steps are one.
LEMMA SameLines ==
  ASSUME NEW v, NEW q, NEW r, SameLine(v, q), SameLine(q, r)
  PROVE  SameLine(v, r)
BY DEF SameLine

\* The detector, the playback and the floor leave the request alone.
LEMMA LineSteps ==
  ASSUME NEW v, DOMAIN v = LineFields
  PROVE  /\ SameLine(v, v) /\ SameLine(v, Opened(v)) /\ SameLine(v, Released(v))
         /\ SameLine(v, Begun(v)) /\ SameLine(v, Ceased(v))
         /\ \A x \in BOOLEAN : SameLine(v, NoteLocal(v, x)) /\ SameLine(v, NoteModel(v, x))
<1>1. SameLine(v, v)
  BY DEF SameLine
<1>2. ASSUME NEW q, DOMAIN q = LineFields PROVE SameLine(q, Opened(q))
  BY <1>2 DEF SameLine, Opened, LineFields
<1>3. ASSUME NEW q, DOMAIN q = LineFields PROVE SameLine(q, Released(q))
  BY <1>3 DEF SameLine, Released, LineFields
<1>4. SameLine(v, Begun(v))
  <2>1. PICK now : now = [v EXCEPT !.speaking = TRUE, !.barge = v.floor \/ v.generating]
    OBVIOUS
  <2>2. SameLine(v, now) /\ DOMAIN now = LineFields
    BY <2>1 DEF SameLine, LineFields
  <2>3. SameLine(now, [now EXCEPT !.deferred = TRUE])
    BY <2>2 DEF SameLine, LineFields
  <2>4. Begun(v) \in {[now EXCEPT !.deferred = TRUE], Opened(now)}
    BY <2>1 DEF Begun
  <2> QED
    BY <1>2, <2>2, <2>3, <2>4, SameLines
<1>5. SameLine(v, Ceased(v))
  BY DEF SameLine, Ceased, LineFields
<1>6. ASSUME NEW x \in BOOLEAN PROVE SameLine(v, NoteLocal(v, x)) /\ SameLine(v, NoteModel(v, x))
  <2>1. PICK l : l = [v EXCEPT !.local = x, !.floor = x \/ v.model]
    OBVIOUS
  <2>2. PICK m : m = [v EXCEPT !.model = x, !.floor = x \/ v.local]
    OBVIOUS
  <2>3. SameLine(v, l) /\ SameLine(v, m) /\ DOMAIN l = LineFields /\ DOMAIN m = LineFields
    BY <2>1, <2>2 DEF SameLine, LineFields
  <2>4. NoteLocal(v, x) = Released(l) /\ NoteModel(v, x) = Released(m)
    BY <2>1, <2>2 DEF NoteLocal, NoteModel
  <2> QED
    BY <1>3, <2>3, <2>4, SameLines
<1> QED
  BY <1>1, <1>2, <1>3, <1>4, <1>5, <1>6

\* Cancelling, a confirmed interruption and a lost socket give it up.
LEMMA LineEnds ==
  ASSUME NEW v, DOMAIN v = LineFields
  PROVE  /\ SameLine(v, Invalidated(v)) /\ Invalidated(v).req = 0
         /\ SameLine(v, CancelSpeech(v)) /\ CancelSpeech(v).req = 0
         /\ SameLine(v, Confirmed(v)) /\ Confirmed(v).req = 0
         /\ SameLine(v, Lost(v)) /\ Lost(v).req = 0
<1>1. SameLine(v, Invalidated(v)) /\ Invalidated(v).req = 0 /\ DOMAIN Invalidated(v) = LineFields
  BY DEF SameLine, Invalidated, LineFields
<1>2. SameLine(v, CancelSpeech(v)) /\ CancelSpeech(v).req = 0
  <2>1. PICK q : q = [Invalidated(v) EXCEPT !.local = FALSE, !.model = FALSE, !.floor = FALSE]
    OBVIOUS
  <2>2. SameLine(v, q) /\ q.req = 0 /\ DOMAIN q = LineFields
    BY <1>1, <2>1 DEF SameLine, LineFields
  <2>3. SameLine(q, Released(q))
    BY <2>2, LineSteps
  <2>4. CancelSpeech(v) = Released(q)
    BY <2>1 DEF CancelSpeech
  <2> QED
    BY <2>2, <2>3, <2>4 DEF SameLine
<1>3. SameLine(v, Confirmed(v)) /\ Confirmed(v).req = 0
  <2>1. PICK q : q = [Invalidated(v) EXCEPT !.barge = FALSE, !.local = FALSE, !.model = FALSE,
                                            !.floor = FALSE, !.deferred = FALSE]
    OBVIOUS
  <2>2. SameLine(v, q) /\ q.req = 0 /\ DOMAIN q = LineFields
    BY <1>1, <2>1 DEF SameLine, LineFields
  <2>3. SameLine(q, Opened(q))
    BY <2>2, LineSteps
  <2>4. Confirmed(v) \in {q, Opened(q)}
    BY <2>1 DEF Confirmed
  <2> QED
    BY <2>2, <2>3, <2>4 DEF SameLine
<1>4. SameLine(v, Lost(v)) /\ Lost(v).req = 0
  BY <1>1 DEF SameLine, Lost, LineFields
<1> QED
  BY <1>1, <1>2, <1>3, <1>4

-----------------------------------------------------------------------------
(* The page.                                                               *)

\* The turn in the air, and what is left when it is taken.
LEMMA AirHead ==
  ASSUME NEW ids, NEW w, Shaped(ids, w), w.air # <<>>
  PROVE  /\ w.air[1] \in [of : ids, left : Nat, ends : BOOLEAN]
         /\ Head(w.air) = w.air[1] /\ Tail(w.air) = <<>> /\ w.air = <<w.air[1]>>
<1>1. PICK S : S = [of : ids, left : Nat, ends : BOOLEAN]
  OBVIOUS
<1>2. PICK air : air = w.air
  OBVIOUS
<1>3. air \in Seq(S) /\ air # <<>> /\ Len(air) <= 1
  BY <1>1, <1>2 DEF Shaped
<1>4. PICK n \in Nat \ {0} : n = Len(air)
  BY <1>3, EmptySeq
<1>5. n <= 1 => n = 1
  OBVIOUS
<1>6. Len(air) = 1
  BY <1>3, <1>4, <1>5
<1>7. air[1] \in S
  BY <1>3, <1>6
<1>8. Head(air) = air[1]
  BY <1>3, <1>6
<1>9. Tail(air) = <<>>
  <2>1. Tail(air) \in Seq(S) /\ Len(Tail(air)) = 0
    BY <1>3, <1>6, HeadTailProperties
  <2> QED
    BY <2>1, EmptySeq
<1>10. air = <<air[1]>>
  <2>1. air = [i \in 1..1 |-> air[i]]
    BY <1>3, <1>6, LenProperties
  <2> QED
    BY <2>1
<1> QED
  BY <1>1, <1>2, <1>7, <1>8, <1>9, <1>10

\* What most handlers leave alone: at most the request, a held utterance and
\* the turn in the air are given up.
Aside(w, q) ==
  /\ DOMAIN q = PageFields /\ SameLine(w.v, q.v)
  /\ q.utt = w.utt /\ q.tail = w.tail /\ q.speaker = w.speaker
  /\ q.finished = w.finished /\ q.told = w.told /\ q.owed = w.owed
  /\ q.air \in {w.air, <<>>} /\ q.wake \in {w.wake, <<>>} /\ q.mixed = w.mixed
  /\ q.pending \in {0, w.pending}

\* They leave the page sound.
LEMMA AsideKeeps ==
  ASSUME NEW ids, NEW w, NEW q, Aside(w, q)
  PROVE  /\ Loose(ids, w) => Loose(ids, q)
         /\ Sound(ids, w) => Sound(ids, q)
<1>1. q.v.req \in {0, w.v.req} /\ (q.v.req # 0 => q.v.accepting = w.v.accepting)
      /\ (q.v.at = "ready" => w.v.at = "ready") /\ DOMAIN q.v = LineFields
  BY DEF Aside, SameLine
<1>2. ASSUME Loose(ids, w) PROVE Loose(ids, q)
  <2>1. Shaped(ids, q)
    <3>1. PICK S : S = [of : ids, left : Nat, ends : BOOLEAN]
      OBVIOUS
    <3>2. <<>> \in Seq(S) /\ Len(<<>>) = 0
      BY EmptySeq
    <3>3. w.air \in Seq(S) /\ Len(w.air) <= 1
      BY <1>2, <3>1 DEF Loose, Shaped
    <3>4. q.air = w.air \/ q.air = <<>>
      BY DEF Aside
    <3>5. q.air \in Seq(S)
      BY <3>2, <3>3, <3>4, Zenon
    <3>7. q.wake \in Seq(S)
      <4>1. w.wake \in Seq(S) /\ (q.wake = w.wake \/ q.wake = <<>>)
        BY <1>2, <3>1 DEF Loose, Shaped, Aside
      <4> QED
        BY <3>2, <4>1, Zenon
    <3>6. Len(q.air) <= 1
      <4>1. CASE q.air = w.air
        BY <3>3, <4>1, Zenon
      <4>2. CASE q.air = <<>>
        BY <4>2
      <4> QED
        BY <3>4, <4>1, <4>2
    <3> QED
      BY <1>1, <1>2, <3>1, <3>5, <3>6, <3>7 DEF Loose, Shaped, Aside
  <2>2. Aired(q)
    BY <1>1, <1>2 DEF Loose, Aired, Aside
  <2>3. Honest(ids, q)
    BY <1>2 DEF Loose, Honest, Aside
  <2>4. Uttered(q)
    BY <1>1, <1>2 DEF Loose, Uttered, Aside
  <2>5. Waking(q)
    <3>1. q.wake = w.wake => Waking(q)
      BY <1>1, <1>2 DEF Loose, Waking, Aside
    <3>2. q.wake = <<>> => Waking(q)
      BY DEF Waking
    <3> QED
      BY <3>1, <3>2 DEF Aside
  <2> QED
    BY <2>1, <2>2, <2>3, <2>4, <2>5 DEF Loose
<1>3. ASSUME Sound(ids, w) PROVE Counted(q)
  <2>1. Counted(w) /\ Shaped(ids, w)
    BY <1>3 DEF Sound, Loose
  <2>2. w.utt.id # 0 => w.utt.id \in ids /\ w.utt.id # 0
    BY <2>1 DEF Shaped
  <2> QED
    BY <1>1, <2>1, <2>2 DEF Counted, Aside
<1> QED
  BY <1>2, <1>3 DEF Sound

\* Nothing is spoken on page q any more, nor was it completed just now.
Quiet(ids, w, q) ==
  /\ Sound(ids, q) /\ q.utt.id = 0
  /\ q.finished = w.finished \cup ({w.utt.id} \ {0})

\* An utterance that ends is told as it ended, and leaves nothing behind.
LEMMA FinishKeeps ==
  ASSUME NEW ids, NEW w, NEW u, Loose(ids, w), w.utt.id # 0,
         u.id = w.utt.id, u.phase \in Terminal,
         u.phase = "COMPLETED" => w.speaker = <<>>,
         u.phase = "COMPLETED" /\ u.id \notin w.mixed =>
           w.owed[u.id] = 0 /\ (w.air # <<>> => w.air[1].of # u.id)
  PROVE  Quiet(ids, w, Finish(w, u))
<1>1. PICK quiet : quiet = CancelSpeech(w.v)
  OBVIOUS
<1>2. SameLine(w.v, quiet) /\ quiet.req = 0
  BY <1>1, LineEnds DEF Loose, Shaped
<1>3. PICK done : done = [w EXCEPT !.utt = NoUtterance, !.v = quiet, !.empty = FALSE,
                   !.failure = None, !.tail = None,
                   !.pending = IF @ = u.id THEN 0 ELSE @,
                   !.speaker = IF u.phase = "COMPLETED" THEN @ ELSE <<>>,
                   !.finished = @ \cup {u.id},
                   !.posts = Append(@, [id |-> u.id, tries |-> 1]),
                   !.told[u.id] = u.phase]
  OBVIOUS
<1>4. Shaped(ids, w) /\ Aired(w) /\ Waking(w) /\ Honest(ids, w) /\ Uttered(w) /\ u.id \in ids /\ u.id # 0
  BY DEF Loose, Shaped
<1>5. /\ DOMAIN done = PageFields /\ done.utt = NoUtterance /\ done.v = quiet
      /\ done.tail = None /\ done.pending = 0 /\ done.speaker = <<>>
      /\ done.finished = w.finished \cup {u.id} /\ done.owed = w.owed /\ done.air = w.air /\ done.wake = w.wake /\ done.mixed = w.mixed
      /\ done.told = [w.told EXCEPT ![u.id] = u.phase]
  <2>1. w.pending \in {0, u.id} /\ DOMAIN w = PageFields
    BY <1>4 DEF Uttered, Shaped
  <2>2. (IF w.pending = u.id THEN 0 ELSE w.pending) = 0
    BY <2>1
  <2>3. (IF u.phase = "COMPLETED" THEN w.speaker ELSE <<>>) = <<>>
    OBVIOUS
  <2> QED
    BY <1>3, <2>1, <2>2, <2>3 DEF PageFields
<1>6. /\ done.utt.id = 0 /\ done.utt.got = 0 /\ DOMAIN done.utt = UtteranceFields
  BY <1>5 DEF NoUtterance, UtteranceFields
<1>7. Shaped(ids, done)
  BY <1>2, <1>4, <1>5, <1>6 DEF Shaped, SameLine
<1>8. Aired(done)
  <2> SUFFICES ASSUME w.air # <<>> PROVE Aired(done)
    BY <1>5 DEF Aired
  <2>1. w.air[1] \in [of : ids, left : Nat, ends : BOOLEAN]
    BY <1>4, AirHead
  <2>2. w.air[1].of \in done.finished /\ w.air[1].of # 0
    BY <1>4, <1>5, <2>1 DEF Aired, Shaped
  <2>3. done.told[w.air[1].of] = "COMPLETED" => w.air[1].of \in w.mixed
    BY <1>4, <1>5, <2>1 DEF Aired, Shaped, Terminal
  <2>4. w.air[1].ends = FALSE => w.air[1].left = 0
    BY <1>4 DEF Aired
  <2> QED
    BY <1>2, <1>5, <1>6, <2>2, <2>3, <2>4 DEF Aired
<1>9. Honest(ids, done) /\ Waking(done)
  <2>1. Honest(ids, done)
    BY <1>4, <1>5 DEF Honest, Shaped
  <2>2. ASSUME NEW i \in 1..Len(w.wake)
        PROVE  /\ w.wake[i].of \in done.finished
               /\ done.told[w.wake[i].of] = "COMPLETED" => w.wake[i].of \in w.mixed
    <3>1. w.wake[i].of \in w.finished
          /\ (w.told[w.wake[i].of] = "COMPLETED" => w.wake[i].of \in w.mixed)
      BY <1>4, <2>2 DEF Waking
    <3>2. w.wake[i].of # u.id
      BY <1>4, <3>1 DEF Uttered
    <3> QED
      BY <1>4, <1>5, <3>1, <3>2 DEF Shaped
  <2> QED
    BY <1>2, <1>5, <2>1, <2>2 DEF Waking
<1>10. Uttered(done) /\ Counted(done)
  BY <1>5, <1>6 DEF Uttered, Counted
<1>11. Quiet(ids, w, done)
  BY <1>5, <1>6, <1>7, <1>8, <1>9, <1>10 DEF Quiet, Sound, Loose
<1>12. ASSUME NEW q, Aside(done, q) PROVE Quiet(ids, w, q)
  BY <1>11, <1>12, AsideKeeps DEF Quiet, Aside
<1>13. Aside(done, Retry(done)) /\ Aside(done, PostReady(done))
  <2>1. SameLine(done.v, done.v)
    BY <1>7, LineSteps DEF Shaped
  <2> QED
    BY <1>5, <2>1 DEF Aside, Retry, PostReady, PageFields
<1>14. Finish(w, u) \in {done, Retry(done), PostReady(done)}
  BY <1>1, <1>3 DEF Finish
<1> QED
  BY <1>11, <1>12, <1>13, <1>14

\* A failure, an interruption or a cancellation is an ending.
LEMMA FailEnds ==
  ASSUME NEW ids, NEW w, NEW signal \in {"FAIL", "INTERRUPT", "CANCEL"}, NEW reason,
         Loose(ids, w)
  PROVE  Quiet(ids, w, Signal(w, signal, reason))
<1>1. CASE w.utt.id = 0
  BY <1>1 DEF Signal, Quiet, Sound, Counted
<1>2. CASE w.utt.id # 0
  <2>1. w.utt.phase \notin Terminal /\ DOMAIN w.utt = UtteranceFields
    BY <1>2 DEF Loose, Uttered, Shaped
  <2>2. PICK u : u = Apply(w.utt, signal, reason)
    OBVIOUS
  <2>3. \A outcome, why : /\ Finished(w.utt, outcome, why).id = w.utt.id
                          /\ Finished(w.utt, outcome, why).phase = outcome
    BY <2>1 DEF Finished, UtteranceFields
  <2>4. u.id = w.utt.id /\ u.phase \in Terminal /\ u.phase # "COMPLETED"
    <3>1. CASE signal = "FAIL"
      BY <2>1, <2>2, <2>3, <3>1 DEF Apply, Terminal
    <3>2. CASE signal = "INTERRUPT"
      BY <2>1, <2>2, <2>3, <3>2 DEF Apply, Interrupted, Terminal
    <3>3. CASE signal = "CANCEL"
      BY <2>1, <2>2, <2>3, <3>3 DEF Apply, Terminal
    <3> QED
      BY <3>1, <3>2, <3>3
  <2>5. Signal(w, signal, reason) = Finish(w, u)
    BY <1>2, <2>2, <2>4 DEF Signal
  <2> QED
    BY <1>2, <2>4, <2>5, FinishKeeps
<1> QED
  BY <1>1, <1>2

\* So is one that stops the playback at once.
LEMMA CutEnds ==
  ASSUME NEW ids, NEW w, NEW signal \in {"FAIL", "INTERRUPT", "CANCEL"}, NEW reason,
         Loose(ids, w)
  PROVE  Quiet(ids, w, Cut(w, signal, reason))
<1>1. PICK q : q = [w EXCEPT !.speaker = <<>>]
  OBVIOUS
<1>2. /\ DOMAIN q = PageFields /\ q.v = w.v /\ q.utt = w.utt /\ q.tail = w.tail
      /\ q.speaker = <<>> /\ q.finished = w.finished /\ q.told = w.told /\ q.owed = w.owed
      /\ q.air = w.air /\ q.wake = w.wake /\ q.mixed = w.mixed /\ q.pending = w.pending
  BY <1>1 DEF Loose, Shaped, PageFields
<1>3. Shaped(ids, q) /\ Honest(ids, q)
  BY <1>2 DEF Loose, Shaped, Honest
<1>4. Aired(q) /\ Waking(q) /\ Uttered(q)
  BY <1>2 DEF Loose, Aired, Waking, Uttered
<1>5. Quiet(ids, q, Signal(q, signal, reason))
  BY <1>3, <1>4, FailEnds DEF Loose
<1> QED
  BY <1>1, <1>2, <1>5 DEF Cut, Quiet

-----------------------------------------------------------------------------
(* Speaking.                                                               *)

\* A signal that ends nothing changes the utterance, and nothing else.
LEMMA SignalKeeps ==
  ASSUME NEW w, NEW signal, NEW reason, NEW u,
         DOMAIN w = PageFields, w.utt.id # 0,
         u = Apply(w.utt, signal, reason), u.phase \notin Terminal
  PROVE  Signal(w, signal, reason) = [w EXCEPT !.utt = u]
BY DEF Signal

\* A chunk of an utterance waits in the speaker, as one of the utterance spoken
\* now.
Played(w, q, of) ==
  /\ DOMAIN q = PageFields /\ DOMAIN q.v = LineFields /\ DOMAIN q.utt = UtteranceFields
  /\ q.air = w.air /\ q.wake = w.wake /\ q.mixed = w.mixed /\ q.pending = w.pending /\ q.tail = w.tail
  /\ q.finished = w.finished /\ q.told = w.told /\ q.owed = w.owed
  /\ q.v.at = "ready" => w.v.at = "ready"
  /\ (q.v.req = w.v.req /\ q.v.accepting = w.v.accepting) \/ q.v.req = 0
  /\ q.speaker = Append(w.speaker, of)
  /\ q.utt.id = w.utt.id /\ q.utt.source = w.utt.source /\ q.utt.complete = w.utt.complete
  /\ q.utt.playing = TRUE /\ q.utt.got \in Nat \ {0} /\ q.utt.phase = "PLAYING"

\* That is what Play does.
LEMMA PlayPlays ==
  ASSUME NEW ids, NEW w, Loose(ids, w), w.utt.id # 0, NEW of
  PROVE  Played(w, Play(w, of), of)
<1>1. /\ DOMAIN w = PageFields /\ DOMAIN w.v = LineFields /\ DOMAIN w.utt = UtteranceFields
      /\ w.utt.got \in Nat /\ w.utt.phase \notin Terminal
  BY DEF Loose, Shaped, Uttered
<1>2. PICK p : p = Queued(w, of)
  OBVIOUS
<1>3. /\ DOMAIN p = PageFields /\ p.v = w.v /\ p.utt = w.utt /\ p.tail = w.tail
      /\ p.air = w.air /\ p.wake = w.wake /\ p.mixed = w.mixed /\ p.pending = w.pending /\ p.finished = w.finished
      /\ p.told = w.told /\ p.owed = w.owed /\ p.speaker = Append(w.speaker, of)
  BY <1>1, <1>2 DEF Queued, PageFields
<1>4. PICK u : u = Apply(w.utt, "AUDIO_RECEIVED", None)
  OBVIOUS
<1>5. /\ DOMAIN u = UtteranceFields /\ u.id = w.utt.id /\ u.source = w.utt.source
      /\ u.complete = w.utt.complete /\ u.got = w.utt.got + 1 /\ u.phase \notin Terminal
  BY <1>1, <1>4 DEF Apply, UtteranceFields, Terminal
<1>6. PICK a : a = [p EXCEPT !.utt = u]
  OBVIOUS
<1>7. /\ DOMAIN a = PageFields /\ a.v = w.v /\ a.utt = u /\ a.tail = w.tail
      /\ a.air = w.air /\ a.wake = w.wake /\ a.mixed = w.mixed /\ a.pending = w.pending /\ a.finished = w.finished
      /\ a.told = w.told /\ a.owed = w.owed /\ a.speaker = Append(w.speaker, of)
  BY <1>3, <1>6 DEF PageFields
<1>8. a = Signal(p, "AUDIO_RECEIVED", None)
  BY <1>3, <1>4, <1>5, <1>6, SignalKeeps
<1>9. PICK s : s = Apply(u, "PLAYBACK_STARTED", None)
  OBVIOUS
<1>10. /\ DOMAIN s = UtteranceFields /\ s.id = u.id /\ s.source = u.source
       /\ s.complete = u.complete /\ s.got = u.got /\ s.phase = "PLAYING" /\ s.playing = TRUE
  BY <1>5, <1>9 DEF Apply, UtteranceFields
<1>11. PICK b : b = [a EXCEPT !.utt = s]
  OBVIOUS
<1>12. /\ DOMAIN b = PageFields /\ b.v = w.v /\ b.utt = s /\ b.tail = w.tail
       /\ b.air = w.air /\ b.wake = w.wake /\ b.mixed = w.mixed /\ b.pending = w.pending /\ b.finished = w.finished
       /\ b.told = w.told /\ b.owed = w.owed /\ b.speaker = Append(w.speaker, of)
  BY <1>7, <1>11 DEF PageFields
<1>13. b = Signal(a, "PLAYBACK_STARTED", None)
  BY <1>5, <1>7, <1>9, <1>10, <1>11, SignalKeeps DEF Terminal
<1>14. PICK v : v = IF w.utt.source = "MODEL" THEN NoteModel(b.v, TRUE) ELSE NoteLocal(b.v, TRUE)
  OBVIOUS
<1>15. SameLine(w.v, v)
  BY <1>1, <1>12, <1>14, LineSteps
<1>16. Play(w, of) = [b EXCEPT !.v = v]
  BY <1>2, <1>8, <1>13, <1>14 DEF Play
<1> QED
  BY <1>1, <1>5, <1>10, <1>12, <1>15, <1>16 DEF Played, SameLine, PageFields

\* What is played of an utterance that has not been completed.
LEMMA PlayKeeps ==
  ASSUME NEW ids, NEW w, NEW q, Loose(ids, w), w.utt.id # 0, NEW of \in ids,
         of = w.utt.id \/ w.utt.id \in w.mixed,
         w.told[of] = "COMPLETED" => of \in w.mixed, Played(w, q, of)
  PROVE  Loose(ids, q)
<1>1. Shaped(ids, q)
  <2>1. w.utt.id \in ids /\ w.speaker \in Seq(ids)
    BY DEF Loose, Shaped
  <2>2. q.speaker \in Seq(ids)
    BY <2>1 DEF Played
  <2> QED
    BY <2>2 DEF Loose, Shaped, Played
<1>2. Aired(q)
  BY DEF Loose, Aired, Played
<1>3. Honest(ids, q)
  BY DEF Loose, Honest, Played
<1>4. Uttered(q)
  <2>1. \A i \in 1..Len(q.speaker) :
          /\ q.speaker[i] = w.utt.id \/ w.utt.id \in w.mixed
          /\ w.told[q.speaker[i]] = "COMPLETED" => q.speaker[i] \in w.mixed
    <3>1. PICK s \in Seq(ids) : s = w.speaker
      BY DEF Loose, Shaped
    <3>2. \A i \in 1..Len(s) : /\ s[i] = w.utt.id \/ w.utt.id \in w.mixed
                               /\ w.told[s[i]] = "COMPLETED" => s[i] \in w.mixed
      BY <3>1 DEF Loose, Uttered
    <3>3. q.speaker = Append(s, of)
      BY <3>1 DEF Played
    <3>4. /\ Len(Append(s, of)) = Len(s) + 1 /\ Append(s, of)[Len(s) + 1] = of
          /\ \A i \in 1..Len(s) : Append(s, of)[i] = s[i]
      OBVIOUS
    <3>5. \A i \in 1..(Len(s) + 1) : i \in 1..Len(s) \/ i = Len(s) + 1
      OBVIOUS
    <3> QED
      BY <3>2, <3>3, <3>4, <3>5
  <2> QED
    BY <2>1 DEF Loose, Uttered, Played, Terminal
<1>5. Waking(q)
  BY DEF Loose, Waking, Played
<1> QED
  BY <1>1, <1>2, <1>3, <1>4, <1>5 DEF Loose

\* A source that has sent everything completes the utterance, or waits for the
\* speaker.
LEMMA SourceKeeps ==
  ASSUME NEW ids, NEW w, Loose(ids, w),
         w.utt.id # 0 =>
           /\ w.utt.playing = (w.speaker # <<>>) /\ w.tail = None /\ w.pending = 0
           /\ w.utt.id \notin w.mixed =>
                /\ w.owed[w.utt.id] = Len(w.speaker)
                /\ w.air # <<>> => w.air[1].of # w.utt.id
  PROVE  Sound(ids, Signal(w, "SOURCE_COMPLETE", None))
<1>1. CASE w.utt.id = 0
  BY <1>1 DEF Signal, Sound, Counted
<1>2. CASE w.utt.id # 0
  <2>1. /\ DOMAIN w = PageFields /\ DOMAIN w.utt = UtteranceFields
        /\ w.utt.phase \notin Terminal /\ w.utt.got \in Nat
    BY <1>2 DEF Loose, Shaped, Uttered
  <2>2. PICK u : u = Apply(w.utt, "SOURCE_COMPLETE", None)
    OBVIOUS
  <2>3. PICK d : d = [w.utt EXCEPT !.complete = TRUE]
    OBVIOUS
  <2>4. /\ DOMAIN d = UtteranceFields /\ d.id = w.utt.id /\ d.source = w.utt.source
        /\ d.complete = TRUE /\ d.got = w.utt.got /\ d.phase = w.utt.phase
        /\ d.playing = w.utt.playing
    BY <2>1, <2>3 DEF UtteranceFields
  <2>5. u \in {d, Finished(d, "FAILED", "EMPTY_RESPONSE"), Finished(d, "COMPLETED", "none")}
    BY <2>1, <2>2, <2>3 DEF Apply, SourceComplete
  <2>6. w.utt.playing = TRUE => u = d \/ u = Finished(d, "FAILED", "EMPTY_RESPONSE")
    BY <2>1, <2>2, <2>3 DEF Apply, SourceComplete
  <2>7. \A outcome, why : /\ Finished(d, outcome, why).id = w.utt.id
                          /\ Finished(d, outcome, why).phase = outcome
    BY <2>4 DEF Finished, UtteranceFields
  <2>8. CASE u \in {Finished(d, "FAILED", "EMPTY_RESPONSE"), Finished(d, "COMPLETED", "none")}
    <3>1. u.id = w.utt.id /\ u.phase \in {"FAILED", "COMPLETED"}
      BY <2>7, <2>8
    <3>2. u.phase \in Terminal /\ Signal(w, "SOURCE_COMPLETE", None) = Finish(w, u)
      BY <1>2, <2>2, <3>1 DEF Signal, Terminal
    <3>3. u.phase = "COMPLETED" => w.utt.playing # TRUE
      BY <2>1, <2>4, <2>6, <2>7 DEF Terminal
    <3>4. u.phase = "COMPLETED" => w.speaker = <<>>
      BY <1>2, <3>3
    <3>5. u.phase = "COMPLETED" /\ u.id \notin w.mixed =>
            w.owed[u.id] = 0 /\ (w.air # <<>> => w.air[1].of # u.id)
      BY <1>2, <3>1, <3>4
    <3> QED
      BY <1>2, <3>1, <3>2, <3>4, <3>5, FinishKeeps DEF Quiet
  <2>9. CASE u = d
    <3>1. PICK q : q = [w EXCEPT !.utt = u]
      OBVIOUS
    <3>2. q = Signal(w, "SOURCE_COMPLETE", None)
      BY <1>2, <2>1, <2>2, <2>4, <2>9, <3>1, SignalKeeps
    <3>3. /\ DOMAIN q = PageFields /\ q.v = w.v /\ q.utt = d /\ q.tail = w.tail
          /\ q.speaker = w.speaker /\ q.finished = w.finished /\ q.told = w.told
          /\ q.owed = w.owed /\ q.air = w.air /\ q.wake = w.wake /\ q.mixed = w.mixed /\ q.pending = w.pending
      BY <2>1, <2>9, <3>1 DEF PageFields
    <3>4. Shaped(ids, q) /\ Honest(ids, q)
      BY <2>1, <2>4, <3>3 DEF Loose, Shaped, Honest
    <3>5. Aired(q)
      BY <1>2, <2>4, <3>3 DEF Loose, Aired
    <3>6. Uttered(q) /\ Counted(q)
      BY <1>2, <2>4, <3>3 DEF Loose, Uttered, Counted, None
    <3>7. Waking(q)
      BY <3>3 DEF Loose, Waking
    <3> QED
      BY <3>2, <3>4, <3>5, <3>6, <3>7 DEF Sound, Loose
  <2> QED
    BY <2>5, <2>8, <2>9
<1> QED
  BY <1>1, <1>2

\* An utterance asked of the model, or held until it can be.
LEMMA RequestKeeps ==
  ASSUME NEW ids, NEW w, Loose(ids, w), NEW id \in ids, w.utt.id = id,
         w.utt.source = "MODEL", w.utt.complete = FALSE, w.utt.playing = FALSE,
         w.speaker = <<>>, w.owed[id] = 2, w.tail = None, w.pending = 0,
         w.air # <<>> => w.air[1].of # id
  PROVE  Sound(ids, Request(w, id))
<1>1. /\ id # 0 /\ DOMAIN w = PageFields /\ DOMAIN w.v = LineFields
      /\ DOMAIN w.utt = UtteranceFields /\ w.utt.phase \notin Terminal
  BY DEF Loose, Shaped, Uttered
<1>2. CASE w.v.at # "ready"
  <2>1. PICK q : q = [w EXCEPT !.pending = id]
    OBVIOUS
  <2>2. /\ DOMAIN q = PageFields /\ q.v = w.v /\ q.utt = w.utt /\ q.tail = w.tail
        /\ q.speaker = w.speaker /\ q.finished = w.finished /\ q.told = w.told
        /\ q.owed = w.owed /\ q.air = w.air /\ q.wake = w.wake /\ q.mixed = w.mixed /\ q.pending = id
    BY <1>1, <2>1 DEF PageFields
  <2>3. Shaped(ids, q) /\ Honest(ids, q)
    BY <2>2 DEF Loose, Shaped, Honest
  <2>4. Aired(q)
    BY <2>2 DEF Loose, Aired
  <2>5. Uttered(q)
    BY <1>1, <1>2, <2>2 DEF Loose, Uttered
  <2>6. Len(q.speaker) = 0 /\ q.speaker = <<>> /\ q.tail = "none"
    BY <2>2 DEF None
  <2>7. Counted(q) /\ Waking(q)
    BY <1>1, <2>2, <2>6 DEF Counted, Waking, Loose
  <2>8. q = Request(w, id)
    BY <1>2, <2>1 DEF Request
  <2> QED
    BY <2>3, <2>4, <2>5, <2>7, <2>8 DEF Sound, Loose
<1>3. CASE w.v.at = "ready"
  <2>1. PICK turn : turn = [of |-> id, left |-> 2, ends |-> TRUE]
    OBVIOUS
  <2>2. PICK v : v = Asked(w.v, id)
    OBVIOUS
  <2>3. DOMAIN v = LineFields /\ v.req = id /\ v.accepting = TRUE
    BY <1>1, <2>2, LineEnds DEF Asked, SameLine, LineFields
  <2>17. PICK wake : wake = IF ~left.late THEN <<>>
                           ELSE IF w.air # <<>> /\ Head(w.air).ends THEN w.wake \o w.air
                           ELSE w.wake
    OBVIOUS
  <2>18. PICK mixed : mixed = IF wake = <<>> THEN w.mixed ELSE w.mixed \cup {id}
    OBVIOUS
  <2>4. PICK p : p = [w EXCEPT !.v = v, !.air = <<turn>>, !.wake = wake, !.mixed = mixed]
    OBVIOUS
  <2>5. PICK u : u = Apply(w.utt, "REQUESTED", None)
    OBVIOUS
  <2>6. /\ DOMAIN u = UtteranceFields /\ u.id = id /\ u.source = "MODEL" /\ u.got = w.utt.got
        /\ u.complete = FALSE /\ u.playing = FALSE /\ u.phase \notin Terminal
    BY <1>1, <2>5 DEF Apply, UtteranceFields, Terminal
  <2>7. PICK q : q = [p EXCEPT !.utt = u]
    OBVIOUS
  <2>8. /\ DOMAIN p = PageFields /\ p.utt = w.utt
        /\ DOMAIN q = PageFields /\ q.v = v /\ q.utt = u /\ q.tail = w.tail
        /\ q.speaker = w.speaker /\ q.finished = w.finished /\ q.told = w.told
        /\ q.owed = w.owed /\ q.air = <<turn>> /\ q.pending = w.pending
        /\ q.wake = wake /\ q.mixed = mixed
    BY <1>1, <2>4, <2>7 DEF PageFields
  <2>9. q = Signal(p, "REQUESTED", None)
    BY <1>1, <2>5, <2>6, <2>7, <2>8, SignalKeeps
  <2>10. q = Request(w, id)
    BY <1>3, <2>1, <2>2, <2>4, <2>9, <2>17, <2>18 DEF Request, Length
  <2>11. q.air = <<turn>> /\ q.air[1] = turn /\ q.air # <<>>
    BY <2>8
  <2>19. /\ wake \in Seq([of : ids, left : Nat, ends : BOOLEAN])
         /\ \A i \in 1..Len(wake) :
              /\ wake[i].of \in w.finished
              /\ w.told[wake[i].of] = "COMPLETED" => wake[i].of \in w.mixed
    <3>1. PICK S : S = [of : ids, left : Nat, ends : BOOLEAN]
      OBVIOUS
    <3>2. w.wake \in Seq(S) /\ w.air \in Seq(S) /\ <<>> \in Seq(S) /\ Len(<<>>) = 0
      BY <3>1, EmptySeq DEF Loose, Shaped
    <3>3. \A i \in 1..Len(w.wake) :
            /\ w.wake[i].of \in w.finished
            /\ w.told[w.wake[i].of] = "COMPLETED" => w.wake[i].of \in w.mixed
      BY DEF Loose, Waking
    <3>4. CASE wake = w.wake \o w.air /\ w.air # <<>>
      <4>1. PICK t : t = w.air[1]
        OBVIOUS
      <4>2. /\ t.of \in w.finished
            /\ w.told[t.of] = "COMPLETED" => t.of \in w.mixed
        BY <3>4, <4>1 DEF Loose, Aired
      <4>3. w.air = <<t>> /\ Len(w.air) = 1
        <5>1. Shaped(ids, w) /\ w.air # <<>>
          BY <3>4 DEF Loose
        <5>2. w.air = <<t>>
          BY <4>1, <5>1, AirHead
        <5> QED
          BY <5>2
      <4>4. PICK s \in Seq(S), a \in Seq(S) : s = w.wake /\ a = w.air
        BY <3>2
      <4>5. /\ s \o a \in Seq(S) /\ Len(s \o a) = Len(s) + Len(a)
            /\ \A i \in 1 .. Len(s) + Len(a) :
                 (s \o a)[i] = IF i <= Len(s) THEN s[i] ELSE a[i - Len(s)]
        BY ConcatProperties
      <4>6. ASSUME NEW i \in 1..Len(wake)
            PROVE  wake[i] = t \/ \E k \in 1..Len(w.wake) : wake[i] = w.wake[k]
        <5>1. Len(a) = 1 /\ a[1] = t
          BY <4>3, <4>4
        <5>2. Len(s) \in Nat /\ i \in 1..(Len(s) + 1)
          BY <3>4, <4>4, <4>5, <4>6, <5>1
        <5>3. wake = s \o a /\ i \in 1 .. Len(s) + Len(a)
          BY <3>4, <4>4, <5>1, <5>2
        <5>4. CASE i <= Len(s)
          <6>1. i \in 1 .. Len(s)
            BY <5>2, <5>4
          <6>2. (s \o a)[i] = s[i]
            BY <4>5, <5>3, <5>4
          <6> QED
            BY <4>4, <5>3, <6>1, <6>2
        <5>5. CASE ~(i <= Len(s))
          <6>1. i - Len(s) = 1
            BY <5>2, <5>5
          <6>2. (s \o a)[i] = a[i - Len(s)]
            BY <4>5, <5>3, <5>5
          <6> QED
            BY <5>1, <5>3, <6>1, <6>2
        <5> QED
          BY <5>4, <5>5
      <4>7. wake \in Seq(S)
        BY <3>4, <4>4, <4>5
      <4>8. ASSUME NEW i \in 1..Len(wake)
            PROVE  /\ wake[i].of \in w.finished
                   /\ w.told[wake[i].of] = "COMPLETED" => wake[i].of \in w.mixed
        BY <3>3, <4>2, <4>6
      <4> QED
        BY <3>1, <4>7, <4>8
    <3>5. CASE wake = w.wake
      BY <3>1, <3>2, <3>3, <3>5
    <3>6. CASE wake = <<>>
      <4>1. Len(wake) = 0 /\ wake \in Seq(S)
        BY <3>2, <3>6
      <4> QED
        BY <3>1, <4>1
    <3> QED
      BY <2>17, <3>4, <3>5, <3>6
  <2>20. Waking(q)
    <3>1. q.wake # <<>> => q.v.req \in q.mixed
      BY <2>3, <2>8, <2>18
    <3>2. w.mixed \subseteq q.mixed
      BY <2>8, <2>18
    <3> QED
      BY <2>8, <2>19, <3>1, <3>2 DEF Waking
  <2>12. Shaped(ids, q)
    <3>1. PICK S : S = [of : ids, left : Nat, ends : BOOLEAN]
      OBVIOUS
    <3>2. turn \in S
      BY <2>1, <3>1
    <3>3. <<turn>> \in Seq(S) /\ Len(<<turn>>) <= 1
      BY <3>2
    <3>4. wake \in Seq(S)
      BY <2>19, <3>1
    <3> QED
      BY <2>3, <2>6, <2>8, <2>11, <3>1, <3>3, <3>4 DEF Loose, Shaped
  <2>13. Aired(q)
    BY <1>1, <2>1, <2>3, <2>6, <2>8, <2>11 DEF Aired, Loose, Uttered
  <2>14. Honest(ids, q)
    BY <2>8, <2>18 DEF Loose, Honest
  <2>15. Uttered(q)
    <3>1. Len(q.speaker) = 0
      BY <2>8
    <3> QED
      BY <1>1, <1>3, <2>6, <2>8, <3>1 DEF Loose, Uttered, None
  <2>16. Counted(q)
    <3>1. Len(q.speaker) = 0 /\ q.speaker = <<>> /\ q.tail = "none"
      BY <2>8 DEF None
    <3>2. q.pending = 0 /\ q.owed[id] = 2 /\ q.air[1].left = 2 /\ q.utt = u
      BY <2>1, <2>8, <2>11
    <3>3. q.utt.playing = (q.speaker # <<>>)
      BY <2>6, <3>1, <3>2
    <3>4. q.utt.complete = FALSE /\ q.utt.id = id /\ q.owed[q.utt.id] = 0 + q.air[1].left
      BY <2>6, <3>2
    <3> QED
      BY <3>1, <3>2, <3>3, <3>4 DEF Counted
  <2> QED
    BY <2>10, <2>12, <2>13, <2>14, <2>15, <2>16, <2>20 DEF Sound, Loose
<1> QED
  BY <1>2, <1>3

\* An utterance that is authorized takes the place of the one before.
LEMMA SpokenKeeps ==
  ASSUME NEW ids, NEW w, Sound(ids, w), NEW id \in ids, id # w.utt.id,
         id \notin w.finished, NEW kind \in Kinds
  PROVE  Sound(ids, Spoken(w, id, kind))
<1>1. PICK past : past = IF w.utt.id = 0 THEN w ELSE Cut(w, "FAIL", "SUPERSEDED")
  OBVIOUS
<1>2. Sound(ids, past) /\ past.utt.id = 0 /\ id \notin past.finished
  BY <1>1, CutEnds DEF Quiet, Sound
<1>3. PICK free : free = [past EXCEPT !.told[id] = None, !.owed[id] = Length(kind)]
  OBVIOUS
<1>4. /\ Shaped(ids, past) /\ DOMAIN past = PageFields /\ DOMAIN past.told = ids
      /\ past.owed \in [ids -> Int] /\ past.speaker = <<>> /\ past.tail = None
      /\ past.pending = 0
  BY <1>2 DEF Sound, Loose, Shaped, Uttered
<1>5. /\ DOMAIN free = PageFields /\ free.v = past.v /\ free.utt = past.utt
      /\ free.tail = None /\ free.speaker = <<>> /\ free.finished = past.finished
      /\ free.air = past.air /\ free.wake = past.wake /\ free.mixed = past.mixed /\ free.pending = 0
      /\ free.told = [past.told EXCEPT ![id] = None]
      /\ free.owed = [past.owed EXCEPT ![id] = Length(kind)]
  BY <1>3, <1>4 DEF PageFields
<1>6. Length(kind) \in Nat
  BY DEF Length
<1>7. past.air # <<>> => past.air[1].of # id /\ past.air[1].of \in ids
  <2> SUFFICES ASSUME past.air # <<>> PROVE past.air[1].of # id /\ past.air[1].of \in ids
    OBVIOUS
  <2>1. past.air[1].of \in ids /\ past.air[1].of # 0
    BY <1>4, AirHead DEF Shaped
  <2>2. past.air[1].of \in past.finished
    BY <1>2, <2>1 DEF Sound, Loose, Aired
  <2> QED
    BY <1>2, <2>1, <2>2
<1> DEFINE Opening(source) ==
             [free EXCEPT !.utt = [New(id, "CACHED") EXCEPT !.source = source]]
<1>8. ASSUME NEW source \in {"MODEL", "CACHED"}, NEW s, s = Opening(source)
      PROVE  /\ Loose(ids, s) /\ s.utt.id = id /\ s.utt.source = source
             /\ s.utt.complete = FALSE /\ s.utt.playing = FALSE /\ s.speaker = <<>>
             /\ s.owed[id] = Length(kind) /\ s.tail = None /\ s.pending = 0
             /\ s.air # <<>> => s.air[1].of # id
  <2> PICK u : u = [New(id, "CACHED") EXCEPT !.source = source]
    OBVIOUS
  <2>1. /\ DOMAIN u = UtteranceFields /\ u.id = id /\ u.source = source /\ u.got = 0
        /\ u.phase = "AUTHORIZED" /\ u.complete = FALSE /\ u.playing = FALSE
    BY DEF New, NoUtterance, UtteranceFields
  <2>2. /\ DOMAIN s = PageFields /\ s.v = past.v /\ s.utt = u
        /\ s.tail = None /\ s.speaker = <<>> /\ s.finished = past.finished
        /\ s.air = past.air /\ s.wake = past.wake /\ s.mixed = past.mixed /\ s.pending = 0
        /\ s.told = free.told /\ s.owed = free.owed
    BY <1>5, <1>8 DEF PageFields
  <2>3. /\ DOMAIN s.told = ids /\ s.owed \in [ids -> Int] /\ s.owed[id] = Length(kind)
        /\ s.told[id] = None /\ \A i \in ids \ {id} : s.told[i] = past.told[i]
        /\ \A i \in ids \ {id} : s.owed[i] = past.owed[i]
    BY <1>4, <1>5, <1>6, <2>2
  <2>4. Shaped(ids, s)
    BY <1>4, <2>1, <2>2, <2>3 DEF Shaped
  <2>5. Aired(s)
    <3>1. Aired(past)
      BY <1>2 DEF Sound, Loose
    <3> SUFFICES ASSUME past.air # <<>> PROVE Aired(s)
      BY <2>2 DEF Aired
    <3>2. PICK turn : turn = past.air[1]
      OBVIOUS
    <3>3. turn.of \in ids \ {id} /\ turn.of # 0
      BY <1>4, <1>7, <3>2 DEF Shaped
    <3>4. /\ turn.of \in past.finished
          /\ past.told[turn.of] = "COMPLETED" => turn.of \in past.mixed
      BY <1>2, <3>1, <3>2, <3>3 DEF Aired
    <3>5. s.told[turn.of] = "COMPLETED" => turn.of \in past.mixed
      BY <2>3, <3>3, <3>4
    <3> QED
      BY <2>1, <2>2, <3>1, <3>2, <3>3, <3>4, <3>5 DEF Aired
  <2>6. Honest(ids, s)
    BY <1>2, <2>2, <2>3 DEF Honest, Sound, Loose, None
  <2>7. Uttered(s)
    <3>1. Len(s.speaker) = 0
      BY <2>2
    <3> QED
      BY <1>2, <2>1, <2>2, <2>3, <3>1 DEF Uttered, None, Terminal
  <2>8. Waking(s)
    <3>1. Waking(past) /\ past.wake \in Seq([of : ids, left : Nat, ends : BOOLEAN])
      BY <1>2 DEF Sound, Loose, Shaped
    <3>2. ASSUME NEW i \in 1..Len(past.wake)
          PROVE  /\ past.wake[i].of \in past.finished
                 /\ s.told[past.wake[i].of] = "COMPLETED" => past.wake[i].of \in past.mixed
      <4>1. PICK t : t = past.wake[i]
        OBVIOUS
      <4>2. t.of \in past.finished /\ (past.told[t.of] = "COMPLETED" => t.of \in past.mixed)
        BY <3>1, <3>2, <4>1 DEF Waking
      <4>3. t \in [of : ids, left : Nat, ends : BOOLEAN]
        <5>1. PICK S : S = [of : ids, left : Nat, ends : BOOLEAN]
          OBVIOUS
        <5>2. PICK wake \in Seq(S) : wake = past.wake
          BY <3>1, <5>1
        <5>3. wake[i] \in S
          BY <3>2, <5>2
        <5> QED
          BY <4>1, <5>1, <5>2, <5>3
      <4>4. t.of \in ids \ {id}
        BY <1>2, <4>2, <4>3
      <4> QED
        BY <2>3, <4>1, <4>2, <4>4
    <3> QED
      BY <2>2, <3>1, <3>2 DEF Waking
  <2> QED
    BY <1>7, <2>1, <2>2, <2>3, <2>4, <2>5, <2>6, <2>7, <2>8 DEF Loose
<1>9. id \in Nat \ {0}
  BY <1>4 DEF Shaped
<1>10. CASE kind = "MODEL"
  <2>1. PICK s : s = Opening("MODEL")
    OBVIOUS
  <2>2. [New(id, "CACHED") EXCEPT !.source = "MODEL"] = New(id, "MODEL")
    BY DEF New, NoUtterance
  <2>3. s = [free EXCEPT !.utt = New(id, "MODEL")]
    BY <2>1, <2>2
  <2>4. Spoken(w, id, kind) = Request(s, id)
    BY <1>1, <1>3, <1>10, <2>3 DEF Spoken
  <2>5. Length(kind) = 2
    BY <1>10 DEF Length
  <2>6. /\ Loose(ids, s) /\ s.utt.id = id /\ s.utt.source = "MODEL"
        /\ s.utt.complete = FALSE /\ s.utt.playing = FALSE /\ s.speaker = <<>>
        /\ s.owed[id] = 2 /\ s.tail = None /\ s.pending = 0
        /\ s.air # <<>> => s.air[1].of # id
    BY <1>8, <2>1, <2>5
  <2> QED
    BY <2>4, <2>6, RequestKeeps
<1>11. CASE kind = "BAD"
  <2>1. PICK s : s = Opening("MODEL")
    OBVIOUS
  <2>2. [New(id, "CACHED") EXCEPT !.source = "MODEL"] = SwitchSource(New(id, "CACHED"), "MODEL")
    BY DEF New, NoUtterance, SwitchSource, Terminal
  <2>3. s = [free EXCEPT !.utt = SwitchSource(New(id, "CACHED"), "MODEL")]
    BY <2>1, <2>2
  <2>4. Spoken(w, id, kind) = Request(s, id)
    BY <1>1, <1>3, <1>11, <2>3 DEF Spoken
  <2>5. Length(kind) = 2
    BY <1>11 DEF Length
  <2>6. /\ Loose(ids, s) /\ s.utt.id = id /\ s.utt.source = "MODEL"
        /\ s.utt.complete = FALSE /\ s.utt.playing = FALSE /\ s.speaker = <<>>
        /\ s.owed[id] = 2 /\ s.tail = None /\ s.pending = 0
        /\ s.air # <<>> => s.air[1].of # id
    BY <1>8, <2>1, <2>5
  <2> QED
    BY <2>4, <2>6, RequestKeeps
<1>12. New(id, "CACHED") = [New(id, "CACHED") EXCEPT !.source = "CACHED"]
  BY DEF New, NoUtterance
<1>13. PICK s : s = Opening("CACHED")
  OBVIOUS
<1>14. s = [free EXCEPT !.utt = New(id, "CACHED")]
  BY <1>12, <1>13
<1>15. PICK head : head = Play(s, id)
  OBVIOUS
<1>16. /\ Loose(ids, s) /\ s.utt.id = id /\ s.utt.source = "CACHED"
       /\ s.utt.complete = FALSE /\ s.speaker = <<>> /\ s.owed[id] = Length(kind)
       /\ s.tail = None /\ s.pending = 0 /\ (s.air # <<>> => s.air[1].of # id)
  BY <1>8, <1>13
<1>21. s.told[id] = "COMPLETED" => id \in s.mixed
  BY <1>9, <1>16 DEF Loose, Uttered
<1>17. Played(s, head, id) /\ Loose(ids, head)
  BY <1>9, <1>15, <1>16, <1>21, PlayPlays, PlayKeeps
<1>18. /\ head.speaker # <<>> /\ Len(head.speaker) = 1
       /\ DOMAIN head = PageFields /\ head.utt.id = id /\ head.utt.playing = TRUE
       /\ head.utt.complete = FALSE /\ head.utt.source = "CACHED"
       /\ head.owed[id] = Length(kind) /\ head.tail = None /\ head.pending = 0
       /\ head.air # <<>> => head.air[1].of # id
  BY <1>16, <1>17 DEF Played
<1>19. CASE kind = "HEAD"
  <2>1. Spoken(w, id, kind) = Signal(head, "SOURCE_COMPLETE", None)
    BY <1>1, <1>3, <1>14, <1>15, <1>19 DEF Spoken
  <2>2. Length(kind) = 1
    BY <1>19 DEF Length
  <2> QED
    BY <1>17, <1>18, <2>1, <2>2, SourceKeeps
<1>20. CASE kind = "TAIL"
  <2>1. PICK q : q = [head EXCEPT !.tail = "asked"]
    OBVIOUS
  <2>2. Spoken(w, id, kind) = q
    BY <1>1, <1>3, <1>14, <1>15, <1>20, <2>1 DEF Spoken
  <2>3. Length(kind) = 2
    BY <1>20 DEF Length
  <2>4. /\ DOMAIN q = PageFields /\ q.v = head.v /\ q.utt = head.utt /\ q.tail = "asked"
        /\ q.speaker = head.speaker /\ q.finished = head.finished /\ q.told = head.told
        /\ q.owed = head.owed /\ q.air = head.air /\ q.wake = head.wake /\ q.mixed = head.mixed /\ q.pending = head.pending
    BY <1>18, <2>1 DEF PageFields
  <2>5. Shaped(ids, q) /\ Honest(ids, q)
    BY <1>17, <2>4 DEF Loose, Shaped, Honest
  <2>6. Aired(q)
    BY <1>17, <2>4 DEF Loose, Aired
  <2>7. Uttered(q) /\ Waking(q)
    BY <1>9, <1>17, <1>18, <2>4 DEF Loose, Uttered, Waking
  <2>8. Counted(q)
    <3>1. /\ Len(q.speaker) = 1 /\ q.speaker # <<>> /\ q.pending = 0 /\ q.owed[id] = 2
          /\ q.utt.id = id /\ q.utt.complete = FALSE /\ q.utt.playing = TRUE
          /\ q.tail = "asked" /\ (q.air # <<>> => q.air[1].of # id)
      BY <1>18, <2>3, <2>4
    <3>2. q.utt.playing = (q.speaker # <<>>)
      BY <3>1
    <3> QED
      BY <3>1, <3>2 DEF Counted
  <2> QED
    BY <2>2, <2>5, <2>6, <2>7, <2>8 DEF Sound, Loose
<1> QED
  BY <1>10, <1>11, <1>19, <1>20 DEF Kinds

-----------------------------------------------------------------------------
(* Handlers that end at most one utterance.                                *)

\* A reconnection is put off, or the model's utterance fails first.
LEMMA ScheduleKeeps ==
  ASSUME NEW ids, NEW w, NEW reason, Sound(ids, w)
  PROVE  Sound(ids, ScheduleReconnect(w, reason))
<1>1. ASSUME NEW q, Sound(ids, q) PROVE Sound(ids, Retry(q))
  <2>1. DOMAIN q = PageFields /\ DOMAIN q.v = LineFields
    BY <1>1 DEF Sound, Loose, Shaped
  <2>2. SameLine(q.v, q.v)
    BY <2>1, LineSteps
  <2>3. Aside(q, Retry(q))
    BY <2>1, <2>2 DEF Aside, Retry, PageFields
  <2> QED
    BY <1>1, <2>3, AsideKeeps
<1>2. Sound(ids, Cut(w, "FAIL", reason))
  BY CutEnds DEF Sound, Quiet
<1> QED
  BY <1>1, <1>2 DEF ScheduleReconnect

\* So does a connection that is lost.
LEMMA DisconnectedKeeps ==
  ASSUME NEW ids, NEW w, Sound(ids, w)
  PROVE  Sound(ids, Disconnected(w))
<1>1. PICK q : q = Flush(w, Flushed(w.words))
  OBVIOUS
<1>2. DOMAIN w = PageFields /\ SameLine(w.v, w.v)
  BY LineSteps DEF Sound, Loose, Shaped
<1>3. Aside(w, q)
  BY <1>1, <1>2 DEF Aside, Flush, PageFields
<1> QED
  BY <1>1, <1>3, AsideKeeps, ScheduleKeeps DEF Disconnected

\* The close of the candidate's turn, and a line that takes another's place,
\* leave the utterance alone.
LEMMA LineAside ==
  ASSUME NEW ids, NEW w, Sound(ids, w)
  PROVE  Aside(w, TurnClosed(w)) /\ Aside(w, Replaced(w))
<1>1. DOMAIN w = PageFields /\ DOMAIN w.v = LineFields
  BY DEF Sound, Loose, Shaped
<1>2. PICK old : old = TurnClosed(w)
  OBVIOUS
<1>3. SameLine(w.v, w.v) /\ SameLine(w.v, Ceased(w.v))
  BY <1>1, LineSteps
<1>4. Aside(w, old)
  BY <1>1, <1>2, <1>3 DEF Aside, TurnClosed, PageFields
<1>5. PICK line : line = [NoLine EXCEPT !.at = "dialing"]
  OBVIOUS
<1>6. DOMAIN line = LineFields /\ line.at = "dialing" /\ line.req = 0
  BY <1>5 DEF NoLine, LineFields
<1>7. PICK v : v = IF w.utt.id # 0 /\ w.utt.source = "CACHED" THEN NoteLocal(line, TRUE)
                   ELSE line
  OBVIOUS
<1>8. SameLine(line, line) /\ SameLine(line, NoteLocal(line, TRUE))
  BY <1>6, LineSteps
<1>9. SameLine(w.v, line)
  BY <1>6 DEF SameLine
<1>10. SameLine(w.v, v)
  BY <1>7, <1>8, <1>9, SameLines
<1>11. Replaced(w) = [old EXCEPT !.starting = FALSE, !.air = <<>>, !.wake = <<>>,
                        !.leaving = IF w.v.at \in {"dialing", "ready"} THEN @ + 1 ELSE @,
                        !.v = v]
  BY <1>2, <1>5, <1>7 DEF Replaced
<1>12. Aside(w, Replaced(w))
  BY <1>4, <1>10, <1>11 DEF Aside, PageFields
<1> QED
  BY <1>2, <1>4, <1>12

\* A page with no voice on it remembers what was told and what is owed.
LEMMA FreshKeeps ==
  ASSUME NEW ids, NEW w, NEW stray, Loose(ids, w)
  PROVE  Sound(ids, Fresh(w, stray))
<1>1. PICK q : q = Fresh(w, stray)
  OBVIOUS
<1>2. PICK off : off = Silence
  OBVIOUS
<1>3. /\ DOMAIN off = PageFields /\ off.v = NoLine /\ off.utt = NoUtterance
      /\ off.tail = None /\ off.speaker = <<>> /\ off.air = <<>> /\ off.pending = 0
      /\ off.finished = {} /\ off.wake = <<>>
  BY <1>2 DEF Silence, PageFields
<1>4. PICK flights, strays, thrown :
        q = [off EXCEPT !.flights = flights, !.stray = strays, !.ended = w.ended,
                        !.told = w.told, !.owed = w.owed, !.mixed = w.mixed,
                        !.untold = w.untold, !.passed = w.passed, !.thrown = thrown]
  BY <1>1, <1>2 DEF Fresh
<1>5. /\ DOMAIN q = PageFields /\ q.v = NoLine /\ q.utt = NoUtterance /\ q.tail = None
      /\ q.speaker = <<>> /\ q.air = <<>> /\ q.pending = 0 /\ q.finished = {}
      /\ q.told = w.told /\ q.owed = w.owed /\ q.wake = <<>> /\ q.mixed = w.mixed
  BY <1>3, <1>4 DEF PageFields
<1>6. /\ q.utt.id = 0 /\ q.utt.got = 0 /\ DOMAIN q.utt = UtteranceFields
      /\ DOMAIN q.v = LineFields
  BY <1>5 DEF NoUtterance, UtteranceFields, NoLine, LineFields
<1>7. Shaped(ids, q)
  <2>1. q.speaker \in Seq(ids) /\ Len(q.air) <= 1
    BY <1>5
  <2>2. PICK S : S = [of : ids, left : Nat, ends : BOOLEAN]
    OBVIOUS
  <2>3. q.air \in Seq(S) /\ q.wake \in Seq(S)
    BY <1>5
  <2> QED
    BY <1>5, <1>6, <2>1, <2>2, <2>3 DEF Loose, Shaped
<1>8. Aired(q) /\ Honest(ids, q) /\ Uttered(q) /\ Counted(q) /\ Waking(q)
  <2>1. Len(q.wake) = 0
    BY <1>5
  <2> QED
    BY <1>5, <1>6, <2>1 DEF Loose, Aired, Honest, Uttered, Counted, Waking
<1> QED
  BY <1>1, <1>7, <1>8 DEF Sound, Loose

\* Voice that is stopped cancels what it was saying.
LEMMA ShutdownKeeps ==
  ASSUME NEW ids, NEW w, Sound(ids, w)
  PROVE  Sound(ids, Shutdown(w))
<1>1. PICK q : q = [w EXCEPT !.on = FALSE]
  OBVIOUS
<1>2. DOMAIN w = PageFields /\ SameLine(w.v, w.v)
  BY LineSteps DEF Sound, Loose, Shaped
<1>3. Aside(w, q)
  BY <1>1, <1>2 DEF Aside, PageFields
<1>4. Loose(ids, q)
  BY <1>3, AsideKeeps DEF Sound
<1>5. PICK off : off = Cut(q, "CANCEL", "SESSION_STOPPED")
  OBVIOUS
<1>6. Loose(ids, off)
  BY <1>4, <1>5, CutEnds DEF Quiet, Sound
<1>7. Sound(ids, Fresh(off, {off.posts[i] : i \in 1 .. Len(off.posts)}))
  BY <1>6, FreshKeeps
<1> QED
  BY <1>1, <1>5, <1>7 DEF Shutdown

-----------------------------------------------------------------------------
(* The steps.                                                              *)

\* Reports, deliveries, timers and the candidate's side leave the utterance
\* alone.
AsideSteps ==
  \/ ReportArrives \/ ReportFails \/ StrayArrives \/ StrayFails \/ ReadyPost
  \/ ReadyArrives \/ ReadyFails
  \/ Freeze \/ Thaw \/ StartTalking \/ StopTalking \/ Mute \/ TranscriptArrives \/ WordsSettle
  \/ FinishInput \/ Start \/ GoAway \/ Reconnect \/ Minted

\* They leave the page sound.
LEMMA AsideStep ==
  ASSUME NEW ids, Sound(ids, page), AsideSteps
  PROVE  Sound(ids, page')
<1>1. DOMAIN page = PageFields /\ DOMAIN page.v = LineFields
  BY DEF Sound, Loose, Shaped
<1>2. SameLine(page.v, page.v) /\ SameLine(page.v, Begun(page.v))
  BY <1>1, LineSteps
<1>3. Aside(page, TurnClosed(page)) /\ Aside(page, Replaced(page))
  BY LineAside
<1>4. SUFFICES Aside(page, page')
  BY <1>4, AsideKeeps
<1>5. CASE ReportArrives
  BY <1>1, <1>2, <1>5 DEF ReportArrives, Settled, Aside, PageFields
<1>6. CASE ReportFails
  BY <1>1, <1>2, <1>6 DEF ReportFails, Settled, Aside, PageFields
<1>7. CASE StrayArrives
  BY <1>1, <1>2, <1>7 DEF StrayArrives, Aside, PageFields
<1>23. CASE StrayFails
  BY <1>1, <1>2, <1>23 DEF StrayFails, Aside, PageFields
<1>8. CASE ReadyPost
  BY <1>1, <1>2, <1>8 DEF ReadyPost, Aside, PageFields
<1>9. CASE ReadyArrives
  BY <1>1, <1>2, <1>9 DEF ReadyArrives, Aside, PageFields
<1>10. CASE ReadyFails
  BY <1>1, <1>2, <1>10 DEF ReadyFails, Aside, PageFields
<1>11. CASE Freeze
  BY <1>1, <1>2, <1>11 DEF Freeze, Aside, PageFields
<1>12. CASE Thaw
  BY <1>1, <1>2, <1>12 DEF Thaw, Aside, PageFields
<1>13. CASE StartTalking
  BY <1>1, <1>2, <1>13 DEF StartTalking, Aside, PageFields
<1>14. CASE StopTalking
  BY <1>3, <1>14 DEF StopTalking
<1>15. CASE Mute
  BY <1>1, <1>2, <1>3, <1>15 DEF Mute, Aside, PageFields
<1>16. CASE TranscriptArrives
  BY <1>1, <1>2, <1>16 DEF TranscriptArrives, Aside, PageFields
<1>17. CASE WordsSettle
  BY <1>1, <1>2, <1>17 DEF WordsSettle, Flush, Aside, PageFields
<1>18. CASE FinishInput
  BY <1>1, <1>2, <1>3, <1>18 DEF FinishInput, Aside, PageFields
<1>19. CASE Start
  BY <1>1, <1>2, <1>19 DEF Start, Aside, PageFields
<1>20. CASE GoAway
  BY <1>1, <1>2, <1>20 DEF GoAway, Aside, PageFields
<1>21. CASE Reconnect
  BY <1>1, <1>2, <1>21 DEF Reconnect, Aside, PageFields
<1>22. CASE Minted
  BY <1>3, <1>22 DEF Minted, Aside, PageFields
<1> QED
  BY <1>5, <1>6, <1>7, <1>8, <1>9, <1>10, <1>11, <1>12, <1>13, <1>14, <1>15, <1>16, <1>17,
     <1>18, <1>19, <1>20, <1>21, <1>22, <1>23 DEF AsideSteps

\* Deadlines, the candidate, the end of the session and the connection end at
\* most one utterance.
EndSteps ==
  \/ Expire \/ ConfirmBargeIn \/ Leave \/ Stop \/ Reload \/ MintFails \/ Drop
  \/ OldSocketCloses \/ ErrorFrame \/ Rotate \/ Interrupt

\* They leave it sound too.
LEMMA EndStep ==
  ASSUME NEW ids, Sound(ids, page), EndSteps
  PROVE  Sound(ids, page')
<1>1. DOMAIN page = PageFields /\ DOMAIN page.v = LineFields /\ Loose(ids, page)
  BY DEF Sound, Loose, Shaped
<1>2. /\ SameLine(page.v, page.v) /\ SameLine(page.v, Confirmed(page.v))
      /\ SameLine(page.v, Lost(page.v))
  BY <1>1, LineSteps, LineEnds
<1>3. ASSUME NEW q, Aside(page, q) PROVE Sound(ids, q) /\ Loose(ids, q)
  BY <1>3, AsideKeeps DEF Sound
<1>4. ASSUME NEW q, Loose(ids, q), NEW signal \in {"FAIL", "INTERRUPT", "CANCEL"}, NEW reason
      PROVE  Sound(ids, Cut(q, signal, reason))
  BY <1>4, CutEnds DEF Quiet
<1>5. CASE Expire
  BY <1>1, <1>4, <1>5 DEF Expire
<1>6. CASE ConfirmBargeIn
  <2>1. Aside(page, [page EXCEPT !.v = Confirmed(@)])
    BY <1>1, <1>2 DEF Aside, PageFields
  <2> QED
    BY <1>3, <1>4, <1>6, <2>1 DEF ConfirmBargeIn
<1>7. CASE Leave
  <2>1. PICK q : q = Shutdown(page)
    OBVIOUS
  <2>2. Sound(ids, q)
    BY <2>1, ShutdownKeeps
  <2>3. DOMAIN q = PageFields /\ SameLine(q.v, q.v)
    BY <2>2, LineSteps DEF Sound, Loose, Shaped
  <2>4. Aside(q, [q EXCEPT !.ended = TRUE])
    BY <2>3 DEF Aside, PageFields
  <2> QED
    BY <1>7, <2>1, <2>2, <2>4, AsideKeeps DEF Leave
<1>8. CASE Stop
  BY <1>8, ShutdownKeeps DEF Stop
<1>9. CASE Reload
  BY <1>1, <1>9, FreshKeeps DEF Reload
<1>10. CASE MintFails
  <2>1. Aside(page, [page EXCEPT !.minting = @ - 1])
    BY <1>1, <1>2 DEF Aside, PageFields
  <2> QED
    BY <1>3, <1>10, <2>1, ShutdownKeeps, ScheduleKeeps DEF MintFails
<1>11. CASE Drop
  <2>1. Aside(page, [page EXCEPT !.v = Lost(@), !.air = <<>>, !.wake = <<>>])
    BY <1>1, <1>2 DEF Aside, PageFields
  <2> QED
    BY <1>3, <1>11, <2>1, DisconnectedKeeps DEF Drop
<1>12. CASE OldSocketCloses
  <2>1. Aside(page, [page EXCEPT !.leaving = @ - 1])
    BY <1>1, <1>2 DEF Aside, PageFields
  <2> QED
    BY <1>3, <1>12, <2>1, DisconnectedKeeps DEF OldSocketCloses
<1>13. CASE ErrorFrame
  BY <1>13, ScheduleKeeps DEF ErrorFrame
<1>14. CASE Rotate
  <2>1. PICK w : w = [page EXCEPT !.rotate = FALSE]
    OBVIOUS
  <2>2. Aside(page, w)
    BY <1>1, <1>2, <2>1 DEF Aside, PageFields
  <2>3. PICK q : q = IF w.utt.id # 0 /\ w.utt.source = "MODEL"
                     THEN Cut(w, "FAIL", "PROVIDER_GOAWAY") ELSE w
    OBVIOUS
  <2>4. Sound(ids, q)
    BY <1>3, <1>4, <2>2, <2>3
  <2>5. DOMAIN q = PageFields /\ SameLine(q.v, q.v)
    BY <2>4, LineSteps DEF Sound, Loose, Shaped
  <2>6. page' = [q EXCEPT !.minting = @ + 1]
    BY <1>14, <2>1, <2>3 DEF Rotate
  <2>7. Aside(q, page')
    BY <2>5, <2>6 DEF Aside, PageFields
  <2> QED
    BY <2>4, <2>7, AsideKeeps
<1>15. CASE Interrupt
  <2>2. PICK w : w = [page EXCEPT !.air = <<>>]
    OBVIOUS
  <2>3. Aside(page, w)
    BY <1>1, <1>2, <2>2 DEF Aside, PageFields
  <2>4. PICK v : v = [Invalidated(page.v) EXCEPT !.floor = FALSE]
    OBVIOUS
  <2>5. SameLine(page.v, v)
    BY <1>1, <2>4, LineEnds DEF SameLine, LineFields
  <2>6. PICK q : q = [w EXCEPT !.v = v]
    OBVIOUS
  <2>7. Aside(page, q)
    BY <1>1, <2>2, <2>5, <2>6 DEF Aside, PageFields
  <2>8. page' \in {w, Cut(q, "INTERRUPT", None)}
    BY <1>1, <1>15, <2>2, <2>4, <2>6 DEF Interrupt, PageFields
  <2> QED
    BY <1>3, <1>4, <2>3, <2>7, <2>8
<1> QED
  BY <1>5, <1>6, <1>7, <1>8, <1>9, <1>10, <1>11, <1>12, <1>13, <1>14, <1>15 DEF EndSteps

\* A frame of the provider's turn, or its end.
LEMMA FrameStep ==
  ASSUME NEW ids, Sound(ids, page), FrameArrives
  PROVE  Sound(ids, page')
<1> DEFINE turn == page.air[1]
           u    == page.utt
           mine == u.id # 0 /\ u.source = "MODEL" /\ u.id = page.v.req
<1>1. /\ Shaped(ids, page) /\ Aired(page) /\ Waking(page) /\ Honest(ids, page)
      /\ Uttered(page) /\ Counted(page) /\ Loose(ids, page)
  BY DEF Sound, Loose
<1>2. /\ page.v.at = "ready" /\ page.air # <<>> /\ Head(page.air) = turn
      /\ Tail(page.air) = <<>> /\ turn \in [of : ids, left : Nat, ends : BOOLEAN]
  BY <1>1, AirHead DEF FrameArrives, Framed
<1>3. /\ DOMAIN page = PageFields /\ DOMAIN page.v = LineFields /\ page.pending = 0
      /\ turn.of \in ids /\ turn.of # 0 /\ turn.left \in Nat /\ page.owed \in [ids -> Int]
  BY <1>1, <1>2 DEF Shaped, Uttered
<1>4. mine => /\ turn.of = u.id /\ page.tail = None /\ u.playing = (page.speaker # <<>>)
              /\ u.id \notin page.mixed =>
                   /\ page.v.accepting = TRUE /\ u.complete = FALSE
                   /\ turn.ends = TRUE => page.owed[u.id] = Len(page.speaker) + turn.left
  BY <1>1, <1>2, <1>3 DEF Aired, Uttered, Counted
<1>5. ~mine => ~(turn.of = u.id /\ page.v.req = u.id)
  BY <1>1, <1>2, <1>3 DEF Aired
<1>6. CASE turn.left > 0 /\ page' = IF ~page.v.accepting THEN [page EXCEPT !.air[1].left = @ - 1]
             ELSE IF mine THEN Play([[page EXCEPT !.air[1].left = @ - 1]
                                        EXCEPT !.v.floor = TRUE, !.v.sounded = TRUE], turn.of)
             ELSE [[page EXCEPT !.air[1].left = @ - 1]
                     EXCEPT !.v.floor = TRUE, !.v.sounded = TRUE]
  <2>1. PICK rest : rest = [page EXCEPT !.air[1].left = @ - 1]
    OBVIOUS
  <2>2. PICK loud : loud = [rest EXCEPT !.v.floor = TRUE, !.v.sounded = TRUE]
    OBVIOUS
  <2>3. PICK next : next = [turn EXCEPT !.left = @ - 1]
    OBVIOUS
  <2>4. /\ next \in [of : ids, left : Nat, ends : BOOLEAN] /\ next.of = turn.of
        /\ next.left = turn.left - 1 /\ next.ends = turn.ends /\ next.ends = TRUE
    <3>1. turn.ends = TRUE
      BY <1>1, <1>2, <1>6 DEF Aired
    <3> QED
      BY <1>2, <1>3, <1>6, <2>3, <3>1
  <2>5. [page.air EXCEPT ![1].left = @ - 1] = <<next>>
    <3>1. page.air = <<turn>>
      BY <1>1, <1>2, AirHead
    <3> QED
      BY <2>3, <3>1
  <2>6. /\ DOMAIN rest = PageFields /\ rest.v = page.v /\ rest.utt = page.utt
        /\ rest.tail = page.tail /\ rest.speaker = page.speaker
        /\ rest.finished = page.finished /\ rest.told = page.told /\ rest.owed = page.owed
        /\ rest.air = <<next>> /\ rest.pending = 0
        /\ rest.wake = page.wake /\ rest.mixed = page.mixed
        /\ page.wake = <<>> /\ Len(page.wake) = 0
    BY <1>3, <2>1, <2>5 DEF PageFields, FrameArrives
  <2>7. rest.air # <<>> /\ rest.air[1] = next /\ Len(rest.air) = 1
    BY <2>6
  <2>8. Shaped(ids, rest)
    <3>1. PICK S : S = [of : ids, left : Nat, ends : BOOLEAN]
      OBVIOUS
    <3>2. rest.air \in Seq(S)
      BY <2>4, <2>6, <3>1
    <3> QED
      BY <1>1, <2>6, <2>7, <3>1, <3>2 DEF Shaped
  <2>9. Aired(rest) /\ Waking(rest) /\ Honest(ids, rest) /\ Uttered(rest)
    BY <1>1, <1>2, <1>3, <2>4, <2>6, <2>7 DEF Aired, Waking, Honest, Uttered
  <2>10. ~mine \/ u.id \in page.mixed => Counted(rest)
    BY <1>1, <1>3, <1>5, <2>4, <2>6, <2>7 DEF Counted
  <2>11. /\ DOMAIN loud = PageFields /\ loud.v = [page.v EXCEPT !.floor = TRUE, !.sounded = TRUE]
         /\ loud.utt = u /\ loud.tail = page.tail /\ loud.speaker = page.speaker
         /\ loud.finished = page.finished /\ loud.told = page.told
         /\ loud.owed = page.owed /\ loud.air = <<next>> /\ loud.pending = 0
         /\ loud.wake = page.wake /\ loud.mixed = page.mixed
    BY <2>2, <2>6 DEF PageFields
  <2>12. Aside(rest, loud)
    <3>1. SameLine(rest.v, loud.v)
      BY <1>3, <2>6, <2>11 DEF SameLine, LineFields
    <3> QED
      BY <2>6, <2>11, <3>1 DEF Aside
  <2>13. Loose(ids, rest) /\ Loose(ids, loud)
    BY <2>8, <2>9, <2>12, AsideKeeps DEF Loose
  <2>14. CASE ~mine
    <3>1. Sound(ids, rest)
      BY <2>10, <2>13, <2>14 DEF Sound
    <3>2. Sound(ids, loud)
      BY <2>12, <3>1, AsideKeeps
    <3> QED
      BY <1>6, <2>1, <2>2, <2>14, <3>1, <3>2
  <2>16. CASE mine /\ ~page.v.accepting
    <3>1. u.id \in page.mixed
      BY <1>4, <2>16
    <3>2. Sound(ids, rest)
      BY <2>10, <2>13, <3>1 DEF Sound
    <3> QED
      BY <1>6, <2>1, <2>16, <3>2
  <2>15. CASE mine /\ page.v.accepting
    <3>1. PICK q : q = Play(loud, u.id)
      OBVIOUS
    <3>2. /\ loud.utt = u /\ loud.air = <<next>> /\ loud.speaker = page.speaker
          /\ loud.owed = page.owed /\ loud.tail = None /\ loud.pending = 0
      BY <1>4, <2>15, <2>11
    <3>9. loud.told[u.id] = "COMPLETED" => u.id \in loud.mixed
      BY <1>1, <2>11, <2>15 DEF Uttered
    <3>3. Played(loud, q, u.id) /\ Loose(ids, q)
      BY <1>3, <1>4, <2>13, <2>15, <3>1, <3>2, <3>9, PlayPlays, PlayKeeps
    <3>4. q = page'
      BY <1>4, <1>6, <2>1, <2>2, <2>15, <3>1
    <3>5. /\ q.utt.id = u.id /\ q.utt.complete = u.complete /\ q.utt.playing = TRUE
          /\ q.speaker # <<>> /\ Len(q.speaker) = Len(page.speaker) + 1
          /\ q.tail = "none" /\ q.pending = 0 /\ q.air[1] = next /\ q.owed = page.owed
          /\ q.mixed = page.mixed
      <4>1. PICK s \in Seq(ids) : s = page.speaker
        BY <1>1 DEF Shaped
      <4>2. q.speaker = Append(s, u.id)
        BY <3>2, <3>3, <4>1 DEF Played
      <4>3. PICK id \in ids : id = u.id
        BY <1>3, <1>4, <2>15
      <4>4. Len(Append(s, id)) = Len(s) + 1 /\ Append(s, id) # <<>>
        BY <4>1, <4>3, AppendProperties
      <4>5. Len(q.speaker) = Len(page.speaker) + 1 /\ q.speaker # <<>>
        BY <4>1, <4>2, <4>3, <4>4
      <4> QED
        BY <1>4, <2>7, <2>11, <2>15, <3>2, <3>3, <4>5 DEF Played, None
    <3>6. u.id \notin page.mixed => q.owed[u.id] = Len(q.speaker) + q.air[1].left
      <4> SUFFICES ASSUME u.id \notin page.mixed
                   PROVE  q.owed[u.id] = Len(q.speaker) + q.air[1].left
        OBVIOUS
      <4>1. page.owed[u.id] = Len(page.speaker) + turn.left
        BY <1>4, <2>4, <2>15
      <4>2. Len(page.speaker) \in Nat
        BY <1>1 DEF Shaped
      <4>3. PICK n \in Nat, m \in Nat : n = Len(page.speaker) /\ m = turn.left
        BY <1>3, <4>2
      <4>4. q.owed[u.id] = n + m /\ Len(q.speaker) = n + 1 /\ q.air[1].left = m - 1
        BY <2>4, <3>5, <4>1, <4>3
      <4>5. n + m = (n + 1) + (m - 1)
        OBVIOUS
      <4> QED
        BY <4>4, <4>5
    <3>7. q.utt.playing = (q.speaker # <<>>)
      BY <3>5
    <3>8. Counted(q)
      BY <1>4, <2>15, <3>5, <3>6, <3>7 DEF Counted
    <3> QED
      BY <3>3, <3>4, <3>8 DEF Sound
  <2> QED
    BY <2>14, <2>15, <2>16
<1>7. CASE turn.left = 0 /\ turn.ends = TRUE /\ ~(turn.left > 0)
  <2> DEFINE v == [IF page.v.sounded \/ ~page.v.generating
                   THEN [page.v EXCEPT !.accepting = FALSE, !.generating = FALSE]
                   ELSE page.v EXCEPT !.floor = page.v.local \/ page.v.model]
  <2>1. PICK over : over = [page EXCEPT !.air = <<>>, !.v = v]
    OBVIOUS
  <2>2. DOMAIN v = LineFields /\ v.at = page.v.at
    BY <1>3 DEF LineFields
  <2>3. /\ DOMAIN over = PageFields /\ over.v = v /\ over.utt = page.utt
        /\ over.tail = page.tail /\ over.speaker = page.speaker
        /\ over.finished = page.finished /\ over.told = page.told /\ over.owed = page.owed
        /\ over.air = <<>> /\ over.pending = 0
        /\ over.wake = page.wake /\ over.mixed = page.mixed
    BY <1>2, <1>3, <2>1 DEF PageFields
  <2>4. Shaped(ids, over)
    <3>1. PICK S : S = [of : ids, left : Nat, ends : BOOLEAN]
      OBVIOUS
    <3>2. over.air \in Seq(S) /\ Len(over.air) <= 1
      BY <2>3
    <3> QED
      BY <1>1, <2>2, <2>3, <3>1, <3>2 DEF Shaped
  <2>14. page.wake = <<>> /\ Len(page.wake) = 0
    BY DEF FrameArrives, Framed
  <2>5. Aired(over) /\ Waking(over) /\ Honest(ids, over) /\ Uttered(over) /\ Counted(over)
    BY <1>1, <2>2, <2>3, <2>14 DEF Aired, Waking, Honest, Uttered, Counted
  <2>6. Sound(ids, over)
    BY <2>4, <2>5 DEF Sound, Loose
  <2>7. Sound(ids, [over EXCEPT !.empty = TRUE])
    <3>1. SameLine(over.v, over.v)
      BY <2>2, <2>3, LineSteps
    <3>2. Aside(over, [over EXCEPT !.empty = TRUE])
      BY <2>3, <3>1 DEF Aside, PageFields
    <3> QED
      BY <2>6, <3>2, AsideKeeps
  <2>8. mine => Sound(ids, Signal(over, "SOURCE_COMPLETE", None))
    <3> SUFFICES ASSUME mine PROVE Sound(ids, Signal(over, "SOURCE_COMPLETE", None))
      OBVIOUS
    <3>1. u.id \notin page.mixed => page.owed[u.id] = Len(page.speaker)
      <4>1. Len(page.speaker) \in Nat
        BY <1>1 DEF Shaped
      <4> QED
        BY <1>4, <1>7, <4>1
    <3> QED
      BY <1>4, <2>3, <2>6, <3>1, SourceKeeps DEF Sound
  <2>9. PICK told : told = IF ~mine THEN over
              ELSE IF page.v.sounded THEN Signal(over, "SOURCE_COMPLETE", None)
              ELSE [over EXCEPT !.empty = TRUE]
    OBVIOUS
  <2>10. Sound(ids, told)
    BY <2>6, <2>7, <2>8, <2>9
  <2>11. page' = [told EXCEPT !.v = Released(@)]
    BY <1>2, <1>7, <2>1, <2>9 DEF FrameArrives, Framed
  <2>12. DOMAIN told = PageFields /\ SameLine(told.v, Released(told.v))
    BY <2>10, LineSteps DEF Sound, Loose, Shaped
  <2>13. Aside(told, page')
    BY <2>11, <2>12 DEF Aside, PageFields
  <2> QED
    BY <2>10, <2>13, AsideKeeps
<1> QED
  <2>1. CASE turn.left > 0
    <3>1. turn.left # 0
      BY <1>3, <2>1
    <3> QED
      BY <1>2, <1>6, <2>1, <3>1 DEF FrameArrives, Framed
  <2>2. CASE ~(turn.left > 0)
    <3>1. turn.left = 0 /\ turn.ends
      BY <1>2, <2>2 DEF FrameArrives, Framed
    <3> QED
      BY <1>7, <2>2, <3>1
  <2> QED
    BY <2>1, <2>2

\* A frame of an earlier turn, or that turn's end.
LEMMA LateFrameStep ==
  ASSUME NEW ids, Sound(ids, page), LateFrameArrives
  PROVE  Sound(ids, page')
<1> DEFINE u    == page.utt
           mine == u.id # 0 /\ u.source = "MODEL" /\ u.id = page.v.req
           v    == [IF page.v.sounded \/ ~page.v.generating
                    THEN [page.v EXCEPT !.accepting = FALSE, !.generating = FALSE]
                    ELSE page.v EXCEPT !.floor = page.v.local \/ page.v.model]
<1>1. /\ Shaped(ids, page) /\ Aired(page) /\ Waking(page) /\ Honest(ids, page)
      /\ Uttered(page) /\ Counted(page) /\ Loose(ids, page)
  BY DEF Sound, Loose
<1>2. page.v.at = "ready" /\ page.wake # <<>> /\ page.pending = 0
  BY <1>1 DEF LateFrameArrives, Uttered
<1>3. PICK S : S = [of : ids, left : Nat, ends : BOOLEAN]
  OBVIOUS
<1>4. PICK s \in Seq(S) : s = page.wake
  BY <1>1, <1>3 DEF Shaped
<1>5. PICK turn \in S : turn = s[1] /\ turn = Head(s)
  BY <1>2, <1>4, HeadTailProperties, EmptySeq
<1>6. /\ Len(s) \in Nat \ {0} /\ Tail(s) \in Seq(S) /\ Len(Tail(s)) = Len(s) - 1
      /\ \A i \in 1..Len(Tail(s)) : Tail(s)[i] = s[i + 1] /\ i + 1 \in 1..Len(s)
  <2>1. Len(s) \in Nat \ {0} /\ Tail(s) \in Seq(S) /\ Len(Tail(s)) = Len(s) - 1
        /\ \A i \in 1..Len(Tail(s)) : Tail(s)[i] = s[i + 1]
    BY <1>2, <1>4, HeadTailProperties, EmptySeq
  <2>2. PICK n \in Nat \ {0} : n = Len(s)
    BY <2>1
  <2>3. \A i \in 1..(n - 1) : i + 1 \in 1..n
    OBVIOUS
  <2> QED
    BY <2>1, <2>2, <2>3
<1>7. /\ turn.of \in ids /\ turn.left \in Nat /\ turn.of \in page.finished
      /\ page.told[turn.of] = "COMPLETED" => turn.of \in page.mixed
  <2>1. 1 \in 1..Len(s)
    BY <1>6
  <2>2. s[1].of \in page.finished /\ (page.told[s[1].of] = "COMPLETED" => s[1].of \in page.mixed)
    BY <1>1, <1>4, <2>1 DEF Waking
  <2>3. turn.of \in ids /\ turn.left \in Nat
    BY <1>3
  <2> QED
    BY <1>5, <2>2, <2>3
<1>8. /\ page.v.req # 0 => page.v.req \in page.mixed
      /\ mine => u.id \in page.mixed /\ u.playing = (page.speaker # <<>>) /\ page.tail = None
  BY <1>1, <1>2 DEF Waking, Counted, Uttered, Shaped
<1>9. PICK rest : rest = [page EXCEPT !.wake[1].left = @ - 1]
  OBVIOUS
<1>10. PICK over : over = [page EXCEPT !.wake = Tail(@), !.v = v]
  OBVIOUS
<1>11. turn.left > 0 => /\ DOMAIN rest = PageFields /\ rest.v = page.v /\ rest.utt = u
        /\ rest.tail = page.tail /\ rest.speaker = page.speaker
        /\ rest.finished = page.finished /\ rest.told = page.told /\ rest.owed = page.owed
        /\ rest.air = page.air /\ rest.mixed = page.mixed /\ rest.pending = 0
        /\ Sound(ids, rest)
  <2> SUFFICES ASSUME turn.left > 0
               PROVE  /\ DOMAIN rest = PageFields /\ rest.v = page.v /\ rest.utt = u
        /\ rest.tail = page.tail /\ rest.speaker = page.speaker
        /\ rest.finished = page.finished /\ rest.told = page.told /\ rest.owed = page.owed
        /\ rest.air = page.air /\ rest.mixed = page.mixed /\ rest.pending = 0
        /\ Sound(ids, rest)
    OBVIOUS
  <2>1. PICK next : next = [turn EXCEPT !.left = @ - 1]
    OBVIOUS
  <2>2. next \in S /\ next.of = turn.of
    BY <1>3, <1>7, <2>1
  <2>3. PICK w : w = [s EXCEPT ![1] = next]
    OBVIOUS
  <2>4. w \in Seq(S) /\ Len(w) = Len(s) /\ \A i \in 1..Len(w) : w[i].of = s[i].of
    <3>1. w \in Seq(S) /\ Len(w) = Len(s)
      BY <1>6, <2>2, <2>3
    <3>2. \A i \in 1..Len(s) : w[i] = IF i = 1 THEN next ELSE s[i]
      BY <2>3
    <3> QED
      BY <1>5, <2>2, <3>1, <3>2
  <2>5. /\ DOMAIN rest = PageFields /\ rest.v = page.v /\ rest.utt = page.utt
        /\ rest.tail = page.tail /\ rest.speaker = page.speaker
        /\ rest.finished = page.finished /\ rest.told = page.told /\ rest.owed = page.owed
        /\ rest.air = page.air /\ rest.mixed = page.mixed /\ rest.pending = 0 /\ rest.wake = w
    BY <1>1, <1>2, <1>4, <1>5, <1>9, <2>1, <2>3 DEF Shaped, PageFields
  <2>6. Shaped(ids, rest)
    BY <1>1, <1>3, <2>4, <2>5 DEF Shaped
  <2>7. Aired(rest) /\ Honest(ids, rest) /\ Uttered(rest) /\ Counted(rest)
    BY <1>1, <1>2, <2>5 DEF Aired, Honest, Uttered, Counted
  <2>8. Waking(rest)
    <3>1. ASSUME NEW i \in 1..Len(w)
          PROVE  /\ w[i].of \in page.finished
                 /\ page.told[w[i].of] = "COMPLETED" => w[i].of \in page.mixed
      <4>1. i \in 1..Len(page.wake) /\ w[i].of = page.wake[i].of
        BY <1>4, <2>4, <3>1
      <4> QED
        BY <1>1, <4>1 DEF Waking
    <3> QED
      BY <1>8, <2>5, <3>1 DEF Waking
  <2> QED
    BY <2>5, <2>6, <2>7, <2>8 DEF Sound, Loose
<1>12. PICK loud : loud = [rest EXCEPT !.v.floor = TRUE, !.v.sounded = TRUE]
  OBVIOUS
<1>13. turn.left > 0 => Sound(ids, loud) /\ Aside(rest, loud)
  <2> SUFFICES ASSUME turn.left > 0 PROVE Sound(ids, loud) /\ Aside(rest, loud)
    OBVIOUS
  <2>1. PICK l : l = [page.v EXCEPT !.floor = TRUE, !.sounded = TRUE]
    OBVIOUS
  <2>2. SameLine(page.v, l)
    BY <1>1, <2>1 DEF SameLine, LineFields, Shaped
  <2>3. loud = [rest EXCEPT !.v = l]
    BY <1>11, <1>12, <2>1 DEF PageFields
  <2>4. Aside(rest, loud)
    BY <1>11, <2>2, <2>3 DEF Aside, PageFields
  <2> QED
    BY <1>11, <2>4, AsideKeeps
<1>14. turn.left > 0 /\ mine => Sound(ids, Play(loud, turn.of))
  <2> SUFFICES ASSUME turn.left > 0, mine PROVE Sound(ids, Play(loud, turn.of))
    OBVIOUS
  <2>1. /\ loud.utt = u /\ loud.told = page.told /\ loud.mixed = page.mixed
        /\ loud.pending = 0 /\ Loose(ids, loud)
    BY <1>11, <1>13 DEF Aside, Sound
  <2>2. PICK q : q = Play(loud, turn.of)
    OBVIOUS
  <2>3. Played(loud, q, turn.of) /\ Loose(ids, q)
    BY <1>7, <1>8, <2>1, <2>2, PlayPlays, PlayKeeps
  <2>4. q.speaker # <<>>
    <3>1. PICK t \in Seq(ids) : t = loud.speaker
      BY <2>1 DEF Loose, Shaped
    <3>2. Append(t, turn.of) # <<>>
      BY <1>7, <3>1, AppendProperties
    <3> QED
      BY <2>3, <3>1, <3>2 DEF Played
  <2>5. q.utt.id \in q.mixed /\ q.pending = 0 /\ q.utt.playing = TRUE
    BY <1>8, <2>1, <2>3 DEF Played
  <2>6. q.utt.playing = (q.speaker # <<>>)
    BY <2>4, <2>5
  <2>7. Counted(q)
    BY <2>5, <2>6 DEF Counted
  <2> QED
    BY <2>2, <2>3, <2>7 DEF Sound
<1>15. /\ DOMAIN over = PageFields /\ over.v = v /\ over.utt = u /\ over.tail = page.tail
       /\ over.speaker = page.speaker /\ over.finished = page.finished
       /\ over.told = page.told /\ over.owed = page.owed /\ over.air = page.air
       /\ over.mixed = page.mixed /\ over.pending = 0 /\ over.wake = Tail(s)
  BY <1>1, <1>2, <1>4, <1>10 DEF Shaped, PageFields
<1>16. DOMAIN v = LineFields /\ v.at = page.v.at /\ v.req = page.v.req
  BY <1>1 DEF LineFields, Shaped
<1>17. Sound(ids, over)
  <2>1. Shaped(ids, over)
    BY <1>1, <1>3, <1>6, <1>15, <1>16 DEF Shaped
  <2>2. Aired(over)
    BY <1>1, <1>8, <1>15, <1>16 DEF Aired
  <2>3. Honest(ids, over) /\ Uttered(over) /\ Counted(over)
    BY <1>1, <1>2, <1>15, <1>16 DEF Honest, Uttered, Counted
  <2>4. Waking(over)
    <3>1. ASSUME NEW i \in 1..Len(Tail(s))
          PROVE  /\ Tail(s)[i].of \in page.finished
                 /\ page.told[Tail(s)[i].of] = "COMPLETED" => Tail(s)[i].of \in page.mixed
      <4>1. PICK k \in 1..Len(page.wake) : Tail(s)[i] = page.wake[k]
        BY <1>4, <1>6, <3>1
      <4> QED
        BY <1>1, <4>1 DEF Waking
    <3> QED
      BY <1>8, <1>15, <1>16, <3>1 DEF Waking
  <2> QED
    BY <2>1, <2>2, <2>3, <2>4 DEF Sound, Loose
<1>18. Sound(ids, [over EXCEPT !.empty = TRUE])
  <2>1. SameLine(over.v, over.v)
    BY <1>15, <1>16, LineSteps
  <2>2. Aside(over, [over EXCEPT !.empty = TRUE])
    BY <1>15, <2>1 DEF Aside, PageFields
  <2> QED
    BY <1>17, <2>2, AsideKeeps
<1>19. mine => Sound(ids, Signal(over, "SOURCE_COMPLETE", None))
  <2> SUFFICES ASSUME mine PROVE Sound(ids, Signal(over, "SOURCE_COMPLETE", None))
    OBVIOUS
  <2> QED
    BY <1>8, <1>15, <1>17, SourceKeeps DEF Sound
<1>20. PICK told : told = IF ~mine THEN over
              ELSE IF page.v.sounded THEN Signal(over, "SOURCE_COMPLETE", None)
              ELSE [over EXCEPT !.empty = TRUE]
  OBVIOUS
<1>21. Sound(ids, told) /\ Sound(ids, [told EXCEPT !.v = Released(@)])
  <2>1. Sound(ids, told)
    BY <1>17, <1>18, <1>19, <1>20
  <2>2. DOMAIN told = PageFields /\ SameLine(told.v, Released(told.v))
    BY <2>1, LineSteps DEF Sound, Loose, Shaped
  <2>3. Aside(told, [told EXCEPT !.v = Released(@)])
    BY <2>2 DEF Aside, PageFields
  <2> QED
    BY <2>1, <2>3, AsideKeeps
<1>22. CASE turn.left > 0
  <2>1. turn.left # 0
    BY <1>7, <1>22
  <2>2. page' = IF ~page.v.accepting THEN rest ELSE IF mine THEN Play(loud, turn.of) ELSE loud
    BY <1>4, <1>5, <1>9, <1>12, <1>22, <2>1 DEF LateFrameArrives, Framed
  <2> QED
    BY <1>11, <1>13, <1>14, <1>22, <2>2
<1>23. CASE ~(turn.left > 0)
  <2>1. page' = [told EXCEPT !.v = Released(@)]
    BY <1>4, <1>5, <1>10, <1>20, <1>23 DEF LateFrameArrives, Framed
  <2> QED
    BY <1>21, <2>1
<1> QED
  BY <1>22, <1>23

\* A provider that stops: what it will not send is not owed, if it says so.
LEMMA BalkStep ==
  ASSUME NEW ids, Sound(ids, page), Balk
  PROVE  Sound(ids, page')
<1> DEFINE turn == page.air[1]
<1>1. /\ Shaped(ids, page) /\ Aired(page) /\ Waking(page) /\ Honest(ids, page)
      /\ Uttered(page) /\ Counted(page)
  BY DEF Sound, Loose
<1>2. /\ page.air # <<>> /\ Head(page.air) = turn /\ page.air = <<turn>>
      /\ turn \in [of : ids, left : Nat, ends : BOOLEAN] /\ turn.ends = TRUE
  BY <1>1, AirHead DEF Balk
<1>3. PICK ends \in BOOLEAN :
        page' = [page EXCEPT !.air[1] = [turn EXCEPT !.left = 0, !.ends = ends],
                             !.owed[turn.of] = IF ends THEN @ - turn.left ELSE @]
  BY <1>2 DEF Balk
<1>4. PICK last : last = [turn EXCEPT !.left = 0, !.ends = ends]
  OBVIOUS
<1>5. /\ last \in [of : ids, left : Nat, ends : BOOLEAN] /\ last.of = turn.of
      /\ last.left = 0 /\ last.ends = ends /\ turn.of \in ids /\ turn.left \in Nat
  BY <1>2, <1>3, <1>4
<1>6. PICK q : q = page'
  OBVIOUS
<1>7. [page.air EXCEPT ![1] = last] = <<last>>
  BY <1>2
<1>8. /\ DOMAIN q = PageFields /\ q.v = page.v /\ q.utt = page.utt /\ q.tail = page.tail
      /\ q.speaker = page.speaker /\ q.finished = page.finished /\ q.told = page.told
      /\ q.air = <<last>> /\ q.pending = page.pending
      /\ q.wake = page.wake /\ q.mixed = page.mixed
      /\ q.owed = [page.owed EXCEPT ![turn.of] = IF ends THEN @ - turn.left ELSE @]
  BY <1>1, <1>3, <1>4, <1>6, <1>7 DEF Shaped, PageFields
<1>9. q.air # <<>> /\ q.air[1] = last /\ Len(q.air) = 1
  BY <1>8
<1>10. /\ q.owed \in [ids -> Int] /\ \A id \in ids \ {turn.of} : q.owed[id] = page.owed[id]
       /\ ends = TRUE => q.owed[turn.of] = page.owed[turn.of] - turn.left
  <2>1. PICK f \in [ids -> Int], id \in ids, m \in Nat :
          f = page.owed /\ id = turn.of /\ m = turn.left
    BY <1>1, <1>5 DEF Shaped
  <2>2. PICK e : e = IF ends THEN f[id] - m ELSE f[id]
    OBVIOUS
  <2>3. e \in Int /\ (ends = TRUE => e = f[id] - m)
    BY <2>2
  <2>4. q.owed = [f EXCEPT ![id] = e]
    BY <1>8, <2>1, <2>2
  <2> QED
    BY <2>1, <2>3, <2>4
<1>11. Shaped(ids, q)
  <2>1. PICK S : S = [of : ids, left : Nat, ends : BOOLEAN]
    OBVIOUS
  <2>2. q.air \in Seq(S)
    BY <1>5, <1>8, <2>1
  <2> QED
    BY <1>1, <1>8, <1>9, <1>10, <2>1, <2>2 DEF Shaped
<1>12. Aired(q)
  BY <1>1, <1>2, <1>5, <1>8, <1>9 DEF Aired
<1>13. Honest(ids, q)
  BY <1>1, <1>2, <1>8, <1>10 DEF Honest, Aired
<1>14. Uttered(q) /\ Waking(q)
  BY <1>1, <1>8 DEF Uttered, Waking
<1>15. Counted(q)
  <2>1. CASE turn.of = page.utt.id
    <3>1. /\ page.utt.source = "MODEL" /\ page.utt.id # 0
          /\ page.tail = None /\ page.pending = 0
          /\ page.utt.id \notin page.mixed => page.utt.complete = FALSE
      BY <1>1, <1>2, <1>5, <2>1 DEF Aired, Uttered, Counted, Shaped
    <3>2. page.utt.id \notin page.mixed /\ page.v.req = page.utt.id /\ ends = TRUE
            => q.owed[page.utt.id] = Len(page.speaker) + 0
      <4> SUFFICES ASSUME page.utt.id \notin page.mixed, page.v.req = page.utt.id, ends = TRUE
                   PROVE  q.owed[page.utt.id] = Len(page.speaker) + 0
        OBVIOUS
      <4>1. page.owed[turn.of] = Len(page.speaker) + turn.left
        BY <1>1, <1>2, <2>1, <3>1 DEF Counted
      <4>2. q.owed[turn.of] = page.owed[turn.of] - turn.left
        BY <1>10
      <4>3. PICK n \in Nat, m \in Nat : n = Len(page.speaker) /\ m = turn.left
        BY <1>1, <1>5 DEF Shaped
      <4>4. (n + m) - m = n + 0
        OBVIOUS
      <4> QED
        BY <2>1, <4>1, <4>2, <4>3, <4>4
    <3>3. page.utt.playing = (page.speaker # <<>>)
      BY <1>1, <3>1 DEF Counted
    <3>4. q.utt.playing = (q.speaker # <<>>)
      BY <1>8, <3>3, Zenon
    <3> QED
      BY <1>5, <1>8, <1>9, <3>1, <3>2, <3>4 DEF Counted, None
  <2>2. CASE turn.of # page.utt.id
    <3>1. page.utt.id # 0 => q.owed[page.utt.id] = page.owed[page.utt.id]
      BY <1>1, <1>10, <2>2 DEF Shaped
    <3> QED
      BY <1>1, <1>2, <1>5, <1>8, <1>9, <2>2, <3>1 DEF Counted
  <2> QED
    BY <2>1, <2>2
<1> QED
  BY <1>6, <1>11, <1>12, <1>13, <1>14, <1>15 DEF Sound, Loose

\* A chunk that was heard is owed no more; with the last of a complete source
\* the utterance is completed.
LEMMA ChunkStep ==
  ASSUME NEW ids, Sound(ids, page), ChunkEnds
  PROVE  Sound(ids, page')
<1> DEFINE u    == page.utt
           rest == Tail(page.speaker)
           of   == Head(page.speaker)
<1>1. /\ Shaped(ids, page) /\ Aired(page) /\ Waking(page) /\ Honest(ids, page)
      /\ Uttered(page) /\ Counted(page) /\ page.speaker # <<>>
  BY DEF Sound, Loose, ChunkEnds
<1>2. u.id # 0 /\ u.id \in ids
  BY <1>1 DEF Uttered, Shaped
<1>3. PICK s \in Seq(ids) : s = page.speaker
  BY <1>1 DEF Shaped
<1>4. /\ s # <<>> /\ Len(s) \in Nat \ {0} /\ Tail(s) \in Seq(ids)
      /\ Len(Tail(s)) = Len(s) - 1 /\ Head(s) = s[1]
      /\ \A i \in 1..Len(Tail(s)) : Tail(s)[i] = s[i + 1]
  BY <1>1, <1>3, HeadTailProperties, EmptySeq
<1>5. \A i \in 1..Len(s) : /\ s[i] = u.id \/ u.id \in page.mixed
                           /\ page.told[s[i]] = "COMPLETED" => s[i] \in page.mixed
  BY <1>1, <1>2, <1>3 DEF Uttered
<1>6. /\ of \in ids /\ (of = u.id \/ u.id \in page.mixed)
      /\ page.told[of] = "COMPLETED" => of \in page.mixed
      /\ \A i \in 1..Len(rest) : /\ rest[i] = u.id \/ u.id \in page.mixed
                                 /\ page.told[rest[i]] = "COMPLETED" => rest[i] \in page.mixed
  <2>1. PICK n \in Nat \ {0} : n = Len(s)
    BY <1>4
  <2>2. 1 \in 1..n /\ \A i \in 1..(n - 1) : i + 1 \in 1..n
    OBVIOUS
  <2> QED
    BY <1>3, <1>4, <1>5, <2>1, <2>2
<1>7. PICK on : on = (u.id # 0 /\ u.source = "MODEL" /\ rest # <<>>)
  OBVIOUS
<1>8. PICK w : w = [page EXCEPT !.speaker = rest, !.v = NoteModel(@, on),
                                !.owed[Head(page.speaker)] = @ - 1]
  OBVIOUS
<1>9. PICK v : v = NoteModel(page.v, on)
  OBVIOUS
<1>10. SameLine(page.v, v)
  <2>1. on \in BOOLEAN
    BY <1>7
  <2> QED
    BY <1>1, <1>9, <2>1, LineSteps DEF Shaped
<1>11. /\ DOMAIN w = PageFields /\ w.v = v /\ w.utt = u /\ w.tail = page.tail
       /\ w.speaker = rest /\ w.finished = page.finished /\ w.told = page.told
       /\ w.air = page.air /\ w.wake = page.wake /\ w.mixed = page.mixed /\ w.pending = page.pending
       /\ w.owed = [page.owed EXCEPT ![of] = @ - 1]
  BY <1>1, <1>6, <1>8, <1>9 DEF Shaped, PageFields
<1>12. /\ w.owed \in [ids -> Int] /\ \A id \in ids \ {of} : w.owed[id] = page.owed[id]
       /\ w.owed[of] = page.owed[of] - 1 /\ page.owed[u.id] \in Int
  <2>1. PICK f \in [ids -> Int], id \in ids : f = page.owed /\ id = of
    BY <1>1, <1>6 DEF Shaped
  <2>2. PICK e \in Int : e = f[id] - 1
    OBVIOUS
  <2>3. w.owed = [f EXCEPT ![id] = e]
    BY <1>11, <2>1, <2>2
  <2> QED
    BY ZenonT(30), <1>1, <1>2, <2>1, <2>2, <2>3 DEF Shaped
<1>13. Loose(ids, w)
  <2>1. Shaped(ids, w)
    BY <1>1, <1>3, <1>4, <1>10, <1>11, <1>12 DEF Shaped, SameLine
  <2>2. Aired(w)
    BY <1>1, <1>10, <1>11 DEF Aired, SameLine
  <2>3. Honest(ids, w)
    BY <1>1, <1>6, <1>11, <1>12 DEF Honest
  <2>5. Waking(w)
    BY <1>1, <1>10, <1>11 DEF Waking, SameLine
  <2>4. Uttered(w)
    BY <1>1, <1>2, <1>6, <1>10, <1>11 DEF Uttered, SameLine
  <2> QED
    BY <2>1, <2>2, <2>3, <2>4, <2>5 DEF Loose
<1>14. PICK n \in Nat, d \in Int :
         /\ Len(page.speaker) = n + 1 /\ Len(rest) = n /\ d = page.owed[u.id]
         /\ u.id \notin page.mixed => w.owed[u.id] = d - 1
  <2>1. PICK n \in Nat : Len(s) = n + 1 /\ Len(Tail(s)) = n
    <3>1. PICK m \in Nat \ {0} : m = Len(s)
      BY <1>4
    <3>2. m - 1 \in Nat /\ m = (m - 1) + 1
      OBVIOUS
    <3> QED
      BY <1>4, <3>1, <3>2
  <2> QED
    BY <1>3, <1>6, <1>12, <2>1
<1>15. /\ page.pending = 0 /\ u.playing = TRUE
       /\ u.id \notin page.mixed =>
            /\ u.complete = TRUE => w.owed[u.id] = n
            /\ page.tail = "asked" => w.owed[u.id] = n + 1
            /\ page.tail = "ending" => w.owed[u.id] = n
            /\ (page.air # <<>> /\ page.air[1].of = u.id /\ v.req = u.id /\ page.air[1].ends = TRUE)
                 => w.owed[u.id] = n + page.air[1].left
  <2>1. u.playing = TRUE
    <3>1. u.playing = (page.speaker # <<>>)
      BY <1>1, <1>2 DEF Counted
    <3> QED
      BY <1>1, <3>1
  <2>2. page.pending = 0
    <3>1. page.pending # 0 => Len(page.speaker) = 0
      BY <1>1, <1>2 DEF Counted
    <3>2. n + 1 # 0
      OBVIOUS
    <3> QED
      BY <1>14, <3>1, <3>2
  <2>3. u.id \notin page.mixed => /\ u.complete = TRUE => d = n + 1
                                  /\ page.tail = "asked" => d = (n + 1) + 1
                                  /\ page.tail = "ending" => d = n + 1
    BY <1>1, <1>2, <1>14 DEF Counted
  <2>4. ASSUME u.id \notin page.mixed, page.air # <<>>, page.air[1].of = u.id, v.req = u.id, page.air[1].ends = TRUE
        PROVE  w.owed[u.id] = n + page.air[1].left
    <3>1. page.v.req = u.id
      BY <1>2, <1>10, <2>4 DEF SameLine
    <3>2. d = (n + 1) + page.air[1].left
      BY <1>1, <1>2, <1>14, <2>4, <3>1 DEF Counted
    <3>3. PICK m \in Nat : m = page.air[1].left
      BY <1>1, <2>4, AirHead
    <3>4. ((n + 1) + m) - 1 = n + m
      OBVIOUS
    <3>5. w.owed[u.id] = d - 1
      BY <1>14, <2>4
    <3> QED
      BY <3>2, <3>3, <3>4, <3>5
  <2>5. (n + 1) - 1 = n /\ ((n + 1) + 1) - 1 = n + 1
    OBVIOUS
  <2> QED
    BY <1>14, <2>1, <2>2, <2>3, <2>4, <2>5
<1>16. CASE rest # <<>>
  <2>1. page' = w
    BY <1>7, <1>8, <1>16 DEF ChunkEnds
  <2>2. w.utt.playing = (w.speaker # <<>>)
    BY <1>11, <1>15, <1>16
  <2>3. Counted(w)
    BY <1>11, <1>14, <1>15, <2>2 DEF Counted
  <2> QED
    BY <1>13, <2>1, <2>3 DEF Sound
<1>17. CASE rest = <<>>
  <2>1. n = 0 /\ w.speaker = <<>> /\ Len(w.speaker) = 0
    <3>1. w.speaker = <<>> /\ Len(<<>>) = 0 /\ w.speaker = rest
      BY <1>11, <1>17
    <3> QED
      BY <1>14, <3>1
  <2>2. page' \in {Signal(w, "FAIL", w.failure), Signal(w, "PLAYBACK_DRAINED", None)}
    BY <1>7, <1>8, <1>17 DEF ChunkEnds
  <2>3. Sound(ids, Signal(w, "FAIL", w.failure))
    BY <1>13, FailEnds DEF Quiet
  <2>4. PICK x : x = Apply(u, "PLAYBACK_DRAINED", None)
    OBVIOUS
  <2>5. DOMAIN u = UtteranceFields /\ u.phase \notin Terminal /\ u.got \in Nat
    BY <1>1, <1>2 DEF Shaped, Uttered
  <2>6. CASE u.complete = TRUE
    <3>1. x = Finished(u, "COMPLETED", "none")
      BY <1>15, <2>4, <2>5, <2>6 DEF Apply, Drained
    <3>2. x.id = u.id /\ x.phase = "COMPLETED"
      BY <2>5, <3>1 DEF Finished, UtteranceFields
    <3>3. Signal(w, "PLAYBACK_DRAINED", None) = Finish(w, x)
      BY <1>2, <1>11, <2>4, <3>2 DEF Signal, Terminal
    <3>4. u.id \notin w.mixed /\ w.air # <<>> => w.air[1].of # u.id
      BY <1>11, <1>13, <2>6 DEF Loose, Aired
    <3>5. u.id \notin w.mixed => w.owed[u.id] = 0
      BY <1>11, <1>15, <2>1, <2>6
    <3>6. Quiet(ids, w, Finish(w, x))
      BY <1>2, <1>11, <1>13, <2>1, <3>2, <3>4, <3>5, FinishKeeps DEF Terminal
    <3> QED
      BY <2>2, <2>3, <3>3, <3>6 DEF Quiet
  <2>7. CASE u.complete # TRUE
    <3>1. x = [u EXCEPT !.playing = FALSE]
      BY <1>15, <2>4, <2>5, <2>7 DEF Apply, Drained
    <3>2. /\ DOMAIN x = UtteranceFields /\ x.id = u.id /\ x.source = u.source
          /\ x.phase = u.phase /\ x.got = u.got /\ x.complete = u.complete
          /\ x.playing = FALSE
      BY <2>5, <3>1 DEF UtteranceFields
    <3>3. PICK q : q = [w EXCEPT !.utt = x]
      OBVIOUS
    <3>4. q = Signal(w, "PLAYBACK_DRAINED", None)
      BY <1>2, <1>11, <2>4, <2>5, <3>2, <3>3, SignalKeeps
    <3>5. /\ DOMAIN q = PageFields /\ q.v = v /\ q.utt = x /\ q.tail = page.tail
          /\ q.speaker = <<>> /\ q.finished = page.finished /\ q.told = page.told
          /\ q.air = page.air /\ q.wake = page.wake
          /\ q.mixed = page.mixed /\ q.pending = 0 /\ q.owed = w.owed
      BY <1>11, <1>15, <2>1, <3>3 DEF PageFields
    <3>6. Shaped(ids, q) /\ Honest(ids, q)
      BY <1>11, <1>13, <1>15, <2>1, <3>2, <3>5 DEF Loose, Shaped, Honest
    <3>7. Aired(q)
      BY <1>11, <1>13, <3>2, <3>5 DEF Loose, Aired
    <3>8. Uttered(q) /\ Waking(q)
      <4>1. Len(q.speaker) = 0
        BY <3>5
      <4> QED
        BY <1>11, <1>13, <1>15, <2>1, <3>2, <3>5, <4>1 DEF Loose, Uttered, Waking
    <3>9. Counted(q)
      <4>1. q.utt.playing = (q.speaker # <<>>)
        BY <3>2, <3>5
      <4>2. Len(q.speaker) = 0
        BY <3>5
      <4> QED
        BY <1>15, <2>1, <2>7, <3>2, <3>5, <4>1, <4>2 DEF Counted
    <3> QED
      BY <2>2, <2>3, <3>4, <3>6, <3>7, <3>8, <3>9 DEF Sound, Loose
  <2> QED
    BY <2>6, <2>7
<1> QED
  BY <1>16, <1>17

\* The cached tail arrives, ends, is refused or breaks off.
LEMMA TailStep ==
  ASSUME NEW ids, Sound(ids, page), TailMoves \/ TailDies
  PROVE  Sound(ids, page')
<1> DEFINE u == page.utt
<1>1. /\ Shaped(ids, page) /\ Aired(page) /\ Waking(page) /\ Honest(ids, page)
      /\ Uttered(page) /\ Counted(page) /\ page.tail # None
  BY DEF Sound, Loose, TailMoves, TailDies
<1>2. /\ u.id # 0 /\ u.id \in ids /\ u.source = "CACHED" /\ u.complete = FALSE
      /\ u.playing = (page.speaker # <<>>) /\ page.pending = 0
      /\ page.air # <<>> => page.air[1].of # u.id
      /\ page.told[u.id] # "COMPLETED"
      /\ u.id \notin page.mixed =>
           /\ page.tail = "asked" => page.owed[u.id] = Len(page.speaker) + 1
           /\ page.tail = "ending" => page.owed[u.id] = Len(page.speaker)
  BY <1>1 DEF Uttered, Counted, Aired, Shaped
<1>3. ASSUME NEW tail \in {None, "ending"}, NEW q, q = [page EXCEPT !.tail = tail]
      PROVE  /\ DOMAIN q = PageFields /\ q.v = page.v /\ q.utt = u /\ q.tail = tail
             /\ q.speaker = page.speaker /\ q.finished = page.finished
             /\ q.told = page.told /\ q.air = page.air /\ q.wake = page.wake /\ q.mixed = page.mixed /\ q.pending = 0
             /\ q.owed = page.owed /\ Loose(ids, q)
  <2>1. /\ DOMAIN q = PageFields /\ q.v = page.v /\ q.utt = u /\ q.tail = tail
        /\ q.speaker = page.speaker /\ q.finished = page.finished
        /\ q.told = page.told /\ q.air = page.air /\ q.wake = page.wake /\ q.mixed = page.mixed /\ q.pending = 0
        /\ q.owed = page.owed
    BY <1>1, <1>2, <1>3 DEF Shaped, PageFields
  <2>2. Shaped(ids, q) /\ Honest(ids, q)
    BY <1>1, <2>1 DEF Shaped, Honest
  <2>3. Aired(q)
    BY <1>1, <2>1 DEF Aired
  <2>4. Uttered(q) /\ Waking(q)
    BY <1>1, <1>2, <2>1 DEF Uttered, Waking
  <2> QED
    BY <2>1, <2>2, <2>3, <2>4 DEF Loose
<1>4. PICK off : off = [page EXCEPT !.tail = None]
  OBVIOUS
<1>5. /\ DOMAIN off = PageFields /\ off.v = page.v /\ off.utt = u /\ off.tail = None
      /\ off.speaker = page.speaker /\ off.finished = page.finished
      /\ off.told = page.told /\ off.air = page.air /\ off.wake = page.wake /\ off.mixed = page.mixed /\ off.pending = 0
      /\ off.owed = page.owed /\ Loose(ids, off)
  BY <1>3, <1>4
<1>6. Sound(ids, FailAfterDrain(off, "CACHED_TAIL_FAILED"))
  <2>1. off.utt.playing = (off.speaker # <<>>)
    BY <1>2, <1>5
  <2>2. Counted(off)
    BY <1>2, <1>5, <2>1 DEF Counted, None
  <2>3. Sound(ids, off) /\ DOMAIN off.v = LineFields
    BY <1>5, <2>2 DEF Sound, Loose, Shaped
  <2>4. SameLine(off.v, off.v)
    BY <2>3, LineSteps
  <2>5. Aside(off, [off EXCEPT !.failure = "CACHED_TAIL_FAILED"])
    BY <1>5, <2>4 DEF Aside, PageFields
  <2>6. Sound(ids, [off EXCEPT !.failure = "CACHED_TAIL_FAILED"])
    BY <2>3, <2>5, AsideKeeps
  <2>7. Sound(ids, Signal(off, "FAIL", "CACHED_TAIL_FAILED"))
    BY <1>5, FailEnds DEF Quiet
  <2> QED
    BY <2>6, <2>7 DEF FailAfterDrain
<1>7. page.tail = "ending" => Sound(ids, Signal(off, "SOURCE_COMPLETE", None))
  BY <1>2, <1>5, SourceKeeps
<1>8. page.tail = "asked" => Sound(ids, Play([page EXCEPT !.tail = "ending"], u.id))
  <2> SUFFICES ASSUME page.tail = "asked"
               PROVE  Sound(ids, Play([page EXCEPT !.tail = "ending"], u.id))
    OBVIOUS
  <2>1. PICK q : q = [page EXCEPT !.tail = "ending"]
    OBVIOUS
  <2>2. /\ DOMAIN q = PageFields /\ q.v = page.v /\ q.utt = u /\ q.tail = "ending"
        /\ q.speaker = page.speaker /\ q.finished = page.finished
        /\ q.told = page.told /\ q.air = page.air /\ q.wake = page.wake /\ q.mixed = page.mixed /\ q.pending = 0
        /\ q.owed = page.owed /\ Loose(ids, q)
    BY <1>3, <2>1
  <2>3. PICK x : x = Play(q, u.id)
    OBVIOUS
  <2>4. Played(q, x, u.id) /\ Loose(ids, x)
    BY <1>2, <2>2, <2>3, PlayPlays, PlayKeeps
  <2>5. /\ x.speaker = Append(page.speaker, u.id) /\ x.tail = "ending" /\ x.pending = 0
        /\ x.utt.id = u.id /\ x.utt.complete = FALSE /\ x.utt.playing = TRUE
        /\ x.air = page.air /\ x.mixed = page.mixed
        /\ u.id \notin page.mixed => x.owed[u.id] = Len(page.speaker) + 1
    BY <1>2, <2>2, <2>4 DEF Played
  <2>6. Len(x.speaker) = Len(page.speaker) + 1 /\ x.speaker # <<>>
    <3>1. PICK s \in Seq(ids), id \in ids : s = page.speaker /\ id = u.id
      BY <1>1, <1>2 DEF Shaped
    <3>2. Len(Append(s, id)) = Len(s) + 1 /\ Append(s, id) # <<>>
      BY <3>1, AppendProperties
    <3> QED
      BY <2>5, <3>1, <3>2
  <2>7. x.utt.playing = (x.speaker # <<>>)
    BY <2>5, <2>6
  <2>8. Counted(x)
    BY <1>2, <2>5, <2>6, <2>7 DEF Counted
  <2> QED
    BY <2>1, <2>3, <2>4, <2>8 DEF Sound
<1>9. CASE TailMoves
  BY <1>4, <1>6, <1>7, <1>8, <1>9 DEF TailMoves
<1>10. CASE TailDies
  BY <1>4, <1>6, <1>10 DEF TailDies
<1> QED
  BY <1>9, <1>10

\* The handshake completes, and what was held for it is asked for.
LEMMA SocketStep ==
  ASSUME NEW ids, Sound(ids, page), SocketReady
  PROVE  Sound(ids, page')
<1>1. /\ Shaped(ids, page) /\ Aired(page) /\ Waking(page) /\ Honest(ids, page)
      /\ Uttered(page) /\ Counted(page) /\ page.v.at = "dialing"
  BY DEF Sound, Loose, SocketReady
<1>2. PICK v : v = SetUp(page.v)
  OBVIOUS
<1>3. DOMAIN v = LineFields /\ v.req = page.v.req /\ v.accepting = page.v.accepting
  BY <1>1, <1>2 DEF Shaped, SetUp, Opened, LineFields
<1>4. PICK up : up = [page EXCEPT !.v = v, !.pending = 0]
  OBVIOUS
<1>5. /\ DOMAIN up = PageFields /\ up.v = v /\ up.utt = page.utt /\ up.tail = page.tail
      /\ up.speaker = page.speaker /\ up.finished = page.finished /\ up.told = page.told
      /\ up.air = page.air /\ up.wake = page.wake /\ up.mixed = page.mixed /\ up.pending = 0 /\ up.owed = page.owed
  BY <1>1, <1>4 DEF Shaped, PageFields
<1>6. Loose(ids, up)
  <2>1. Shaped(ids, up) /\ Honest(ids, up)
    BY <1>1, <1>3, <1>5 DEF Shaped, Honest
  <2>2. Aired(up)
    BY <1>1, <1>3, <1>5 DEF Aired
  <2>3. Uttered(up) /\ Waking(up)
    BY <1>1, <1>3, <1>5 DEF Uttered, Waking
  <2> QED
    BY <2>1, <2>2, <2>3 DEF Loose
<1>7. PICK q : q = IF page.pending # 0 /\ page.pending = page.utt.id
                   THEN Request(up, page.pending) ELSE up
  OBVIOUS
<1>8. Sound(ids, q)
  <2>1. CASE page.pending # 0 /\ page.pending = page.utt.id
    <3>1. page.pending \in ids /\ up.utt.id = page.pending
      BY <1>1, <1>5, <2>1 DEF Shaped
    <3>2. /\ up.utt.source = "MODEL" /\ up.utt.complete = FALSE /\ Len(up.speaker) = 0
          /\ up.owed[page.pending] = 2 /\ (up.air # <<>> => up.air[1].of # page.pending)
          /\ up.utt.playing = (up.speaker # <<>>)
      BY <1>1, <1>5, <2>1 DEF Counted
    <3>3. up.speaker = <<>>
      BY <1>1, <1>5, <3>2, EmptySeq DEF Shaped
    <3>4. up.utt.playing = FALSE
      BY <3>2, <3>3
    <3>5. up.tail = None
      BY <1>1, <1>5, <2>1, <3>2 DEF Uttered
    <3> QED
      BY <1>5, <1>6, <1>7, <2>1, <3>1, <3>2, <3>3, <3>4, <3>5, RequestKeeps
  <2>2. CASE ~(page.pending # 0 /\ page.pending = page.utt.id)
    <3>1. page.pending = 0
      BY <1>1, <2>2 DEF Uttered
    <3>2. Counted(up)
      BY <1>1, <1>3, <1>5, <3>1 DEF Counted
    <3> QED
      BY <1>6, <1>7, <2>2, <3>2 DEF Sound
  <2> QED
    BY <2>1, <2>2
<1>9. page' = PostReady(q)
  BY <1>2, <1>4, <1>7 DEF SocketReady
<1>10. DOMAIN q = PageFields /\ SameLine(q.v, q.v)
  BY <1>8, LineSteps DEF Sound, Loose, Shaped
<1>11. Aside(q, page')
  BY <1>9, <1>10 DEF Aside, PostReady, PageFields
<1> QED
  BY <1>8, <1>11, AsideKeeps

\* The ACTION reaches the page.
LEMMA SpeakStep ==
  ASSUME left.say \in Seq(Kinds), acts \in Seq(Ids), Sound(Ids, page), Speak
  PROVE  Sound(Ids, page')
<1>1. PICK id \in Ids : id = Head(acts)
  <2>1. acts # <<>>
    BY DEF Speak
  <2> QED
    BY <2>1, HeadTailProperties
<1>2. left.say[id] \in Kinds
  BY <1>1 DEF Ids
<1>3. page' = IF ~page.on \/ page.utt.id = id \/ id \in page.finished THEN page
              ELSE Spoken(page, id, left.say[id])
  BY <1>1 DEF Speak
<1>4. ASSUME page.utt.id # id, id \notin page.finished
      PROVE  Sound(Ids, Spoken(page, id, left.say[id]))
  BY <1>2, <1>4, SpokenKeeps
<1> QED
  BY <1>3, <1>4

-----------------------------------------------------------------------------
(* The specification.                                                      *)

\* The page is sound, and the channel carries utterances of the setting.
VInv ==
  /\ Sound(Ids, page) /\ acts \in Seq(Ids)
  /\ left.say \in Seq(Kinds) /\ "say" \in DOMAIN left

\* What goes wrong is spent, and the setting stays.
LEMMA SpendKeeps ==
  ASSUME "say" \in DOMAIN left, NEW cost, cost # "say", Spend(cost)
  PROVE  left'.say = left.say /\ "say" \in DOMAIN left'
BY DEF Spend

\* No step changes what is authorized, and what the channel carries is one of
\* the utterances.
LEMMA SettingKeeps ==
  ASSUME VInv, Next
  PROVE  left'.say = left.say /\ "say" \in DOMAIN left' /\ acts' \in Seq(Ids)
<1> USE DEF VInv
<1>1. UNCHANGED acts \/ acts' = <<>> \/ Authorize \/ Speak
  BY DEF Next, Dials, Settles, Happens, Minted, MintFails, SocketReady, OldSocketCloses, Rotate,
     Reconnect, ReportArrives, StrayArrives, StrayFails, ReadyPost, ReadyArrives, FrameArrives,
     LateFrameArrives, ChunkEnds,
     Thaw, TailMoves, Expire, StopTalking, WordsSettle, Leave, ReportFails, ReadyFails, Balk,
     Interrupt, Freeze, TailDies, StartTalking, ConfirmBargeIn, Mute, TranscriptArrives,
     FinishInput, Stop, Reload, Drop, ErrorFrame, GoAway, Start
<1>2. acts' \in Seq(Ids)
  <2>1. CASE UNCHANGED acts \/ acts' = <<>>
    <3>1. acts \in Seq(Ids) /\ <<>> \in Seq(Ids)
      BY EmptySeq
    <3> QED
      BY <2>1, <3>1
  <2>2. CASE Authorize
    <3>1. PICK id \in Ids : acts' = Append(acts, id)
      BY <2>2 DEF Authorize
    <3> QED
      BY <3>1
  <2>3. CASE Speak
    <3>1. acts # <<>> /\ acts' \in {acts, Tail(acts)}
      BY <2>3 DEF Speak
    <3>2. Tail(acts) \in Seq(Ids)
      BY <3>1, HeadTailProperties
    <3> QED
      BY <3>1, <3>2
  <2> QED
    BY <1>1, <2>1, <2>2, <2>3
<1>3. \/ UNCHANGED left
      \/ \E cost \in {"dup", "http", "balk", "cut", "freeze", "tail", "talk", "mute", "word",
                      "finish", "stop", "reload", "drop", "error", "goAway"} : Spend(cost)
  BY DEF Next, Dials, Settles, Happens, Minted, MintFails, SocketReady, OldSocketCloses, Rotate,
     Reconnect, ReportArrives, StrayArrives, StrayFails, ReadyPost, ReadyArrives, FrameArrives,
     LateFrameArrives, ChunkEnds,
     Thaw, TailMoves, Expire, StopTalking, WordsSettle, Leave, ReportFails, ReadyFails, Balk,
     Interrupt, Freeze, TailDies, StartTalking, ConfirmBargeIn, Mute, TranscriptArrives,
     FinishInput, Stop, Reload, Drop, ErrorFrame, GoAway, Start, Speak, Authorize
<1>4. left'.say = left.say /\ "say" \in DOMAIN left'
  BY <1>3, SpendKeeps
<1> QED
  BY <1>2, <1>4

\* It holds at first.
LEMMA VInit ==
  ASSUME Init
  PROVE  VInv
<1>1. left \in Settings /\ left.say \in Seq(Kinds) /\ "say" \in DOMAIN left /\ acts = <<>>
  BY VoiceAssumption DEF Init
<1>2. Ids \subseteq Nat \ {0} /\ acts \in Seq(Ids)
  <2>1. PICK n \in Nat : n = Len(left.say)
    BY <1>1
  <2> QED
    BY <1>1, <2>1 DEF Ids
<1>3. PICK told : told = [i \in Ids |-> None]
  OBVIOUS
<1>4. PICK owed : owed = [i \in Ids |-> Length(left.say[i])]
  OBVIOUS
<1>5. owed \in [Ids -> Int]
  <2>1. \A i \in Ids : Length(left.say[i]) \in Int
    BY DEF Length
  <2> QED
    BY <1>4, <2>1
<1>6. /\ DOMAIN page = PageFields /\ page.v = NoLine /\ page.utt = NoUtterance
      /\ page.tail = None /\ page.speaker = <<>> /\ page.air = <<>> /\ page.pending = 0
      /\ page.told = told /\ page.owed = owed /\ page.wake = <<>> /\ page.mixed = {}
  BY ZenonT(30), <1>3, <1>4 DEF Init, Silence, PageFields
<1>7. /\ page.utt.id = 0 /\ page.utt.got = 0 /\ DOMAIN page.utt = UtteranceFields
      /\ DOMAIN page.v = LineFields
  BY <1>6 DEF NoUtterance, UtteranceFields, NoLine, LineFields
<1>8. Shaped(Ids, page)
  <2>1. page.speaker \in Seq(Ids) /\ Len(page.air) <= 1
    BY <1>6
  <2>2. PICK S : S = [of : Ids, left : Nat, ends : BOOLEAN]
    OBVIOUS
  <2>3. page.air \in Seq(S) /\ page.wake \in Seq(S)
    BY <1>6
  <2> QED
    BY <1>2, <1>3, <1>5, <1>6, <1>7, <2>1, <2>2, <2>3 DEF Shaped
<1>9. Honest(Ids, page)
  BY <1>3, <1>6 DEF Honest, None
<1>10. Aired(page) /\ Waking(page) /\ Uttered(page) /\ Counted(page)
  <2>1. Len(page.wake) = 0
    BY <1>6
  <2> QED
    BY <1>6, <1>7, <2>1 DEF Aired, Waking, Uttered, Counted
<1> QED
  BY <1>1, <1>2, <1>8, <1>9, <1>10 DEF VInv, Sound, Loose

\* Every step keeps it.
LEMMA VStep ==
  ASSUME VInv, [Next]_vars
  PROVE  VInv'
<1>1. CASE UNCHANGED vars
  BY <1>1 DEF VInv, Ids, vars
<1>2. CASE Next
  <2>1. Sound(Ids, page) /\ left.say \in Seq(Kinds) /\ acts \in Seq(Ids)
    BY DEF VInv
  <2>2. \/ AsideSteps \/ EndSteps \/ FrameArrives \/ LateFrameArrives \/ Balk \/ ChunkEnds
        \/ SocketReady \/ Speak \/ TailMoves \/ TailDies \/ Authorize
    BY <1>2 DEF Next, Dials, Settles, Happens, AsideSteps, EndSteps
  <2>3. Authorize => page' = page
    BY DEF Authorize
  <2>4. Sound(Ids, page')
    <3>1. AsideSteps \/ EndSteps => Sound(Ids, page')
      BY <2>1, AsideStep, EndStep
    <3>2. FrameArrives \/ LateFrameArrives \/ Balk \/ ChunkEnds => Sound(Ids, page')
      BY <2>1, FrameStep, LateFrameStep, BalkStep, ChunkStep
    <3>3. TailMoves \/ TailDies \/ SocketReady \/ Speak => Sound(Ids, page')
      BY <2>1, TailStep, SocketStep, SpeakStep
    <3> QED
      BY <2>1, <2>2, <2>3, <3>1, <3>2, <3>3
  <2>5. left'.say = left.say /\ "say" \in DOMAIN left' /\ acts' \in Seq(Ids)
    BY <1>2, SettingKeeps
  <2>6. Ids' = Ids
    BY <2>5 DEF Ids
  <2> QED
    BY <2>1, <2>4, <2>5, <2>6 DEF VInv
<1> QED
  BY <1>1, <1>2

\* An utterance told as completed was heard to its end, unless it was asked for
\* while the socket still carried frames of an earlier turn
\* (realtime-voice.ts:351, :655-660).
THEOREM CompletedIsHeard == Spec => []CompletedWasHeard
<1>1. Init => VInv
  BY VInit
<1>2. VInv /\ [Next]_vars => VInv'
  BY VStep
<1>3. VInv => CompletedWasHeard
  BY DEF VInv, Sound, Loose, Honest, CompletedWasHeard
<1> QED
  BY <1>1, <1>2, <1>3, PTL DEF Spec

=============================================================================
