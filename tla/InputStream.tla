---------------------------- MODULE InputStream ----------------------------
(***************************************************************************)
(* What the browser and the server promise together about the candidate's  *)
(* input, whatever the connection between them does: everything the        *)
(* candidate does is numbered, the session's record holds numbered inputs  *)
(* without a gap and each number once, and an input is reported as         *)
(* delivered only once it is on record.                                    *)
(***************************************************************************)
EXTENDS Naturals, Sequences

VARIABLES
  made,   \* the inputs the candidate has produced
  kept,   \* the inputs on record, in order
  told    \* the inputs whose page knows they are on record

stream == <<made, kept, told>>

OnRecord == {kept[i] : i \in DOMAIN kept}

Start == made = {} /\ kept = <<>> /\ told = {}

Make(e) == /\ e \notin made
           /\ made' = made \cup {e}
           /\ UNCHANGED <<kept, told>>

\* The next input on record is the one numbered next.
Keep(e) == /\ e \in made /\ e.seq = Len(kept)
           /\ kept' = Append(kept, e)
           /\ UNCHANGED <<made, told>>

Tell(e) == /\ e \in OnRecord
           /\ told' = told \cup {e}
           /\ UNCHANGED <<made, kept>>

Step == \E e \in made' : Make(e) \/ Keep(e) \/ Tell(e)

Promise == Start /\ [][Step]_stream

=============================================================================
