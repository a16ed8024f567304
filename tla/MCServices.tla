----------------------------- MODULE MCServices -----------------------------
(***************************************************************************)
(* The services beside the conversation: the run queue, the breakers in     *)
(* front of the model provider, the cache of rendered lines, and the        *)
(* browser's microphone.  They share no state, so a behaviour exercises one *)
(* of them, chosen at the start, and leaves the others as they are.         *)
(***************************************************************************)
EXTENDS RunQueue, Breakers, SpeechCache, Microphone

VARIABLE focus
vars == <<focus, runVars, breakerVars, cacheVars, micVars>>

Init == /\ focus \in {"runs", "breakers", "cache", "microphone"}
        /\ RunInit /\ BreakerInit /\ CacheInit
        /\ CaptureInit /\ (focus # "microphone" => plugged = {})
        /\ (focus # "breakers" => provider = "up")

Next == /\ UNCHANGED focus
        /\ \/ focus = "runs" /\ RunNext /\ UNCHANGED <<breakerVars, cacheVars, micVars>>
           \/ focus = "breakers" /\ BreakerNext /\ UNCHANGED <<runVars, cacheVars, micVars>>
           \/ focus = "cache" /\ CacheNext /\ UNCHANGED <<runVars, breakerVars, micVars>>
           \/ focus = "microphone" /\ MicNext /\ UNCHANGED <<runVars, breakerVars, cacheVars>>

\* What the code's scheduling brings about, of the part that runs.
FairSpec ==
  /\ Init /\ [][Next]_vars
  /\ \A r \in Runs : WF_runVars(focus = "runs" /\ RunStep(r))
  /\ \A s \in RunSessions : WF_runVars(focus = "runs" /\ Dispatch(s))
  /\ WF_breakerVars(focus = "breakers" /\ Pass)
  /\ SF_breakerVars(focus = "breakers" /\ Admitted)
  /\ \A k \in Callers : /\ SF_breakerVars(focus = "breakers" /\ Classify(k))
                         /\ WF_breakerVars(focus = "breakers" /\ Answered(k))
                         /\ WF_breakerVars(focus = "breakers" /\ Classified(k))
  /\ WF_micVars(focus = "microphone" /\ MicStep)

\* Two runs of one session and one of another.
SessionOfRun == [r \in 1..3 |-> IF r = 3 THEN "b" ELSE "a"]
=============================================================================
