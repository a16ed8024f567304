------------------------------ MODULE Breakers ------------------------------
(***************************************************************************)
(* The two circuit breakers that keep calls away from a provider in         *)
(* trouble, with their callers in flight at once:                           *)
(*                                                                         *)
(*   ProviderCircuit (lib/provider-circuit.ts), as the realtime-token route *)
(*     (session/index.ts) and the independent evaluator                     *)
(*     (report/independent-evaluator.ts) use it.  After its cool-down one   *)
(*     call at a time is let through to probe the provider.                 *)
(*   The classifier's own (orchestrator/gemini-classifier.ts): no probe,    *)
(*     and a turn it keeps away is classified by rules.                     *)
(*                                                                         *)
(* Time passes in units; a call is answered within its timeout.            *)
(***************************************************************************)
EXTENDS Integers, FiniteSets

CONSTANTS Callers,          \* calls that may be in flight at once, per breaker
          Threshold,        \* failures that open a breaker
          Cooldown, Timeout \* in units of time

ASSUME BreakersAssumption ==
  /\ Threshold \in Nat \ {0} /\ Cooldown \in Nat \ {0}
  /\ Timeout \in 1..(Cooldown - 1)

VARIABLES provider, \* "up", "limited" (answers 429) or "down"
          circuit,  \* ProviderCircuit: failures, open, wait (openUntil - now), probe
          breaker,  \* GeminiClassifier: failures, wait (breakerOpenUntilMs - now)
          calls,    \* per caller: the age of its call through the circuit, or Free
          turns,    \* per caller: the age of its classification, or Free
          by        \* per caller: what classified its last turn

breakerVars == <<provider, circuit, breaker, calls, turns, by>>

Free == -1

BreakerInit ==
  /\ provider \in {"up", "limited", "down"}
  /\ circuit = [failures |-> 0, open |-> FALSE, wait |-> 0, probe |-> FALSE]
  /\ breaker = [failures |-> 0, wait |-> 0]
  /\ calls = [k \in Callers |-> Free] /\ turns = [k \in Callers |-> Free]
  /\ by = [k \in Callers |-> "none"]

-----------------------------------------------------------------------------
(* ProviderCircuit.                                                        *)

\* state() = "HALF_OPEN".
HalfOpen == circuit.open /\ circuit.wait = 0

\* tryAcquire() = true ...
MayCall == ~circuit.open \/ (circuit.wait = 0 /\ ~circuit.probe)

\* ... and what it leaves.
Acquired == [circuit EXCEPT !.probe = circuit.open]

Succeeded(c) == [failures |-> 0, open |-> FALSE, wait |-> 0, probe |-> FALSE]

Failed(c, immediate) ==
  IF immediate \/ c.probe \/ c.failures + 1 >= Threshold
  THEN [failures |-> 0, open |-> TRUE, wait |-> Cooldown, probe |-> FALSE]
  ELSE [c EXCEPT !.failures = @ + 1, !.probe = FALSE]

\* Defect: a call that is not made after all keeps the probe.
ReleasedNot(c) == c

Released(c) == [c EXCEPT !.probe = FALSE]

\* generate, and the realtime-token route up to its mint.  A session whose
\* mint cap is reached gives the acquisition back (MintLimiter.take).
Call(k) ==
  /\ calls[k] = Free /\ MayCall
  /\ \/ /\ calls' = [calls EXCEPT ![k] = 0] /\ circuit' = Acquired
     \/ UNCHANGED calls /\ circuit' = Released(Acquired)
  /\ UNCHANGED <<provider, breaker, turns, by>>

Answered(k) ==
  /\ calls[k] # Free
  /\ calls' = [calls EXCEPT ![k] = Free]
  /\ circuit' = IF provider = "up" THEN Succeeded(circuit)
                ELSE Failed(circuit, provider = "limited")
  /\ UNCHANGED <<provider, breaker, turns, by>>

-----------------------------------------------------------------------------
(* GeminiClassifier.                                                       *)

BreakerOpen == breaker.wait > 0

\* recordFailure.
RecordFailure(b) ==
  IF provider = "limited" \/ b.failures + 1 >= Threshold
  THEN [failures |-> 0, wait |-> Cooldown]
  ELSE [b EXCEPT !.failures = @ + 1]

\* degrade, with the breaker open: classified by rules, and labelled so.
Degrade(k) == by' = [by EXCEPT ![k] = "rules"] /\ UNCHANGED breaker

\* classify and classifySpeculative of a finalized turn that is not cached.
\* (An unfinished turn, a cached one and a request for the brief never get
\* this far, and change nothing here.)
Classify(k) ==
  /\ turns[k] = Free
  /\ \/ BreakerOpen /\ Degrade(k) /\ UNCHANGED turns
     \/ /\ ~BreakerOpen /\ turns' = [turns EXCEPT ![k] = 0]
        /\ UNCHANGED <<breaker, by>>
  /\ UNCHANGED <<provider, circuit, calls>>

\* The model's answer, which validation may still reject, or its failure.
Classified(k) ==
  /\ turns[k] # Free
  /\ turns' = [turns EXCEPT ![k] = Free]
  /\ IF provider = "up"
     THEN /\ breaker' = [breaker EXCEPT !.failures = 0]
          /\ by' = [by EXCEPT ![k] = "model"]
     ELSE /\ breaker' = RecordFailure(breaker)
          /\ by' = [by EXCEPT ![k] = "rules"]
  /\ UNCHANGED <<provider, circuit, calls>>

-----------------------------------------------------------------------------
Less(n) == IF n > 0 THEN n - 1 ELSE 0
Older(ages) == [k \in Callers |-> IF ages[k] = Free THEN Free ELSE ages[k] + 1]

\* A unit of time passes: no call outlives its timeout.
Pass ==
  /\ \A k \in Callers : calls[k] < Timeout /\ turns[k] < Timeout
  /\ circuit' = [circuit EXCEPT !.wait = Less(@)]
  /\ breaker' = [breaker EXCEPT !.wait = Less(@)]
  /\ calls' = Older(calls) /\ turns' = Older(turns)
  /\ UNCHANGED <<provider, by>>

\* The provider recovers.
Recovers ==
  /\ provider # "up" /\ provider' = "up"
  /\ UNCHANGED <<circuit, breaker, calls, turns, by>>

\* The provider fails, or runs out of quota.
Degrades ==
  /\ provider' \in {"limited", "down"} \ {provider}
  /\ UNCHANGED <<circuit, breaker, calls, turns, by>>

BreakerNext == \/ \E k \in Callers : Call(k) \/ Answered(k) \/ Classify(k) \/ Classified(k)
               \/ Pass \/ Recovers \/ Degrades

\* Somebody asks for voice, and is let through.
Admitted == \E k \in Callers : Call(k) /\ calls'[k] # Free

-----------------------------------------------------------------------------
(* A provider that stays up is called again: the circuit does not stay open *)
(* once the trouble is over ...                                             *)
VoiceComesBack == <>[](provider = "up") => <>[]~circuit.open

=============================================================================
