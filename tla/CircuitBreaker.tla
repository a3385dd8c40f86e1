--------------------------- MODULE CircuitBreaker ---------------------------
(***************************************************************************)
(* The circuit breaker of one Hermes provider.  It has no lock: its state, *)
(* the count of consecutive failures, the count of probes and the time of  *)
(* the last failure are four atomics, and every load, store, exchange and  *)
(* fetch_add is a step of its own here.  Each call asks the breaker,       *)
(* invokes the tool, and tells the breaker of a success or a provider      *)
(* failure; a client error, or a request whose caller went away, tells it  *)
(* nothing.                                                                *)
(***************************************************************************)
EXTENDS Integers, FiniteSets, FiniteSetsExt

CONSTANTS
  Calls,      \* requests in flight at once, each followed by another one
  Threshold,  \* failure_threshold
  Recovery,   \* recovery_timeout_ms, in units of the clock
  ProbeMax,   \* half_open_max
  Silent      \* some invocations end in neither a success nor a failure

(* What the constants are assumed to be, by the modules that give them values: *)
(* the environment sets the first three, and nobody checks that they are not 0. *)
CircuitConstants ==
  /\ Threshold \in Nat /\ Recovery \in Nat /\ ProbeMax \in Nat /\ Silent \in BOOLEAN

VARIABLES
  state,   \* closed, open or half_open
  fails,   \* consecutive_failures, counted up to Threshold
  half,    \* half_open_calls, counted up to ProbeMax
  age,     \* the time since last_failure_ms, counted up to Recovery
  up,      \* the provider answers
  pc,      \* where each call is
  seen,    \* the failure count each failing call was given
  unheard  \* history: a call has ended unrecorded since the probes were last cleared

breaker == <<state, fails, half, age>>
breakerVars == <<breaker, up, pc, seen, unheard>>

Capped(n, cap) == Min({n, cap})

CircuitInit ==
  /\ state = "closed" /\ fails = 0 /\ half = 0 /\ age = Recovery
  /\ up \in BOOLEAN
  /\ pc = [c \in Calls |-> "idle"] /\ seen = [c \in Calls |-> 0] /\ unheard = FALSE

At(c, step) == pc[c] = step
Go(c, step) == pc' = [pc EXCEPT ![c] = step]

-----------------------------------------------------------------------------
(* decide: the load of the state, and what follows it.                     *)

Decide(c) ==
  /\ At(c, "idle")
  /\ Go(c, CASE state = "closed" -> "running"
             [] state = "half_open" -> "probe"
             [] state = "open" -> "elapsed")
  /\ UNCHANGED <<breaker, up, seen, unheard>>

\* Variant: an open breaker stays open.
ElapsedNever(c) ==
  /\ At(c, "elapsed") /\ Go(c, "idle")
  /\ UNCHANGED <<breaker, up, seen, unheard>>

(* An open breaker rejects until the recovery window is over.              *)
Elapsed(c) ==
  /\ At(c, "elapsed")
  /\ Go(c, IF age >= Recovery THEN "exchange" ELSE "idle")
  /\ UNCHANGED <<breaker, up, seen, unheard>>

Exchange(c) ==
  /\ At(c, "exchange")
  /\ IF state = "open"
     THEN state' = "half_open" /\ Go(c, "reset")
     ELSE state' = state /\ Go(c, "probe")
  /\ UNCHANGED <<fails, half, age, up, seen, unheard>>

ResetProbes(c) ==
  /\ At(c, "reset") /\ half' = 0 /\ unheard' = FALSE /\ Go(c, "probe")
  /\ UNCHANGED <<state, fails, age, up, seen>>

Probe(c) ==
  /\ At(c, "probe")
  /\ half' = Capped(half + 1, ProbeMax)
  /\ IF half < ProbeMax
     THEN Go(c, "running")
     ELSE Go(c, "idle")
  /\ UNCHANGED <<state, fails, age, up, seen, unheard>>

-----------------------------------------------------------------------------
(* invoke_with_circuit: the answer of the tool and what is recorded of it. *)

Answered(c, outcome) ==
  /\ At(c, "running") /\ Go(c, outcome)
  /\ UNCHANGED <<breaker, up, seen>>

Invoked(c) == Answered(c, IF up THEN "cleared" ELSE "failed") /\ UNCHANGED unheard

\* A client error, or a request that is dropped, is neither a success nor a failure.
Unrecorded(c) == Silent /\ Answered(c, "idle") /\ unheard' = TRUE

ClearFails(c) ==
  /\ At(c, "cleared") /\ fails' = 0 /\ Go(c, "freed")
  /\ UNCHANGED <<state, half, age, up, seen, unheard>>

FreeProbes(c) ==
  /\ At(c, "freed") /\ half' = 0 /\ unheard' = FALSE /\ Go(c, "closing")
  /\ UNCHANGED <<state, fails, age, up, seen>>

Close(c) ==
  /\ At(c, "closing") /\ state' = "closed" /\ Go(c, "idle")
  /\ UNCHANGED <<fails, half, age, up, seen, unheard>>

Stamp(c) ==
  /\ At(c, "failed") /\ age' = 0 /\ Go(c, "stamped")
  /\ UNCHANGED <<state, fails, half, up, seen, unheard>>

Count(c) ==
  /\ At(c, "stamped")
  /\ fails' = Capped(fails + 1, Threshold)
  /\ seen' = [seen EXCEPT ![c] = fails']
  /\ Go(c, "counted")
  /\ UNCHANGED <<state, half, age, up, unheard>>

\* Variant: a failed probe counts like any failure.
JudgeByCountAlone(c) ==
  /\ At(c, "counted")
  /\ Go(c, IF state = "closed" /\ seen[c] >= Threshold THEN "opening" ELSE "idle")
  /\ UNCHANGED <<breaker, up, seen, unheard>>

\* on_failure: a failure while half open trips at once, and so does the threshold.
Judge(c) ==
  /\ At(c, "counted")
  /\ Go(c, IF state = "half_open" \/ seen[c] >= Threshold THEN "opening" ELSE "idle")
  /\ UNCHANGED <<breaker, up, seen, unheard>>

\* The breaker opens; its time was stored before the count.
Trip(c) ==
  /\ At(c, "opening") /\ state' = "open" /\ Go(c, "idle")
  /\ UNCHANGED <<fails, half, age, up, seen, unheard>>

-----------------------------------------------------------------------------
(* Time and the provider.                                                  *)

Clock == age < Recovery /\ age' = age + 1 /\ UNCHANGED <<state, fails, half, up, pc, seen, unheard>>

Provider == up' = ~up /\ UNCHANGED <<breaker, pc, seen, unheard>>

Step(c) ==
  \/ Decide(c) \/ Elapsed(c) \/ Exchange(c) \/ ResetProbes(c) \/ Probe(c)
  \/ Invoked(c) \/ Unrecorded(c)
  \/ ClearFails(c) \/ FreeProbes(c) \/ Close(c)
  \/ Stamp(c) \/ Count(c) \/ Judge(c) \/ Trip(c)

BreakerNext == Clock \/ Provider \/ \E c \in Calls : Step(c)

BreakerSpec == CircuitInit /\ [][BreakerNext]_breakerVars

(* Time passes, requests keep coming and every invocation ends: the tools  *)
(* call with timeouts.                                                     *)
BusySpec == BreakerSpec /\ WF_breakerVars(Clock) /\ \A c \in Calls : WF_breakerVars(Step(c))

-----------------------------------------------------------------------------
(* Properties.                                                             *)

Steps == {"idle", "elapsed", "exchange", "reset", "probe", "running", "cleared",
          "freed", "closing", "failed", "stamped", "counted", "opening"}

(* A half-open breaker that lets no more probes in is waiting for a call:   *)
(* one that was let in and has not told its result yet, or the one that is  *)
(* about to clear the count of probes after opening the window.  Only a     *)
(* call that ended unrecorded may leave it waiting for nobody, and a        *)
(* half_open_max of 0, with which nobody is ever let in (see Stuck).        *)
NoWedge ==
  (ProbeMax > 0 /\ state = "half_open" /\ half >= ProbeMax /\ ~unheard) =>
    \E c \in Calls : pc[c] \in Steps \ {"idle", "elapsed", "exchange", "probe"}

(* A half-open breaker with no call past the probe: with a half_open_max of *)
(* 0 it rejects every call from then on.                                    *)
Stuck ==
  /\ state = "half_open"
  /\ \A c \in Calls : pc[c] \in {"idle", "elapsed", "exchange", "reset", "probe"}

(* With the values of the atomics this is inductive.                        *)
BreakerTypeOK ==
  /\ state \in {"closed", "open", "half_open"} /\ half \in 0 .. ProbeMax
  /\ pc \in [Calls -> Steps] /\ unheard \in BOOLEAN

BreakerInv == BreakerTypeOK /\ NoWedge

(* Once the provider answers for good, the breaker closes for good, whatever *)
(* failures are still being recorded at that time, as long as every answer  *)
(* is recorded and ProbeMax is not 0.                                        *)
Recovers == <>[]up => <>[](state = "closed")
=============================================================================
