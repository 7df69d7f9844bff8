--------------------------- MODULE CircuitBreaker ---------------------------
(***************************************************************************)
(* The circuit breaker around the calls to a language model                *)
(* (harness/middleware/llm_error_handling.py): calls of many threads and   *)
(* tasks that share one breaker, each retried with a backoff.              *)
(*                                                                         *)
(* The methods of the breaker hold its lock, so each is one action.  Only  *)
(* whether the count of failures has reached the threshold is ever asked,  *)
(* so the count stays there; the time since the breaker opened stays at    *)
(* Recovery for the same reason.                                           *)
(***************************************************************************)
EXTENDS Integers, FiniteSets

CONSTANTS
  Callers,     \* the calls in flight at a time
  Threshold,   \* failure_threshold
  Recovery,    \* recovery_timeout_s, in ticks
  MaxRetries   \* max_retries

ASSUME BreakerAssumption ==
  /\ Threshold \in Nat \ {0} /\ Recovery \in Nat /\ MaxRetries \in Nat

VARIABLES
  failures,  \* _consecutive_failures, at most Threshold
  opened,    \* _opened_at is set
  since,     \* the time since _opened_at, at most Recovery
  trial,     \* _half_open_trial
  call,      \* [Callers -> [pc, attempt, probe]]: probe, the call was let in as a trial
  lost       \* history: since the last report a trial ended without one

breaker == <<failures, opened, since, trial, lost>>
vars == <<breaker, call>>

Idle == [pc |-> "idle", attempt |-> 0, probe |-> FALSE]
Calling(probe) == [pc |-> "calling", attempt |-> 0, probe |-> probe]

Init ==
  /\ failures = 0 /\ opened = FALSE /\ since = 0 /\ trial = FALSE
  /\ call = [c \in Callers |-> Idle]
  /\ lost = FALSE

-----------------------------------------------------------------------------
(* before_call *)

BeginClosed(c) ==
  /\ call[c].pc = "idle" /\ ~opened
  /\ call' = [call EXCEPT ![c] = Calling(FALSE)]
  /\ UNCHANGED breaker

BeginTrial(c) ==
  /\ call[c].pc = "idle" /\ opened /\ since = Recovery /\ ~trial
  /\ trial' = TRUE
  /\ call' = [call EXCEPT ![c] = Calling(TRUE)]
  /\ UNCHANGED <<failures, opened, since, lost>>

\* The breaker raises.
Refuse(c) ==
  /\ call[c].pc = "idle" /\ opened /\ (since < Recovery \/ trial)
  /\ call' = [call EXCEPT ![c].pc = "refused"]
  /\ UNCHANGED breaker

-----------------------------------------------------------------------------
(* The ends of a call. *)

Ends(c) == call' = [call EXCEPT ![c] = Idle]

GoAway(c) == call[c].pc = "refused" /\ Ends(c) /\ UNCHANGED breaker

\* record_success
Succeed(c) ==
  /\ call[c].pc = "calling" /\ Ends(c)
  /\ failures' = 0 /\ opened' = FALSE /\ since' = 0 /\ trial' = FALSE
  /\ lost' = FALSE

\* Variant: the failure after the threshold is the one that opens.
Tripped_Late == opened \/ failures = Threshold

Counted == IF failures < Threshold THEN failures + 1 ELSE failures
Tripped == opened \/ Counted = Threshold

\* Variant: the trial is not taken back.
RecordFailure_KeepsTrial ==
  /\ failures' = Counted /\ opened' = Tripped
  /\ since' = 0 /\ lost' = FALSE /\ UNCHANGED trial

\* record_failure
RecordFailure ==
  /\ failures' = Counted /\ trial' = FALSE
  /\ opened' = Tripped /\ since' = 0 /\ lost' = FALSE

\* The attempts are used up, or the exception is not one to retry.
Fail(c) == call[c].pc = "calling" /\ Ends(c) /\ RecordFailure

Retry(c) ==
  /\ call[c].pc = "calling" /\ call[c].attempt < MaxRetries
  /\ call' = [call EXCEPT ![c].pc = "waiting"]
  /\ UNCHANGED breaker

TryAgain(c) ==
  /\ call[c].pc = "waiting"
  /\ call' = [call EXCEPT ![c] = [pc |-> "calling", attempt |-> @.attempt + 1, probe |-> @.probe]]
  /\ UNCHANGED breaker

\* A cancellation, also of the backoff's sleep, and what _must_bubble names.
Bubble(c) ==
  /\ call[c].pc \in {"calling", "waiting"} /\ Ends(c)
  /\ lost' = (lost \/ call[c].probe)
  /\ UNCHANGED <<failures, opened, since, trial>>

Tick ==
  /\ opened /\ since < Recovery
  /\ since' = since + 1
  /\ UNCHANGED <<failures, opened, trial, call, lost>>

Finish(c) == Succeed(c) \/ Fail(c) \/ TryAgain(c)
Next ==
  \/ Tick
  \/ \E c \in Callers : \/ BeginClosed(c) \/ BeginTrial(c) \/ Refuse(c) \/ GoAway(c)
                         \/ Finish(c) \/ Retry(c) \/ Bubble(c)

Spec == Init /\ [][Next]_vars

\* Time passes, and every attempt of a call returns.
Fairness == WF_vars(Tick) /\ \A c \in Callers : WF_vars(Finish(c))
FairSpec == Spec /\ Fairness

-----------------------------------------------------------------------------
(* Properties. *)

CallState ==
  {s \in [pc : {"idle", "refused", "calling", "waiting"}, attempt : 0..MaxRetries, probe : BOOLEAN] :
     s.pc = "waiting" => s.attempt < MaxRetries}

TypeOK ==
  /\ failures \in 0..Threshold /\ since \in 0..Recovery
  /\ opened \in BOOLEAN /\ trial \in BOOLEAN /\ lost \in BOOLEAN
  /\ call \in [Callers -> CallState]

Probing(c) == call[c].probe

\* The breaker is open exactly when the last Threshold results were failures,
\* whatever calls of before it opened report late.
OpenIffFailing == opened <=> failures = Threshold

\* "LLM circuit breaker half-open trial is in flight.": a call refused for a
\* trial is refused for one that will report, unless that trial was cancelled.
TrialInFlight == trial => opened /\ (lost \/ \E c \in Callers : Probing(c))

\* The breaker always comes to let a call in, unless a trial was cancelled.
Accepting == opened => since = Recovery /\ ~trial
KeepsAccepting == []<>(Accepting \/ lost)
=============================================================================
