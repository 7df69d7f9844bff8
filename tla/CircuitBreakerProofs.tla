------------------------ MODULE CircuitBreakerProofs ------------------------
(***************************************************************************)
(* Proofs about CircuitBreaker, for any number of callers, any threshold,  *)
(* recovery time and number of retries.                                    *)
(***************************************************************************)
EXTENDS CircuitBreaker, TLAPS

\* Only a call under way is a trial.
ProbesRun == \A c \in Callers : call[c].probe => call[c].pc \in {"calling", "waiting"}

\* The inductive invariant.
IInv ==
  /\ TypeOK
  /\ OpenIffFailing
  /\ ProbesRun
  /\ TrialInFlight

LEMMA InitInv == Init => IInv
  <1> SUFFICES ASSUME Init PROVE IInv
    OBVIOUS
  <1> USE DEF Init
  <1>a. failures \in 0..Threshold /\ since \in 0..Recovery /\ failures # Threshold
    BY BreakerAssumption
  <1>1. /\ failures \in 0..Threshold /\ since \in 0..Recovery
        /\ opened \in BOOLEAN /\ trial \in BOOLEAN /\ lost \in BOOLEAN
        /\ opened <=> failures = Threshold
    BY <1>a, Zenon
  <1>2. \A c \in Callers : call[c] = Idle
    OBVIOUS
  <1>3. Idle \in CallState /\ Idle.probe = FALSE
    BY BreakerAssumption DEF Idle, CallState
  <1>4. call \in [Callers -> CallState]
    BY <1>3
  <1>5. QED
    BY <1>1, <1>2, <1>3, <1>4 DEF IInv, TypeOK, OpenIffFailing, ProbesRun, TrialInFlight

\* What a caller's step does to its own entry: it goes on with what it was, or
\* it is idle, or it begins.
LEMMA CallStep ==
  ASSUME IInv, NEW c \in Callers, NEW s \in CallState, call' = [call EXCEPT ![c] = s],
         s.probe => s.pc \in {"calling", "waiting"}
  PROVE  /\ call' \in [Callers -> CallState] /\ ProbesRun'
         /\ call'[c] = s /\ \A d \in Callers \ {c} : call'[d] = call[d]
  BY DEF IInv, TypeOK, ProbesRun

\* A step that leaves the breaker alone and ends no trial keeps the invariant.
LEMMA BreakerAlone ==
  ASSUME IInv, NEW c \in Callers, NEW s \in CallState, call' = [call EXCEPT ![c] = s],
         UNCHANGED breaker,
         s.probe => s.pc \in {"calling", "waiting"},
         call[c].probe => s.probe
  PROVE  IInv'
  <1>1. /\ call' \in [Callers -> CallState] /\ ProbesRun'
        /\ call'[c] = s /\ \A d \in Callers \ {c} : call'[d] = call[d]
    BY CallStep
  <1>2. TypeOK' /\ OpenIffFailing'
    BY <1>1 DEF IInv, TypeOK, OpenIffFailing, breaker
  <1>3. TrialInFlight'
    BY <1>1 DEF IInv, TrialInFlight, Probing, breaker
  <1>4. QED
    BY <1>1, <1>2, <1>3 DEF IInv

\* A step that reports sets the breaker as a whole and takes the trial back.
LEMMA Report ==
  ASSUME IInv, NEW c \in Callers, Ends(c),
         failures' \in 0..Threshold, opened' \in BOOLEAN, since' = 0, trial' = FALSE,
         lost' = FALSE, opened' <=> failures' = Threshold
  PROVE  IInv'
  <1>1. Idle \in CallState /\ Idle.probe = FALSE
    BY BreakerAssumption DEF Idle, CallState
  <1>2. call' \in [Callers -> CallState] /\ ProbesRun'
    BY <1>1, CallStep DEF Ends
  <1>3. since' \in 0..Recovery
    BY BreakerAssumption
  <1>4. QED
    BY <1>2, <1>3 DEF IInv, TypeOK, OpenIffFailing, TrialInFlight

LEMMA NextInv == IInv /\ [Next]_vars => IInv'
  <1> SUFFICES ASSUME IInv, [Next]_vars PROVE IInv'
    OBVIOUS
  <1>1. CASE UNCHANGED vars
    BY <1>1 DEF IInv, TypeOK, OpenIffFailing, ProbesRun, TrialInFlight, Probing, vars, breaker
  <1>2. CASE Tick
    <2>1. since' \in 0..Recovery
      BY <1>2, BreakerAssumption DEF Tick, IInv, TypeOK
    <2>2. QED
      BY <1>2, <2>1 DEF Tick, IInv, TypeOK, OpenIffFailing, ProbesRun, TrialInFlight, Probing
  <1>3. ASSUME NEW c \in Callers PROVE Calling(TRUE) \in CallState /\ Calling(FALSE) \in CallState
                                       /\ Idle \in CallState
    BY BreakerAssumption DEF Calling, CallState, Idle
  <1>4. ASSUME NEW c \in Callers, BeginClosed(c) PROVE IInv'
    <2>1. ~call[c].probe
      BY <1>4 DEF BeginClosed, IInv, ProbesRun
    <2>2. Calling(FALSE).pc = "calling"
      BY DEF Calling
    <2>3. QED
      BY <1>3, <1>4, <2>1, <2>2, BreakerAlone DEF BeginClosed
  <1>5. ASSUME NEW c \in Callers, BeginTrial(c) PROVE IInv'
    <2>1. Calling(TRUE).pc = "calling" /\ Calling(TRUE).probe = TRUE
      BY DEF Calling
    <2>2. call' \in [Callers -> CallState] /\ ProbesRun' /\ call'[c] = Calling(TRUE)
      BY <1>3, <1>5, <2>1, CallStep DEF BeginTrial
    <2>3. TypeOK' /\ OpenIffFailing'
      BY <1>5, <2>2 DEF BeginTrial, IInv, TypeOK, OpenIffFailing
    <2>4. TrialInFlight'
      BY <1>5, <2>1, <2>2 DEF BeginTrial, TrialInFlight, Probing
    <2>5. QED
      BY <2>2, <2>3, <2>4 DEF IInv
  <1>6. ASSUME NEW c \in Callers, Refuse(c) PROVE IInv'
    <2> DEFINE s == [call[c] EXCEPT !.pc = "refused"]
    <2>1. ~call[c].probe /\ call[c] \in CallState
      BY <1>6 DEF Refuse, IInv, TypeOK, ProbesRun
    <2>2. s \in CallState /\ ~s.probe
      BY <2>1 DEF CallState
    <2>3. call' = [call EXCEPT ![c] = s] /\ UNCHANGED breaker
      BY <1>6 DEF Refuse
    <2>4. QED
      BY <2>1, <2>2, <2>3, BreakerAlone
  <1>7. ASSUME NEW c \in Callers, GoAway(c) PROVE IInv'
    <2>1. ~call[c].probe
      BY <1>7 DEF GoAway, IInv, ProbesRun
    <2>2. ~Idle.probe
      BY DEF Idle
    <2>3. QED
      BY <1>3, <1>7, <2>1, <2>2, BreakerAlone DEF GoAway, Ends
  <1>8. ASSUME NEW c \in Callers, Succeed(c) PROVE IInv'
    <2>1. 0 \in 0..Threshold /\ 0 # Threshold
      BY BreakerAssumption
    <2>2. failures' \in 0..Threshold /\ (opened' <=> failures' = Threshold)
      BY <1>8, <2>1, Zenon DEF Succeed
    <2>3. QED
      BY <1>8, <2>2, Report DEF Succeed
  <1>9. ASSUME NEW c \in Callers, Fail(c) PROVE IInv'
    <2>1. Counted \in 0..Threshold
      BY BreakerAssumption DEF Counted, IInv, TypeOK
    <2>2. opened => Counted = Threshold
      BY BreakerAssumption DEF Counted, IInv, TypeOK, OpenIffFailing
    <2>3. Tripped \in BOOLEAN /\ (Tripped <=> Counted = Threshold)
      BY <2>2 DEF Tripped, IInv, TypeOK
    <2>4. QED
      BY <1>9, <2>1, <2>3, Report DEF Fail, RecordFailure
  <1>10. ASSUME NEW c \in Callers, Retry(c) PROVE IInv'
    <2> DEFINE s == [call[c] EXCEPT !.pc = "waiting"]
    <2>1. call[c] \in CallState
      BY DEF IInv, TypeOK
    <2>2. s \in CallState /\ s.pc = "waiting" /\ s.probe = call[c].probe
      BY <1>10, <2>1, BreakerAssumption DEF CallState, Retry
    <2>3. call' = [call EXCEPT ![c] = s] /\ UNCHANGED breaker
      BY <1>10 DEF Retry
    <2>4. QED
      BY <2>2, <2>3, BreakerAlone
  <1>11. ASSUME NEW c \in Callers, TryAgain(c) PROVE IInv'
    <2> DEFINE s == [pc |-> "calling", attempt |-> call[c].attempt + 1, probe |-> call[c].probe]
    <2>1. call[c] \in CallState /\ call[c].pc = "waiting"
      BY <1>11 DEF IInv, TypeOK, TryAgain
    <2>2. call[c].attempt \in 0..MaxRetries /\ call[c].attempt < MaxRetries /\ call[c].probe \in BOOLEAN
      BY <2>1 DEF CallState
    <2>3. call[c].attempt + 1 \in 0..MaxRetries
      BY <2>2, BreakerAssumption
    <2>4. s \in CallState
      BY <2>2, <2>3 DEF CallState
    <2>5. call' = [call EXCEPT ![c] = s] /\ UNCHANGED breaker
      BY <1>11, <2>1 DEF TryAgain, CallState
    <2>6. s.pc = "calling" /\ s.probe = call[c].probe
      OBVIOUS
    <2>7. QED
      BY <2>4, <2>5, <2>6, BreakerAlone
  <1>12. ASSUME NEW c \in Callers, Bubble(c) PROVE IInv'
    <2>1. ~Idle.probe
      BY DEF Idle
    <2>2. /\ call' \in [Callers -> CallState] /\ ProbesRun'
          /\ \A d \in Callers \ {c} : call'[d] = call[d]
      BY <1>3, <1>12, <2>1, CallStep DEF Bubble, Ends
    <2>3. call[c].probe \in BOOLEAN
      BY DEF IInv, TypeOK, CallState
    <2>4. lost' \in BOOLEAN
      BY <1>12, <2>3, Zenon DEF Bubble, IInv, TypeOK
    <2>5. TypeOK' /\ OpenIffFailing'
      BY <1>12, <2>2, <2>4 DEF Bubble, IInv, TypeOK, OpenIffFailing
    <2>6. TrialInFlight'
      BY <1>12, <2>2 DEF Bubble, IInv, TrialInFlight, Probing
    <2>7. QED
      BY <2>2, <2>5, <2>6 DEF IInv
  <1>13. QED
    BY <1>1, <1>2, <1>4, <1>5, <1>6, <1>7, <1>8, <1>9, <1>10, <1>11, <1>12 DEF Next, Finish

\* The inductive invariant holds.
THEOREM Invariance == Spec => []IInv
  BY InitInv, NextInv, PTL DEF Spec

\* The state of the breaker and of its calls keeps its type.
THEOREM TypeCorrect == Spec => []TypeOK
  <1>1. IInv => TypeOK
    BY DEF IInv
  <1>2. QED
    BY Invariance, <1>1, PTL

\* The breaker is open exactly when the last Threshold results were failures,
\* whatever the order in which calls report (record_failure, record_success).
THEOREM OpensOnFailures == Spec => []OpenIffFailing
  <1>1. IInv => OpenIffFailing
    BY DEF IInv
  <1>2. QED
    BY Invariance, <1>1, PTL

\* The breaker refuses for a trial only while that trial is in flight, or when
\* it was cancelled (before_call).
THEOREM TrialsInFlight == Spec => []TrialInFlight
  <1>1. IInv => TrialInFlight
    BY DEF IInv
  <1>2. QED
    BY Invariance, <1>1, PTL
=============================================================================
