----------------------------- MODULE RateLimit -----------------------------
(***************************************************************************)
(* The sliding window of the in-memory rate limit backend                  *)
(* (services/coordination_memory.py), for one bucket key.                  *)
(*                                                                         *)
(* A time is its age in ticks; ages stop at Window, where the backend      *)
(* forgets.  A check is one step: the middleware's runs on the event loop. *)
(***************************************************************************)
EXTENDS Integers, Sequences, FiniteSets

CONSTANTS
  Limit,   \* the calls a window admits; a limit <= 0 switches the check off
  Window   \* window_seconds, in ticks

ASSUME RateAssumption == Limit \in Nat \ {0} /\ Window \in Nat \ {0}

VARIABLES
  events,    \* the ages of the calls the backend remembers, oldest first
  latest,    \* history: the ages of the last Limit + 1 calls it admitted,
             \* latest first; where there was none, Window
  promise    \* history: ticks left of the last retry_after_seconds, or none

rateVars == <<events, latest, promise>>

Ages == 0..Window
NoPromise == Window + 1
Older(age) == IF age = Window THEN age ELSE age + 1

RateInit ==
  /\ events = <<>>
  /\ latest = [k \in 1..(Limit + 1) |-> Window]
  /\ promise = NoPromise

-----------------------------------------------------------------------------
(* check *)

\* Variant: a call as old as the window still counts.
Young_Inclusive == {i \in DOMAIN events : events[i] <= Window}

\* Variant: a call is forgotten a tick too early.
Young_Early == {i \in DOMAIN events : events[i] + 1 < Window}

\* The calls inside the window.
Young == {i \in DOMAIN events : events[i] < Window}

\* What the backend keeps of its list: as the oldest come first, its end.
Recent == SubSeq(events, Len(events) - Cardinality(Young) + 1, Len(events))

\* Variant: one tick short.
RetryAfter_Short == Window - Head(Recent) - 1

\* When the oldest of them leaves the window.
RetryAfter == Window - Head(Recent)

Admit ==
  /\ Len(Recent) < Limit
  /\ events' = Append(Recent, 0)
  /\ latest' = [k \in 1..(Limit + 1) |-> IF k = 1 THEN 0 ELSE latest[k - 1]]
  /\ promise' = NoPromise

Reject ==
  /\ Len(Recent) >= Limit
  /\ events' = Recent
  /\ promise' = RetryAfter
  /\ UNCHANGED latest

-----------------------------------------------------------------------------
Age ==
  /\ events' = [i \in DOMAIN events |-> Older(events[i])]
  /\ latest' = [k \in 1..(Limit + 1) |-> Older(latest[k])]
  /\ promise' = IF promise \in {0, NoPromise} THEN promise ELSE promise - 1

RateNext == Admit \/ Reject \/ Age

RateSpec == RateInit /\ [][RateNext]_rateVars

-----------------------------------------------------------------------------
(* Properties. *)

\* Wherever a window of that length is laid, the backend admitted no more
\* than Limit calls in it (SlidingWindowRateLimiter), although a check is all
\* that ever removes what it remembers: the call before the last Limit ones
\* is already outside.
WithinLimit == latest[Limit + 1] = Window

\* A call is only refused when the window that ends with it is full.
OnlyWhenFull == Reject => latest[Limit] < Window
NoNeedlessRefusal == [][OnlyWhenFull]_rateVars

\* Who waits for retry_after_seconds and is the first to call again is admitted.
RetryAfterHolds == promise = 0 => Len(Recent) < Limit
=============================================================================
