---------------------------- MODULE JobContract ----------------------------
(***************************************************************************)
(* What the durable job table promises about every job key, whatever the   *)
(* workers, their leases and their crashes do: an accepted job is tried at *)
(* most MaxAttempts times, ends in success only after a try, and is given  *)
(* up only when every try was spent.  One statement may move several keys. *)
(***************************************************************************)
EXTENDS Naturals

CONSTANTS Jobs, MaxAttempts

VARIABLES
  state,   \* [Jobs -> {"none", "open", "done", "dead"}]
  tries    \* [Jobs -> tries since the key was last accepted]

Init == state = [j \in Jobs |-> "none"] /\ tries = [j \in Jobs |-> 0]

Move(j, s, t) == state'[j] = s /\ tries'[j] = t

\* The key is accepted (again): it starts over with every try left.
Accept(j) == Move(j, "open", 0)

Try(j) == state[j] = "open" /\ tries[j] < MaxAttempts /\ Move(j, "open", tries[j] + 1)

Finish(j) == state[j] = "open" /\ tries[j] > 0 /\ Move(j, "done", tries[j])

GiveUp(j) == state[j] = "open" /\ tries[j] = MaxAttempts /\ Move(j, "dead", tries[j])

Stay(j) == Move(j, state[j], tries[j])

Next == \A j \in Jobs : Accept(j) \/ Try(j) \/ Finish(j) \/ GiveUp(j) \/ Stay(j)

Spec == Init /\ [][Next]_<<state, tries>>
=============================================================================
