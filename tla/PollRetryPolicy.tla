-------------------------- MODULE PollRetryPolicy --------------------------
(***************************************************************************)
(* The bounded exponential backoff after an unsuccessful poll: the first   *)
(* delay is InitialDelay, each further failure doubles it, and MaxDelay    *)
(* caps it.  The worker sets MaxDelay to the poll interval.                *)
(***************************************************************************)
EXTENDS Naturals

CONSTANTS InitialDelay, MaxDelay

ASSUME DelayAssumption ==
  /\ InitialDelay \in Nat \ {0}
  /\ MaxDelay \in Nat
  /\ InitialDelay <= MaxDelay

\* The delay after n failures; no failure counts as one.
DelaySecs[n \in Nat] ==
  IF n <= 1 THEN InitialDelay
  ELSE LET doubled == 2 * DelaySecs[n - 1]
       IN  IF doubled < MaxDelay THEN doubled ELSE MaxDelay

\* Mutant: the backoff is not capped.
NextPollUncapped(terminal_at, failure_count) ==
  terminal_at + (IF failure_count <= 1 THEN InitialDelay
                 ELSE InitialDelay * 2 ^ (failure_count - 1))

NextPollAt(terminal_at, failure_count) == terminal_at + DelaySecs[failure_count]
=============================================================================
