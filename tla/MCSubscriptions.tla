-------------------------- MODULE MCSubscriptions --------------------------
(* Values for TLC.  Revisions are compared for equality and otherwise only   *)
(* grow, and no instance comes near their bound: what a state holds of them  *)
(* is whether a client's is still the row's.  A client whose read is stale   *)
(* can only drop it, whatever it has read; and an executor whose attempt is  *)
(* no longer its row's can only drop that, whatever it has claimed.          *)
EXTENDS LifecycleRefinement, TLC

Wanted == {[media_kind |-> k, schedulable |-> TRUE] : k \in {"movie", "tv"}}
Mixed == Wanted \cup {[media_kind |-> "movie", schedulable |-> FALSE]}
Forward == {1}
BothWays == {1, -1}

Interchangeable ==
  Permutations(AttemptIds) \cup Permutations(Executors) \cup Permutations(Pollers)
    \cup Permutations(Clients) \cup Permutations(Torrents) \cup Permutations(Subjects)

StillHeld(attempt) ==
  /\ rows[attempt.subject].claim # Null
  /\ rows[attempt.subject].claim.attempt_id = attempt.attempt_id

InSight(attempt) ==
  IF attempt = Null THEN <<"none">>
  ELSE IF StillHeld(attempt) THEN <<"held", attempt>>
  ELSE <<"lost", attempt.subject, attempt.attempt_id, attempt.lease_until, attempt.revoked>>

Relevant ==
  <<now, [s \in Stored |-> [rows[s] EXCEPT !.revision = 1]],
    meta, next_poll_at, [e \in Executors |-> InSight(executors[e])], pollers,
    [c \in Clients |-> IF IsFresh(c) THEN <<clients[c].subject, clients[c].detail>>
                       ELSE IF clients[c] = Null THEN <<"none">> ELSE <<"stale">>]>>
=============================================================================
