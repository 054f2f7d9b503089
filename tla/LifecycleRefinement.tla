------------------------- MODULE LifecycleRefinement -------------------------
(* The repository implements SubscriptionLifecycle: the owner of a subject is *)
(* the executor whose attempt is in its row.                                  *)
EXTENDS SubscriptionRepository

Stage == [s \in Subjects |-> IF rows[s] = Null THEN "absent" ELSE rows[s].lifecycle_state]
Kind == [s \in Subjects |-> IF rows[s] = Null THEN "none" ELSE rows[s].media_kind]
Busy == [s \in Subjects |-> rows[s] # Null /\ ~Idle(rows[s])]
Owner == [s \in Subjects |-> {e \in Executors : Holds(e, s)}]

Lifecycle ==
  INSTANCE SubscriptionLifecycle WITH
    stage <- Stage, kind <- Kind, busy <- Busy, owner <- Owner

\* Every step of the repository is a step of the lifecycle or leaves it alone: in
\* particular an executor that lost its row, however late it returns, moves nothing.
ImplementsLifecycle == Lifecycle!Spec
=============================================================================
