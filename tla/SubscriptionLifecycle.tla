------------------------ MODULE SubscriptionLifecycle ------------------------
(***************************************************************************)
(* What the subscription repository promises, seen from the stage a subject *)
(* is in and from who may move it on.  Work on a subject is granted to one  *)
(* executor; only that executor can settle it, and settling moves the stage *)
(* along the pipeline and nowhere else.  An executor that vanishes leaves   *)
(* the subject busy until it is granted again.  Polls and users may         *)
(* interfere, polls at any time and users only between attempts.            *)
(***************************************************************************)

CONSTANTS Subjects, Executors

VARIABLES
  stage,   \* where the subject stands in the pipeline, "absent" if unknown
  kind,    \* movie or series, "none" if unknown
  busy,    \* an attempt has been granted and is not settled
  owner    \* the executor that may settle it: one or none

vars == <<stage, kind, busy, owner>>

Stages ==
  {"absent", "queued", "meta", "searching", "downloading", "linking", "completed"}

\* The stages an attempt can leave a subject in.  Only a series goes back from
\* linking to searching, for its next episode.
Successors(k, from) ==
  CASE from = "meta"        -> {"meta", "searching"}
    [] from = "searching"   -> {"searching", "downloading"}
    [] from = "downloading" -> {"downloading", "linking"}
    [] from = "linking"     -> {"downloading", "linking", "completed"}
                                 \cup (IF k = "tv" THEN {"searching"} ELSE {})
    [] OTHER                -> {}

Init ==
  /\ stage = [s \in Subjects |-> "absent"]
  /\ kind = [s \in Subjects |-> "none"]
  /\ busy = [s \in Subjects |-> FALSE]
  /\ owner = [s \in Subjects |-> {}]

\* A subject may be granted anew while it is busy: its owner then loses it.
Grant(e, s) ==
  /\ stage[s] \notin {"absent", "completed"}
  /\ \A r \in Subjects : e \notin owner[r]
  /\ stage' = [stage EXCEPT ![s] = IF @ = "queued" THEN "meta" ELSE @]
  /\ busy' = [busy EXCEPT ![s] = TRUE]
  /\ owner' = [owner EXCEPT ![s] = {e}]
  /\ UNCHANGED kind

Settle(e, s) ==
  /\ e \in owner[s]
  /\ \E next \in Successors(kind[s], stage[s]) : stage' = [stage EXCEPT ![s] = next]
  /\ busy' = [busy EXCEPT ![s] = FALSE]
  /\ owner' = [owner EXCEPT ![s] = {}]
  /\ UNCHANGED kind

Vanish(e, s) ==
  /\ e \in owner[s]
  /\ owner' = [owner EXCEPT ![s] = {}]
  /\ UNCHANGED <<stage, kind, busy>>

Redirect(s) ==
  /\ stage[s] # "absent"
  /\ ~busy[s]
  /\ stage' = [stage EXCEPT ![s] = "searching"]
  /\ UNCHANGED <<kind, busy, owner>>

Untouched(s) ==
  /\ stage'[s] = stage[s] /\ kind'[s] = kind[s]
  /\ busy'[s] = busy[s] /\ owner'[s] = owner[s]

Idle(s) == busy'[s] = FALSE /\ owner'[s] = {}

Appears(s) ==
  stage[s] = "absent" /\ stage'[s] = "queued" /\ kind'[s] \in {"movie", "tv"} /\ Idle(s)

Revoked(s) == stage'[s] = stage[s] /\ kind'[s] = kind[s] /\ Idle(s)

\* A movie that turns out to be a series starts from the beginning.
Reclassified(s) ==
  kind[s] = "movie" /\ kind'[s] = "tv" /\ stage'[s] = "queued" /\ Idle(s)

\* One poll reaches every subject at once.
Poll ==
  /\ stage' \in [Subjects -> Stages]
  /\ kind' \in [Subjects -> {"none", "movie", "tv"}]
  /\ busy' \in [Subjects -> BOOLEAN]
  /\ owner' \in [Subjects -> SUBSET Executors]
  /\ \A s \in Subjects : Untouched(s) \/ Appears(s) \/ Revoked(s) \/ Reclassified(s)

Next ==
  \/ \E e \in Executors, s \in Subjects : Grant(e, s) \/ Settle(e, s) \/ Vanish(e, s)
  \/ \E s \in Subjects : Redirect(s)
  \/ Poll

Spec == Init /\ [][Next]_vars
=============================================================================
