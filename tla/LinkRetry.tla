----------------------------- MODULE LinkRetry -----------------------------
(***************************************************************************)
(* Hard links into the library: what one file of a torrent may become, from *)
(* what is found at its source and at its target.  A path holds an inode, a *)
(* thing no link is made to (a symbolic link, a directory), or Null.       *)
(***************************************************************************)
CONSTANTS Inodes, Irregular, Null

Occupants == Inodes \cup {Irregular, Null}

Outcomes == {"pending", "linked", "failed", "missing", "conflict"}

\* probe_regular_path: only a regular file has an identity.
Identity(occupant) == IF occupant = Irregular THEN Null ELSE occupant

Unprobeable(occupant) == occupant = Irregular

\* plan_link_retry, over the identities that were probed.
PlannedAction(source, target, persisted) ==
  CASE Identity(source) = Null -> "missing"
    [] Identity(source) # Null /\ Identity(target) = Null -> "create"
    [] Identity(source) # Null /\ Identity(target) = Identity(source) ->
         IF persisted = "linked" THEN "skip" ELSE "accept"
    [] OTHER -> "conflict"

\* apply_hardlinks: a probe that failed is the file's result, whatever was planned.
ProbedAction(source, target, persisted) ==
  IF Unprobeable(source) \/ Unprobeable(target) THEN "fail"
  ELSE PlannedAction(source, target, persisted)

\* Mutant: what was planned is journaled as what came of it.
PlanAsOutcome(action) == action

\* execute_link_action for every action but "create".
Untouched(action) ==
  CASE action \in {"skip", "accept"} -> "linked"
    [] action = "missing"            -> "missing"
    [] action = "conflict"           -> "conflict"
    [] OTHER                         -> "failed"

\* Mutant: linkat finds the target taken and takes it for its own link.
LinkedTrusting(expected, source, target) ==
  IF source = expected THEN "linked" ELSE "failed"

\* create_hardlink: the source is pinned and must still be the inode that was
\* probed; a target that appeared since is accepted only as that same inode.
LinkedOutcome(expected, source, target) ==
  IF source = Null THEN "missing"
  ELSE CASE source # expected -> "failed"
         [] source = expected /\ target \in {Null, expected} -> "linked"
         [] source = expected /\ target = Irregular -> "failed"
         [] OTHER -> "conflict"

LinkedTarget(expected, source, target) ==
  IF source = expected /\ target = Null THEN expected ELSE target

\* Mutant: any recorded link may be removed.
CleanupTrustsJournal(source, target, outcome) == TRUE

\* verify_cleanup_link: nothing at the target, or the recorded link to its source.
CleanupAllowed(source, target, outcome) ==
  \/ target = Null
  \/ /\ outcome \in {"linked", "pending"}
     /\ source \in Inodes
     /\ source = target
=============================================================================
