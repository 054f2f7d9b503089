-------------------------- MODULE SubscriptionRow --------------------------
(***************************************************************************)
(* One row of the table wanted_subscription_records and what each command  *)
(* of the subscription repository makes of it.  Everything here is         *)
(* constant-level: a definition named ...Row is the row an UPDATE leaves    *)
(* behind, a definition named ...Candidate is the WHERE clause of a        *)
(* selector.  SubscriptionRepository makes the actions out of them.        *)
(*                                                                         *)
(* A row keeps the names of its columns.  The three columns of an attempt  *)
(* (claimed_operation, attempt_id, lease_until), NULL exactly when         *)
(* execution_state is idle, are the single field `claim`; last_seen is the *)
(* generation of last_seen_snapshot_id.  Of record_json the row keeps      *)
(* skip_reason (set or not), observation.last_seen_at, and the parts the   *)
(* executions read: candidates, download artifacts, replacement flags.     *)
(* Titles, posters, sort keys, links, issues, TV detail, updated_at and    *)
(* inactive_at decide nothing that is modelled and are left out.           *)
(***************************************************************************)
EXTENDS Naturals

CONSTANTS
  Torrents,     \* torrent ids the tracker can offer
  AttemptIds,   \* execution attempt ids
  MaxRetries,   \* max_retries of every row; 0 is "no limit"
  Null          \* SQL NULL

ASSUME RowAssumption ==
  /\ MaxRetries \in Nat
  /\ Null \notin Nat
  /\ Null \notin Torrents

Lifecycles ==
  {"queued", "meta", "searching", "downloading", "linking", "completed"}

Operations == {"movie_meta", "movie_search", "movie_progress", "movie_link"}

\* Mutant: metadata work is known by the meta stage alone.
OperationWithoutQueued(lifecycle) ==
  CASE lifecycle = "meta"        -> "movie_meta"
    [] lifecycle = "searching"   -> "movie_search"
    [] lifecycle = "downloading" -> "movie_progress"
    [] lifecycle = "linking"     -> "movie_link"
    [] OTHER                     -> "none"

\* ExecutionOperation::for_lifecycle; completed rows have no operation.
OperationOf(lifecycle) ==
  CASE lifecycle \in {"queued", "meta"} -> "movie_meta"
    [] lifecycle = "searching"          -> "movie_search"
    [] lifecycle = "downloading"        -> "movie_progress"
    [] lifecycle = "linking"            -> "movie_link"
    [] OTHER                            -> "none"

Tags ==
  {"waiting_release", "needs_confirmation", "failed", "retry_blocked", "skipped"}

\* "exact": found by douban or imdb id; "manual": keyword and manual sources.
Candidates == [Torrents -> {"absent", "manual", "exact"}]

\* "live": in any state but failed, superseded or ignored; "retired": the last two.
Downloads == [Torrents -> {"none", "live", "failed", "retired"}]

NoCandidates == [t \in Torrents |-> "absent"]
NoDownloads == [t \in Torrents |-> "none"]

Payloads ==
  [candidates: Candidates,
   user_confirmed: Torrents \cup {Null},
   downloads: Downloads,
   replacement_pending: BOOLEAN,
   replacement_prepared: BOOLEAN]

Claims == [operation: Operations, attempt_id: AttemptIds, lease_until: Nat]

ASSUME ClaimAssumption == Null \notin Claims

Rows ==
  [revision: Nat,
   active: BOOLEAN,
   schedulable: BOOLEAN,
   media_kind: {"movie", "tv"},
   lifecycle_state: Lifecycles,
   claim: Claims \cup {Null},
   next_attempt_at: Nat \cup {Null},
   retry_count: Nat,
   retry_blocked: BOOLEAN,
   force_eligible_once: BOOLEAN,
   attention_tags: SUBSET Tags,
   skip_reason: BOOLEAN,
   last_seen: Nat,
   last_seen_at: Nat,
   payload: Payloads]

Skipped(row) == "skipped" \in row.attention_tags \/ row.skip_reason

\* The condition of the retry_blocked column.
RetriesExhausted(count) == MaxRetries > 0 /\ count >= MaxRetries

\* blocked_reason is NULL exactly on schedulable rows, so it needs no column.
Eligible(row) ==
  row.active /\ row.schedulable /\ row.lifecycle_state # "completed"

-----------------------------------------------------------------------------
(* The CHECK constraints of the table: SQLite refuses any other row.       *)

RowWellFormed(row) ==
  /\ row.revision > 0
  /\ row.claim # Null =>
       Eligible(row) /\ row.claim.operation = OperationOf(row.lifecycle_state)
  /\ ~row.active => ~row.schedulable
  /\ row.next_attempt_at # Null => Eligible(row)
  /\ row.retry_blocked <=> RetriesExhausted(row.retry_count)
  /\ row.force_eligible_once => Eligible(row) /\ row.next_attempt_at # Null

-----------------------------------------------------------------------------
(* Selecting work.  The selectors are SQL; classify is Rust and reads the  *)
(* row the selector returned.                                              *)

ExpiredCandidate(row, now) == row.claim # Null /\ row.claim.lease_until <= now

Idle(row) == row.claim = Null

ForceCandidate(row) ==
  /\ Eligible(row)
  /\ Idle(row)
  /\ row.force_eligible_once
  /\ row.next_attempt_at # Null

IsDue(row, now) == row.next_attempt_at # Null /\ row.next_attempt_at <= now

DueCandidate(row, now) ==
  /\ Eligible(row)
  /\ Idle(row)
  /\ ~row.force_eligible_once
  /\ ~row.retry_blocked
  /\ ~Skipped(row)
  /\ IsDue(row, now)

\* Metadata work runs for skipped rows too, and without a due time.
MetadataCandidate(row, now) ==
  /\ row.active
  /\ row.schedulable
  /\ row.lifecycle_state \in {"queued", "meta"}
  /\ \/ /\ Idle(row)
        /\ ~row.retry_blocked
        /\ row.next_attempt_at = Null \/ IsDue(row, now)
     \/ /\ ExpiredCandidate(row, now)
        /\ row.claim.operation = "movie_meta"

\* What load_stored_subscription demands of a row beyond the CHECKs.
Loadable(row) ==
  row.claim # Null =>
    /\ row.claim.operation = OperationOf(row.lifecycle_state)
    /\ row.next_attempt_at # Null

ClassifiedExpired(row, now) == Eligible(row) /\ ExpiredCandidate(row, now)
ClassifiedForced(row) == Eligible(row) /\ Idle(row) /\ row.force_eligible_once
ClassifiedNormal(row, now) ==
  /\ Eligible(row)
  /\ Idle(row)
  /\ ~row.force_eligible_once
  /\ ~row.retry_blocked
  /\ ~Skipped(row)
  /\ IsDue(row, now)

-----------------------------------------------------------------------------
(* Claiming, extending and releasing an attempt.                           *)

\* next_revision: every UPDATE of a row raises its revision.
Revised(row) == [row EXCEPT !.revision = @ + 1]

ClaimedRow(row, id, lease, now) ==
  LET op == OperationOf(row.lifecycle_state) IN
  [Revised(row) EXCEPT
     !.lifecycle_state = IF op = "movie_meta" THEN "meta" ELSE @,
     !.next_attempt_at = IF op = "movie_meta" /\ @ = Null THEN now ELSE @,
     !.claim = [operation |-> op, attempt_id |-> id, lease_until |-> lease]]

ReclaimedRow(row, id, lease) ==
  [Revised(row) EXCEPT
     !.lifecycle_state = IF row.claim.operation = "movie_meta" THEN "meta" ELSE @,
     !.claim = [@ EXCEPT !.attempt_id = id, !.lease_until = lease]]

\* Mutant: the executor is told of a new lease that the row does not get.
ExtendedOnPaper(row, lease) == Revised(row)

ExtendedRow(row, lease) ==
  [Revised(row) EXCEPT !.claim.lease_until = lease]

\* Mutant: releasing an attempt also forgets when the row is due.
ReleasedForgotten(row) ==
  [Revised(row) EXCEPT !.claim = Null, !.next_attempt_at = Null]

ReleasedRow(row) == [Revised(row) EXCEPT !.claim = Null]

\* Mutant: any attempt of the same operation passes for the row's attempt.
LiveAnyAttempt(row, token, now) ==
  /\ row.claim # Null
  /\ row.claim.operation = token.operation
  /\ row.claim.lease_until > now

\* require_live_attempt: `token` is still the row's attempt, and not expired.
LiveAttempt(row, token, now) ==
  /\ row.claim # Null
  /\ row.claim.attempt_id = token.attempt_id
  /\ row.claim.operation = token.operation
  /\ row.claim.lease_until > now

-----------------------------------------------------------------------------
(* Settling an attempt.  A delta is what one execution learned: the         *)
(* candidate list it matched (Null: none), the states of the downloads it   *)
(* touched, and whether it prepared or cleaned a replacement.               *)

Deltas ==
  [step: {"merge", "prepared", "cleaned"},
   search: [candidates: Candidates, user_confirmed: Torrents \cup {Null}]
             \cup {Null},
   downloads: UNION {[S -> {"live", "failed", "retired"}] : S \in SUBSET Torrents}]

\* Both replacement deltas are refused on a payload with no replacement pending.
DeltaApplies(payload, delta) ==
  delta.step \in {"prepared", "cleaned"} => payload.replacement_pending

\* apply_to_latest: only the operation's own part of the latest payload.
ApplyToLatest(payload, delta) ==
  LET touched == DOMAIN delta.downloads
      searched == delta.search # Null
  IN  IF delta.step = "cleaned"
      THEN [payload EXCEPT
              !.downloads = NoDownloads,
              !.replacement_pending = FALSE,
              !.replacement_prepared = FALSE]
      ELSE [payload EXCEPT
              !.candidates = IF searched THEN delta.search.candidates ELSE @,
              !.user_confirmed = IF searched THEN delta.search.user_confirmed ELSE @,
              !.downloads =
                [t \in Torrents |-> IF t \in touched THEN delta.downloads[t] ELSE @[t]],
              !.replacement_prepared = @ \/ delta.step = "prepared"]

Dispositions ==
  {"meta_ready", "search_waiting", "search_pushed", "progress_pending",
   "progress_downloaded", "link_pending_download", "link_planned",
   "link_more_required", "link_completed"}

NextLifecycle(disposition) ==
  CASE disposition \in {"meta_ready", "search_waiting", "link_more_required"}
         -> "searching"
    [] disposition \in {"search_pushed", "progress_pending", "link_pending_download"}
         -> "downloading"
    [] disposition \in {"progress_downloaded", "link_planned"} -> "linking"
    [] OTHER -> "completed"

\* Dispositions with a retry_after delay; the others are due at once.
Delayed ==
  {"search_waiting", "progress_pending", "link_pending_download", "link_planned"}

NextDue(disposition, delay, now) ==
  IF disposition = "link_completed" THEN Null
  ELSE IF disposition \in Delayed THEN now + delay ELSE now

\* download_authorized: the user chose it, or it was found by id.
Authorized(payload, t) ==
  t = payload.user_confirmed \/ payload.candidates[t] = "exact"

\* terminal_attention_tags drops every execution tag and keeps "skipped".
KeptTags(row) == row.attention_tags \cap {"skipped"}

WaitingTags(payload) ==
  IF \E t \in Torrents : payload.candidates[t] # "absent" /\ ~Authorized(payload, t)
  THEN {"needs_confirmation"}
  ELSE {"waiting_release"}

FinishedRow(row, disposition, delta, delay, now) ==
  LET latest == ApplyToLatest(row.payload, delta)
      waits == disposition = "search_waiting" /\ delta.step = "merge"
  IN  [Revised(row) EXCEPT
         !.lifecycle_state = NextLifecycle(disposition),
         !.claim = Null,
         !.next_attempt_at = NextDue(disposition, delay, now),
         !.retry_count = 0,
         !.retry_blocked = FALSE,
         !.force_eligible_once = FALSE,
         !.attention_tags = KeptTags(row) \cup (IF waits THEN WaitingTags(latest) ELSE {}),
         !.skip_reason = @ /\ delta.step # "cleaned",
         !.payload = latest]

FailedRow(row, delta, delay, now) ==
  LET blocked == RetriesExhausted(row.retry_count + 1) IN
  [Revised(row) EXCEPT
     !.claim = Null,
     !.next_attempt_at = IF blocked THEN Null ELSE now + delay,
     !.retry_count = @ + 1,
     !.retry_blocked = blocked,
     !.force_eligible_once = FALSE,
     !.attention_tags =
       KeptTags(row) \cup {"failed"} \cup (IF blocked THEN {"retry_blocked"} ELSE {}),
     !.payload = ApplyToLatest(@, delta)]

-----------------------------------------------------------------------------
(* The commands of the user.                                               *)

CanForceRetry(row) ==
  /\ Idle(row)
  /\ row.active /\ row.schedulable
  /\ ~(row.lifecycle_state = "completed" /\ row.media_kind = "tv")

\* A movie past its metadata starts over, unless a replacement is under way.
RestartsMovie(row) ==
  /\ row.media_kind = "movie"
  /\ row.lifecycle_state # "meta"
  /\ ~row.payload.replacement_pending

RestartedPayload(payload) ==
  [payload EXCEPT
     !.candidates = NoCandidates,
     !.user_confirmed = Null,
     !.downloads = [t \in Torrents |-> IF @[t] = "none" THEN "none" ELSE "retired"]]

\* Mutant: forcing a row leaves its retries used up.
ForcedWithoutBudget(row, at) ==
  [Revised(row) EXCEPT
     !.next_attempt_at = at,
     !.force_eligible_once = TRUE,
     !.attention_tags = @ \ {"skipped"},
     !.skip_reason = FALSE]

ForceRetriedRow(row, at) ==
  LET restart == RestartsMovie(row) IN
  [Revised(row) EXCEPT
     !.lifecycle_state = IF restart THEN "searching" ELSE @,
     !.next_attempt_at = at,
     !.retry_count = 0,
     !.retry_blocked = FALSE,
     !.force_eligible_once = TRUE,
     !.attention_tags = IF restart THEN {} ELSE @ \ {"skipped", "retry_blocked"},
     !.skip_reason = FALSE,
     !.payload = IF restart THEN RestartedPayload(@) ELSE @]

\* Mutant: a candidate may be confirmed while an attempt runs.
CanConfirmRunning(row, t, replace) ==
  /\ row.active /\ row.schedulable
  /\ replace \/ row.lifecycle_state = "searching"
  /\ ~row.payload.replacement_pending
  /\ replace \/ row.media_kind = "tv" \/ row.payload.downloads = NoDownloads
  /\ row.payload.candidates[t] # "absent"
  /\ row.payload.downloads[t] # "live"

\* Whether the torrent covers the next episode of a TV row is not modelled.
CanConfirm(row, t, replace) ==
  /\ Idle(row)
  /\ row.active /\ row.schedulable
  /\ replace \/ row.lifecycle_state = "searching"
  /\ ~row.payload.replacement_pending
  /\ replace \/ row.media_kind = "tv" \/ row.payload.downloads = NoDownloads
  /\ row.payload.candidates[t] # "absent"
  /\ row.payload.downloads[t] # "live"

\* Mutant: a replacement starts in whatever stage the row is.
ConfirmedInPlace(row, t, replace, at) ==
  [Revised(row) EXCEPT
     !.next_attempt_at = at,
     !.retry_count = 0,
     !.retry_blocked = FALSE,
     !.force_eligible_once = row.lifecycle_state # "completed",
     !.attention_tags = {},
     !.skip_reason = FALSE,
     !.payload = [@ EXCEPT !.user_confirmed = t,
                           !.replacement_pending = replace,
                           !.replacement_prepared = FALSE]]

ConfirmedRow(row, t, replace, at) ==
  [Revised(row) EXCEPT
     !.lifecycle_state = "searching",
     !.next_attempt_at = at,
     !.retry_count = 0,
     !.retry_blocked = FALSE,
     !.force_eligible_once = TRUE,
     !.attention_tags = {},
     !.skip_reason = FALSE,
     !.payload = [@ EXCEPT !.user_confirmed = t,
                           !.replacement_pending = replace,
                           !.replacement_prepared = FALSE]]

CanAddManual(row) ==
  Idle(row) /\ row.active /\ row.schedulable /\ ~row.payload.replacement_pending

\* Mutant: new candidates do not count as a change of the row.
ManualWithoutRevision(row, found) ==
  [row EXCEPT !.payload.candidates =
     [t \in Torrents |-> IF t \in found THEN "manual" ELSE @[t]]]

\* Earlier manual results go, confirmed and exact ones stay, new ones are added.
ManualCandidatesRow(row, found) ==
  LET kept(t) == row.payload.candidates[t] = "exact" \/ t = row.payload.user_confirmed
  IN  [Revised(row) EXCEPT
         !.payload.candidates =
           [t \in Torrents |->
              IF kept(t) THEN @[t] ELSE IF t \in found THEN "manual" ELSE "absent"]]

\* What an editor reads of a row and later writes back whole.
DetailOf(row) ==
  [attention_tags |-> row.attention_tags,
   skip_reason |-> row.skip_reason,
   last_seen_at |-> row.last_seen_at,
   payload |-> row.payload]

Details ==
  [attention_tags: SUBSET Tags, skip_reason: BOOLEAN, last_seen_at: Nat, payload: Payloads]

\* Mutant: a running attempt may be turned into a skipped one.
CanUpdateAnyDetail(row, detail) == TRUE

\* While an attempt runs, update_detail may not change what decides about skipping.
CanUpdateDetail(row, detail) ==
  ~Idle(row) =>
    /\ detail.attention_tags = row.attention_tags
    /\ detail.skip_reason = row.skip_reason

DetailRow(row, detail) ==
  [Revised(row) EXCEPT
     !.attention_tags = detail.attention_tags,
     !.skip_reason = detail.skip_reason,
     !.last_seen_at = detail.last_seen_at,
     !.payload = detail.payload]

TitleRow(row) == Revised(row)

-----------------------------------------------------------------------------
(* Merging a poll.  An observation is what the wanted list says of a        *)
(* subject; a kind that is tv on either side is tv.                        *)

Observations == [media_kind: {"movie", "tv"}, schedulable: BOOLEAN]

MergedKind(row, observed) ==
  IF "tv" \in {row.media_kind, observed.media_kind} THEN "tv" ELSE "movie"

KindChanged(row, observed) == row.media_kind # MergedKind(row, observed)

\* merge_snapshot_observation refuses an observation older than the last one.
CanMerge(row, at) == row.last_seen_at <= at

\* Mutant: a seen row keeps the snapshot it was first seen in.
RefreshedUnseen(row, generation, at) ==
  [Revised(row) EXCEPT !.active = TRUE, !.last_seen_at = at]

\* A seen row that stays active and keeps its kind keeps every control.
RefreshedRow(row, generation, at) ==
  [Revised(row) EXCEPT
     !.active = TRUE,
     !.last_seen = generation,
     !.last_seen_at = at]

ReactivatedRow(row, observed, generation, at) ==
  [RefreshedRow(row, generation, at) EXCEPT
     !.schedulable = observed.schedulable,
     !.claim = Null,
     !.next_attempt_at =
       IF /\ observed.schedulable
          /\ row.lifecycle_state # "completed"
          /\ ~row.retry_blocked
          /\ ~Skipped(row)
       THEN at ELSE Null,
     !.force_eligible_once = FALSE]

\* A movie that turns out to be a series starts from nothing.
TvResetRow(row, observed, generation, at) ==
  [RefreshedRow(row, generation, at) EXCEPT
     !.media_kind = "tv",
     !.schedulable = observed.schedulable,
     !.lifecycle_state = "queued",
     !.claim = Null,
     !.next_attempt_at = IF observed.schedulable /\ ~Skipped(row) THEN at ELSE Null,
     !.retry_count = 0,
     !.retry_blocked = FALSE,
     !.force_eligible_once = FALSE,
     !.payload = [@ EXCEPT !.candidates = NoCandidates,
                           !.user_confirmed = Null,
                           !.downloads = NoDownloads]]

SeenRow(row, observed, generation, at) ==
  IF KindChanged(row, observed) THEN TvResetRow(row, observed, generation, at)
  ELSE IF ~row.active THEN ReactivatedRow(row, observed, generation, at)
  ELSE RefreshedRow(row, generation, at)

\* `skip`: the account's first complete snapshot is still to come, and the
\* policy says that what it already contains is not to be downloaded.
InsertedRow(observed, skip, generation, at) ==
  [revision |-> 1,
   active |-> TRUE,
   schedulable |-> observed.schedulable,
   media_kind |-> observed.media_kind,
   lifecycle_state |-> "queued",
   claim |-> Null,
   next_attempt_at |-> IF observed.schedulable THEN at ELSE Null,
   retry_count |-> 0,
   retry_blocked |-> FALSE,
   force_eligible_once |-> FALSE,
   attention_tags |-> IF skip THEN {"skipped"} ELSE {},
   skip_reason |-> skip,
   last_seen |-> generation,
   last_seen_at |-> at,
   payload |-> [candidates |-> NoCandidates,
                user_confirmed |-> Null,
                downloads |-> NoDownloads,
                replacement_pending |-> FALSE,
                replacement_prepared |-> FALSE]]

\* Rows the complete snapshot of this generation does not contain.
IsMissing(row, generation) == row.active /\ row.last_seen # generation

\* Mutant: a row that left the wanted list keeps its attempt.
DeactivatedRunning(row) ==
  [Revised(row) EXCEPT
     !.active = FALSE,
     !.schedulable = FALSE,
     !.next_attempt_at = Null,
     !.force_eligible_once = FALSE]

\* Mutant: a row that left the wanted list keeps its forced attempt.
DeactivatedForced(row) ==
  [Revised(row) EXCEPT
     !.active = FALSE,
     !.schedulable = FALSE,
     !.claim = Null,
     !.next_attempt_at = Null]

DeactivatedRow(row) ==
  [Revised(row) EXCEPT
     !.active = FALSE,
     !.schedulable = FALSE,
     !.claim = Null,
     !.next_attempt_at = Null,
     !.force_eligible_once = FALSE]
=============================================================================
