-------------------- MODULE SubscriptionRepositoryProofs --------------------
(***************************************************************************)
(* First, of rows: what every command leaves behind is again a row of the   *)
(* table, and one that the table's constraints and the next command accept. *)
(* And of what an attempt reports: whatever the outside world answers, it   *)
(* is a disposition and a delta of the right types; and while a replacement *)
(* is pending, an attempt that may then run leads to the search stage.     *)
(*                                                                         *)
(* Then, the invariant of the repository.  Each command is one of three     *)
(* things to the row it writes: it follows it (Follows), it grants it to an *)
(* executor (Grants), or it inserts it.  A row is therefore always one the  *)
(* next command accepts, its revision only rises, and what an attempt       *)
(* claimed stays as it was for as long as the attempt is in the row.        *)
(***************************************************************************)
EXTENDS SubscriptionRepository, TLAPS

\* A replacement is on the way to the search stage, or in it.
OnTrack(row) ==
  /\ row.payload.replacement_pending =>
       row.lifecycle_state \in {"queued", "meta", "searching"}
  /\ row.payload.replacement_prepared => row.payload.replacement_pending

WithinBudget(row) ==
  /\ row.retry_blocked => Idle(row)
  /\ row.force_eligible_once => row.retry_count = 0

SkipsWork(row) ==
  Skipped(row) /\ ~Idle(row) =>
    row.claim.operation = "movie_meta" \/ row.force_eligible_once

RowOK(row) ==
  /\ row \in Rows
  /\ RowWellFormed(row)
  /\ Loadable(row)
  /\ OnTrack(row)
  /\ WithinBudget(row)
  /\ SkipsWork(row)

\* A command that does not claim: it raises the revision, and either no attempt is
\* left or what the attempt claimed is untouched.
Advances(row, new) ==
  /\ new.revision = row.revision + 1
  /\ \/ new.claim = Null
     \/ /\ new.claim = row.claim
        /\ new.payload = row.payload
        /\ new.media_kind = row.media_kind

Follows(row, new) == RowOK(new) /\ Advances(row, new)

\* A command that claims, or claims for longer.
Grants(row, new, id, lease) ==
  /\ RowOK(new)
  /\ new.revision = row.revision + 1
  /\ new.claim # Null
  /\ new.claim.attempt_id = id
  /\ new.claim.lease_until = lease

LEMMA ZeroIsNotExhausted == ~RetriesExhausted(0)
BY RowAssumption DEF RetriesExhausted

LEMMA OperationOfType ==
  ASSUME NEW l \in Lifecycles, l # "completed"
  PROVE  OperationOf(l) \in Operations
BY DEF Lifecycles, OperationOf, Operations

LEMMA RevisedKeeps ==
  ASSUME NEW row \in Rows
  PROVE  /\ Revised(row) \in Rows
         /\ Revised(row).revision = row.revision + 1
         /\ Revised(row).active = row.active
         /\ Revised(row).schedulable = row.schedulable
         /\ Revised(row).media_kind = row.media_kind
         /\ Revised(row).lifecycle_state = row.lifecycle_state
         /\ Revised(row).claim = row.claim
         /\ Revised(row).next_attempt_at = row.next_attempt_at
         /\ Revised(row).retry_count = row.retry_count
         /\ Revised(row).retry_blocked = row.retry_blocked
         /\ Revised(row).force_eligible_once = row.force_eligible_once
         /\ Revised(row).attention_tags = row.attention_tags
         /\ Revised(row).skip_reason = row.skip_reason
         /\ Revised(row).last_seen = row.last_seen
         /\ Revised(row).last_seen_at = row.last_seen_at
         /\ Revised(row).payload = row.payload
BY DEF Revised, Rows

LEMMA ClaimedRowOK ==
  ASSUME NEW row, RowOK(row), Eligible(row), Idle(row),
         ~row.retry_blocked,
         row.next_attempt_at # Null \/ OperationOf(row.lifecycle_state) = "movie_meta",
         Skipped(row) => OperationOf(row.lifecycle_state) = "movie_meta"
                           \/ row.force_eligible_once,
         NEW id \in AttemptIds, NEW lease \in Nat, NEW at \in Nat
  PROVE  Grants(row, ClaimedRow(row, id, lease, at), id, lease)
<1> DEFINE op == OperationOf(row.lifecycle_state)
           claim == [operation |-> op, attempt_id |-> id, lease_until |-> lease]
           new == ClaimedRow(row, id, lease, at)
<1>0. row \in Rows
  BY DEF RowOK
<1>1. op \in Operations
  BY <1>0, OperationOfType DEF Eligible, Rows
<1>2. claim \in Claims /\ claim # Null
  BY <1>1, ClaimAssumption DEF Claims
<1>3. new \in Rows
  <2> DEFINE stage == IF op = "movie_meta" THEN "meta" ELSE row.lifecycle_state
             due == IF op = "movie_meta" /\ row.next_attempt_at = Null THEN at
                    ELSE row.next_attempt_at
  <2>1. new = [Revised(row) EXCEPT !.lifecycle_state = stage, !.next_attempt_at = due,
                                   !.claim = claim]
    BY <1>0, RevisedKeeps DEF ClaimedRow
  <2>2. stage \in Lifecycles /\ due \in Nat \cup {Null}
    BY <1>0 DEF Rows, Lifecycles
  <2> HIDE DEF stage, due, claim, new
  <2> QED
    BY <1>0, <1>2, <2>1, <2>2, RevisedKeeps, ZenonT(60) DEF Rows
<1>4. /\ new.claim = claim
      /\ new.revision = row.revision + 1
      /\ new.active = row.active /\ new.schedulable = row.schedulable
      /\ new.lifecycle_state = (IF op = "movie_meta" THEN "meta" ELSE row.lifecycle_state)
      /\ new.next_attempt_at =
           (IF op = "movie_meta" /\ row.next_attempt_at = Null THEN at ELSE row.next_attempt_at)
      /\ new.retry_count = row.retry_count
      /\ new.retry_blocked = row.retry_blocked
      /\ new.force_eligible_once = row.force_eligible_once
      /\ new.attention_tags = row.attention_tags /\ new.skip_reason = row.skip_reason
      /\ new.payload = row.payload
  BY <1>0, RevisedKeeps DEF ClaimedRow, Rows
<1>6. OperationOf(new.lifecycle_state) = op /\ new.lifecycle_state # "completed"
  BY <1>4 DEF OperationOf, Eligible
<1>7. new.next_attempt_at # Null
  BY <1>4, RowAssumption
<1>8. RowWellFormed(new)
  BY <1>0, <1>2, <1>4, <1>6, <1>7 DEF RowOK, RowWellFormed, Eligible, Rows
<1>9. OnTrack(new)
  BY <1>4 DEF RowOK, OnTrack
<1>10. Loadable(new) /\ WithinBudget(new) /\ SkipsWork(new)
  BY <1>2, <1>4, <1>6, <1>7 DEF RowOK, Loadable, WithinBudget, SkipsWork, Skipped, Idle
<1>11. new.claim # Null /\ new.claim.attempt_id = id /\ new.claim.lease_until = lease
  BY <1>2, <1>4
<1> QED
  BY <1>3, <1>4, <1>8, <1>9, <1>10, <1>11 DEF RowOK, Grants

LEMMA ReclaimedRowOK ==
  ASSUME NEW row, RowOK(row), row.claim # Null,
         NEW id \in AttemptIds, NEW lease \in Nat
  PROVE  Grants(row, ReclaimedRow(row, id, lease), id, lease)
<1> DEFINE stage == IF row.claim.operation = "movie_meta" THEN "meta" ELSE row.lifecycle_state
           claim == [row.claim EXCEPT !.attempt_id = id, !.lease_until = lease]
           new == ReclaimedRow(row, id, lease)
<1>0. row \in Rows /\ row.claim \in Claims
  BY DEF RowOK, Rows
<1>1. /\ claim \in Claims /\ claim # Null /\ claim.operation = row.claim.operation
      /\ claim.attempt_id = id /\ claim.lease_until = lease
  BY <1>0, ClaimAssumption DEF Claims
<1>2. /\ stage \in Lifecycles /\ stage # "completed"
      /\ OperationOf(stage) = row.claim.operation
  BY <1>0 DEF RowOK, RowWellFormed, Eligible, OperationOf, Rows, Lifecycles
<1>3. new = [Revised(row) EXCEPT !.lifecycle_state = stage, !.claim = claim]
  BY <1>0, RevisedKeeps DEF ReclaimedRow
<1>4. OnTrack(row) /\ stage \in {"meta", row.lifecycle_state}
  BY DEF RowOK
<1> HIDE DEF stage, claim, new
<1>5. new \in Rows
  BY <1>0, <1>1, <1>2, <1>3, RevisedKeeps, ZenonT(60) DEF Rows
<1>6. RowWellFormed(new) /\ Loadable(new)
  BY <1>0, <1>1, <1>2, <1>3, RevisedKeeps DEF RowOK, RowWellFormed, Loadable, Eligible, Rows
<1>7. OnTrack(new)
  BY <1>0, <1>3, <1>4, RevisedKeeps DEF OnTrack, Rows
<1>8. WithinBudget(new) /\ SkipsWork(new)
  BY <1>0, <1>1, <1>3, RevisedKeeps
  DEF RowOK, WithinBudget, SkipsWork, Skipped, Idle, Rows
<1>9. new.revision = row.revision + 1 /\ new.claim = claim
  BY <1>0, <1>3, RevisedKeeps DEF Rows
<1> QED
  BY <1>1, <1>5, <1>6, <1>7, <1>8, <1>9 DEF RowOK, Grants, new

LEMMA ExtendedRowOK ==
  ASSUME NEW row, RowOK(row), row.claim # Null, NEW lease \in Nat
  PROVE  /\ Grants(row, ExtendedRow(row, lease), row.claim.attempt_id, lease)
         /\ ExtendedRow(row, lease).claim.operation = row.claim.operation
         /\ ExtendedRow(row, lease).payload = row.payload
         /\ ExtendedRow(row, lease).media_kind = row.media_kind
<1> DEFINE claim == [row.claim EXCEPT !.lease_until = lease]
           new == ExtendedRow(row, lease)
<1>0. row \in Rows /\ row.claim \in Claims
  BY DEF RowOK, Rows
<1>1. /\ claim \in Claims /\ claim # Null /\ claim.operation = row.claim.operation
      /\ claim.attempt_id = row.claim.attempt_id /\ claim.lease_until = lease
  BY <1>0, ClaimAssumption DEF Claims
<1>2. new = [Revised(row) EXCEPT !.claim = claim]
  BY <1>0, RevisedKeeps DEF ExtendedRow
<1> HIDE DEF claim, new
<1>3. new \in Rows
  BY <1>0, <1>1, <1>2, RevisedKeeps DEF Rows
<1>4. RowWellFormed(new) /\ Loadable(new)
  BY <1>0, <1>1, <1>2, RevisedKeeps DEF RowOK, RowWellFormed, Loadable, Eligible, Rows
<1>5. OnTrack(new) /\ WithinBudget(new) /\ SkipsWork(new)
  BY <1>0, <1>1, <1>2, RevisedKeeps
  DEF RowOK, OnTrack, WithinBudget, SkipsWork, Skipped, Idle, Rows
<1>6. /\ new.revision = row.revision + 1 /\ new.claim = claim
      /\ new.payload = row.payload /\ new.media_kind = row.media_kind
  BY <1>0, <1>2, RevisedKeeps DEF Rows
<1> QED
  BY <1>1, <1>3, <1>4, <1>5, <1>6 DEF RowOK, Grants, new

LEMMA ReleasedRowOK ==
  ASSUME NEW row, RowOK(row)
  PROVE  Follows(row, ReleasedRow(row))
<1> DEFINE new == ReleasedRow(row)
<1>0. row \in Rows
  BY DEF RowOK
<1>1. new \in Rows /\ RowWellFormed(new) /\ Loadable(new)
  BY <1>0, RevisedKeeps DEF ReleasedRow, RowOK, RowWellFormed, Loadable, Eligible, Rows
<1>2. OnTrack(new) /\ WithinBudget(new) /\ SkipsWork(new)
  BY <1>0, RevisedKeeps
  DEF ReleasedRow, RowOK, OnTrack, WithinBudget, SkipsWork, Skipped, Idle, Rows
<1>3. Advances(row, new)
  BY <1>0, RevisedKeeps DEF Advances, Rows, ReleasedRow
<1> QED
  BY <1>1, <1>2, <1>3 DEF Follows, RowOK

\* Settling an attempt merges its delta into a payload of the table.
LEMMA ApplyToLatestType ==
  ASSUME NEW payload \in Payloads, NEW delta \in Deltas
  PROVE  /\ ApplyToLatest(payload, delta) \in Payloads
         /\ ApplyToLatest(payload, delta).replacement_pending =>
              payload.replacement_pending /\ delta.step # "cleaned"
         /\ ApplyToLatest(payload, delta).replacement_prepared =>
              /\ payload.replacement_prepared \/ delta.step = "prepared"
              /\ delta.step # "cleaned"
         /\ delta.step # "cleaned" =>
              ApplyToLatest(payload, delta).replacement_pending = payload.replacement_pending
<1>1. CASE delta.step = "cleaned"
  <2>1. NoDownloads \in Downloads
    BY DEF NoDownloads, Downloads
  <2> QED
    BY <1>1, <2>1 DEF ApplyToLatest, Payloads
<1>2. CASE delta.step # "cleaned"
  <2> DEFINE touched == DOMAIN delta.downloads
             found == IF delta.search # Null THEN delta.search.candidates
                      ELSE payload.candidates
             chosen == IF delta.search # Null THEN delta.search.user_confirmed
                       ELSE payload.user_confirmed
             merged == [t \in Torrents |-> IF t \in touched THEN delta.downloads[t]
                                           ELSE payload.downloads[t]]
             prepared == payload.replacement_prepared \/ delta.step = "prepared"
             new == ApplyToLatest(payload, delta)
  <2>1. PICK S \in SUBSET Torrents : delta.downloads \in [S -> {"live", "failed", "retired"}]
    BY DEF Deltas
  <2>2. merged \in Downloads
    BY <2>1 DEF Downloads, Payloads
  <2>3. found \in Candidates /\ chosen \in Torrents \cup {Null} /\ prepared \in BOOLEAN
    BY DEF Deltas, Payloads
  <2>4. new = [payload EXCEPT !.candidates = found, !.user_confirmed = chosen,
                              !.downloads = merged, !.replacement_prepared = prepared]
    BY <1>2 DEF ApplyToLatest, Payloads
  <2>5. prepared => payload.replacement_prepared \/ delta.step = "prepared"
    OBVIOUS
  <2> HIDE DEF found, chosen, merged, prepared, new
  <2>6. new \in Payloads
    BY <2>2, <2>3, <2>4 DEF Payloads
  <2>7. new.replacement_pending = payload.replacement_pending /\ new.replacement_prepared = prepared
    BY <2>4 DEF Payloads
  <2> QED
    BY <1>2, <2>5, <2>6, <2>7 DEF new
<1> QED
  BY <1>1, <1>2

\* A finished attempt: a pending replacement only ever leaves for the search stage.
LEMMA FinishedRowOK ==
  ASSUME NEW row, RowOK(row), row.claim # Null,
         NEW disposition \in Dispositions, NEW delta \in Deltas,
         NEW delay \in Nat, NEW at \in Nat,
         DeltaApplies(row.payload, delta),
         row.payload.replacement_pending => NextLifecycle(disposition) = "searching"
  PROVE  Follows(row, FinishedRow(row, disposition, delta, delay, at))
<1> DEFINE latest == ApplyToLatest(row.payload, delta)
           stage == NextLifecycle(disposition)
           due == NextDue(disposition, delay, at)
           waits == disposition = "search_waiting" /\ delta.step = "merge"
           tags == KeptTags(row) \cup (IF waits THEN WaitingTags(latest) ELSE {})
           skip == row.skip_reason /\ delta.step # "cleaned"
           new == FinishedRow(row, disposition, delta, delay, at)
<1>0. row \in Rows /\ row.payload \in Payloads /\ Eligible(row)
  BY DEF RowOK, RowWellFormed, Rows
<1>1. stage \in Lifecycles
  BY DEF NextLifecycle, Lifecycles
<1>2. due \in Nat \cup {Null} /\ (due # Null => stage # "completed")
  <2>1. CASE disposition = "link_completed"
    BY <2>1 DEF NextDue
  <2>2. CASE disposition # "link_completed"
    BY <2>2 DEF NextDue, NextLifecycle, Dispositions
  <2> QED
    BY <2>1, <2>2
<1>3. tags \in SUBSET Tags /\ skip \in BOOLEAN
  BY <1>0 DEF KeptTags, WaitingTags, Tags, Rows
<1>4. /\ latest \in Payloads
      /\ latest.replacement_pending => stage = "searching"
      /\ latest.replacement_prepared => latest.replacement_pending
  BY <1>0, ApplyToLatestType DEF DeltaApplies, RowOK, OnTrack, Deltas
<1>5. new = [Revised(row) EXCEPT
               !.lifecycle_state = stage, !.claim = Null, !.next_attempt_at = due,
               !.retry_count = 0, !.retry_blocked = FALSE, !.force_eligible_once = FALSE,
               !.attention_tags = tags, !.skip_reason = skip, !.payload = latest]
  BY <1>0, RevisedKeeps DEF FinishedRow
<1> HIDE DEF latest, stage, due, waits, tags, skip, new
<1>6. new \in Rows
  <2> DEFINE half == [Revised(row) EXCEPT
                        !.claim = Null, !.next_attempt_at = due, !.retry_count = 0,
                        !.retry_blocked = FALSE, !.force_eligible_once = FALSE]
  <2>1. new = [half EXCEPT !.lifecycle_state = stage, !.attention_tags = tags,
                           !.skip_reason = skip, !.payload = latest]
    BY <1>0, <1>5, RevisedKeeps DEF Rows
  <2>2. half \in Rows
    <3> DEFINE settled == [Revised(row) EXCEPT !.claim = Null, !.next_attempt_at = due]
    <3>1. half = [settled EXCEPT !.retry_count = 0, !.retry_blocked = FALSE,
                                 !.force_eligible_once = FALSE]
      BY <1>0, RevisedKeeps DEF Rows
    <3>2. settled \in Rows
      BY <1>0, <1>2, RevisedKeeps, ZenonT(60) DEF Rows
    <3> HIDE DEF settled, half
    <3> QED
      BY <3>1, <3>2, ZenonT(60) DEF Rows
  <2> HIDE DEF half
  <2> QED
    BY <1>1, <1>3, <1>4, <2>1, <2>2 DEF Rows
<1>7. RowWellFormed(new) /\ Loadable(new)
  BY <1>0, <1>2, <1>5, RevisedKeeps, ZeroIsNotExhausted
  DEF RowOK, RowWellFormed, Loadable, Eligible, Rows
<1>8. OnTrack(new) /\ WithinBudget(new) /\ SkipsWork(new)
  BY <1>0, <1>4, <1>5, RevisedKeeps DEF OnTrack, WithinBudget, SkipsWork, Idle, Rows
<1>9. Advances(row, new)
  BY <1>0, <1>5, RevisedKeeps DEF Advances, Rows
<1> QED
  BY <1>6, <1>7, <1>8, <1>9 DEF Follows, RowOK, new

LEMMA FailedRowOK ==
  ASSUME NEW row, RowOK(row), row.claim # Null,
         NEW delta \in Deltas, NEW delay \in Nat, NEW at \in Nat,
         DeltaApplies(row.payload, delta)
  PROVE  Follows(row, FailedRow(row, delta, delay, at))
<1> DEFINE latest == ApplyToLatest(row.payload, delta)
           count == row.retry_count + 1
           blocked == RetriesExhausted(count)
           due == IF blocked THEN Null ELSE at + delay
           tags == KeptTags(row) \cup {"failed"}
                     \cup (IF blocked THEN {"retry_blocked"} ELSE {})
           new == FailedRow(row, delta, delay, at)
<1>0. row \in Rows /\ row.payload \in Payloads /\ Eligible(row)
  BY DEF RowOK, RowWellFormed, Rows
<1>1. count \in Nat /\ blocked \in BOOLEAN /\ due \in Nat \cup {Null}
  BY <1>0 DEF RetriesExhausted, Rows
<1>2. tags \in SUBSET Tags
  BY <1>0 DEF KeptTags, Tags, Rows
<1>3. /\ latest \in Payloads
      /\ latest.replacement_pending => row.payload.replacement_pending
      /\ latest.replacement_prepared => latest.replacement_pending
  BY <1>0, ApplyToLatestType DEF DeltaApplies, RowOK, OnTrack, Deltas
<1>4. new = [Revised(row) EXCEPT
               !.claim = Null, !.next_attempt_at = due, !.retry_count = count,
               !.retry_blocked = blocked, !.force_eligible_once = FALSE,
               !.attention_tags = tags, !.payload = latest]
  BY <1>0, RevisedKeeps DEF FailedRow
<1>5. blocked <=> RetriesExhausted(count)
  OBVIOUS
<1> HIDE DEF latest, count, blocked, due, tags, new
<1>6. new \in Rows
  <2> DEFINE half == [Revised(row) EXCEPT
                        !.claim = Null, !.next_attempt_at = due, !.retry_count = count,
                        !.retry_blocked = blocked, !.force_eligible_once = FALSE]
  <2>1. new = [half EXCEPT !.attention_tags = tags, !.payload = latest]
    BY <1>0, <1>4, RevisedKeeps DEF Rows
  <2>2. half \in Rows
    <3> DEFINE settled == [Revised(row) EXCEPT !.claim = Null, !.next_attempt_at = due]
    <3>1. half = [settled EXCEPT !.retry_count = count, !.retry_blocked = blocked,
                                 !.force_eligible_once = FALSE]
      BY <1>0, RevisedKeeps DEF Rows
    <3>2. settled \in Rows
      BY <1>0, <1>1, RevisedKeeps, ZenonT(60) DEF Rows
    <3> HIDE DEF settled, half
    <3> QED
      BY <1>1, <3>1, <3>2, ZenonT(60) DEF Rows
  <2> HIDE DEF half
  <2> QED
    BY <1>2, <1>3, <2>1, <2>2 DEF Rows
<1>7. RowWellFormed(new) /\ Loadable(new)
  BY <1>0, <1>1, <1>4, <1>5, RevisedKeeps DEF RowOK, RowWellFormed, Loadable, Eligible, Rows
<1>8. OnTrack(new) /\ WithinBudget(new) /\ SkipsWork(new)
  BY <1>0, <1>3, <1>4, RevisedKeeps
  DEF RowOK, OnTrack, WithinBudget, SkipsWork, Idle, Rows
<1>9. Advances(row, new)
  BY <1>0, <1>4, RevisedKeeps DEF Advances, Rows
<1> QED
  BY <1>6, <1>7, <1>8, <1>9 DEF Follows, RowOK, new

\* A completed row has no replacement pending, so a movie it restarts has none.
LEMMA ForceRetriedRowOK ==
  ASSUME NEW row, RowOK(row), CanForceRetry(row), NEW at \in Nat
  PROVE  Follows(row, ForceRetriedRow(row, at))
<1> DEFINE restart == RestartsMovie(row)
           stage == IF restart THEN "searching" ELSE row.lifecycle_state
           tags == IF restart THEN {} ELSE row.attention_tags \ {"skipped", "retry_blocked"}
           content == IF restart THEN RestartedPayload(row.payload) ELSE row.payload
           new == ForceRetriedRow(row, at)
<1>0. row \in Rows /\ row.payload \in Payloads /\ Idle(row) /\ row.active /\ row.schedulable
  BY DEF RowOK, Rows, CanForceRetry
<1>1. stage \in Lifecycles /\ tags \in SUBSET Tags
  BY <1>0 DEF Lifecycles, Rows
<1>2. stage # "completed"
  BY <1>0 DEF RowOK, OnTrack, CanForceRetry, RestartsMovie, Rows
<1>3. content \in Payloads /\ content.replacement_pending = row.payload.replacement_pending
        /\ content.replacement_prepared = row.payload.replacement_prepared
  <2>1. NoCandidates \in Candidates
    BY DEF NoCandidates, Candidates
  <2>2. [t \in Torrents |-> IF row.payload.downloads[t] = "none" THEN "none" ELSE "retired"]
          \in Downloads
    BY DEF Downloads
  <2> QED
    BY <1>0, <2>1, <2>2 DEF RestartedPayload, Payloads
<1>4. OnTrack(row) /\ (row.payload.replacement_pending => stage = row.lifecycle_state)
  BY DEF RowOK, RestartsMovie
<1>5. new = [Revised(row) EXCEPT
               !.lifecycle_state = stage, !.next_attempt_at = at, !.retry_count = 0,
               !.retry_blocked = FALSE, !.force_eligible_once = TRUE,
               !.attention_tags = tags, !.skip_reason = FALSE, !.payload = content]
  BY <1>0, RevisedKeeps DEF ForceRetriedRow
<1> HIDE DEF restart, stage, tags, content, new
<1>6. new \in Rows
  <2> DEFINE half == [Revised(row) EXCEPT
                        !.next_attempt_at = at, !.retry_count = 0,
                        !.retry_blocked = FALSE, !.force_eligible_once = TRUE]
  <2>1. new = [half EXCEPT !.lifecycle_state = stage, !.attention_tags = tags,
                           !.skip_reason = FALSE, !.payload = content]
    BY <1>0, <1>5, RevisedKeeps DEF Rows
  <2>2. half \in Rows
    <3>1. Revised(row) \in Rows
      BY <1>0, RevisedKeeps
    <3> QED
      BY <3>1 DEF Rows
  <2> HIDE DEF half
  <2> QED
    BY <1>1, <1>3, <2>1, <2>2 DEF Rows
<1>7. RowWellFormed(new) /\ Loadable(new)
  BY <1>0, <1>2, <1>5, RevisedKeeps, ZeroIsNotExhausted, RowAssumption
  DEF RowOK, RowWellFormed, Loadable, Eligible, Idle, Rows
<1>8. OnTrack(new) /\ WithinBudget(new) /\ SkipsWork(new)
  BY <1>0, <1>3, <1>4, <1>5, RevisedKeeps DEF OnTrack, WithinBudget, SkipsWork, Idle, Rows
<1>9. Advances(row, new)
  BY <1>0, <1>5, RevisedKeeps DEF Advances, Rows, Idle
<1> QED
  BY <1>6, <1>7, <1>8, <1>9 DEF Follows, RowOK, new

LEMMA ConfirmedRowOK ==
  ASSUME NEW row, RowOK(row), NEW t \in Torrents, NEW replace \in BOOLEAN,
         CanConfirm(row, t, replace), NEW at \in Nat
  PROVE  Follows(row, ConfirmedRow(row, t, replace, at))
<1> DEFINE content == [row.payload EXCEPT !.user_confirmed = t,
                                          !.replacement_pending = replace,
                                          !.replacement_prepared = FALSE]
           new == ConfirmedRow(row, t, replace, at)
<1>0. row \in Rows /\ row.payload \in Payloads /\ Idle(row) /\ row.active /\ row.schedulable
  BY DEF RowOK, Rows, CanConfirm
<1>1. content \in Payloads /\ content.replacement_prepared = FALSE
  BY <1>0 DEF Payloads
<1>2. new = [Revised(row) EXCEPT
               !.lifecycle_state = "searching", !.next_attempt_at = at, !.retry_count = 0,
               !.retry_blocked = FALSE, !.force_eligible_once = TRUE,
               !.attention_tags = {}, !.skip_reason = FALSE, !.payload = content]
  BY <1>0, RevisedKeeps DEF ConfirmedRow
<1> HIDE DEF content, new
<1>3. new \in Rows
  <2> DEFINE half == [Revised(row) EXCEPT
                        !.next_attempt_at = at, !.retry_count = 0,
                        !.retry_blocked = FALSE, !.force_eligible_once = TRUE]
  <2>1. new = [half EXCEPT !.lifecycle_state = "searching", !.attention_tags = {},
                           !.skip_reason = FALSE, !.payload = content]
    BY <1>0, <1>2, RevisedKeeps DEF Rows
  <2>2. half \in Rows
    <3>1. Revised(row) \in Rows
      BY <1>0, RevisedKeeps
    <3> QED
      BY <3>1 DEF Rows
  <2> HIDE DEF half
  <2> QED
    BY <1>1, <2>1, <2>2 DEF Rows, Lifecycles
<1>4. RowWellFormed(new) /\ Loadable(new)
  BY <1>0, <1>2, RevisedKeeps, ZeroIsNotExhausted, RowAssumption
  DEF RowOK, RowWellFormed, Loadable, Eligible, Idle, Rows
<1>5. OnTrack(new) /\ WithinBudget(new) /\ SkipsWork(new)
  BY <1>0, <1>1, <1>2, RevisedKeeps DEF OnTrack, WithinBudget, SkipsWork, Idle, Rows
<1>6. Advances(row, new)
  BY <1>0, <1>2, RevisedKeeps DEF Advances, Rows, Idle
<1> QED
  BY <1>3, <1>4, <1>5, <1>6 DEF Follows, RowOK, new

LEMMA ManualCandidatesRowOK ==
  ASSUME NEW row, RowOK(row), Idle(row), NEW found \in SUBSET Torrents
  PROVE  Follows(row, ManualCandidatesRow(row, found))
<1> DEFINE kept(t) == row.payload.candidates[t] = "exact" \/ t = row.payload.user_confirmed
           list == [t \in Torrents |-> IF kept(t) THEN row.payload.candidates[t]
                                       ELSE IF t \in found THEN "manual" ELSE "absent"]
           content == [row.payload EXCEPT !.candidates = list]
           new == ManualCandidatesRow(row, found)
<1>0. row \in Rows /\ row.payload \in Payloads
  BY DEF RowOK, Rows
<1>1. list \in Candidates
  BY <1>0 DEF Candidates, Payloads
<1>2. new = [Revised(row) EXCEPT !.payload = content]
  BY <1>0, RevisedKeeps DEF ManualCandidatesRow
<1> HIDE DEF list
<1>3. content \in Payloads /\ content.replacement_pending = row.payload.replacement_pending
        /\ content.replacement_prepared = row.payload.replacement_prepared
  BY <1>0, <1>1 DEF Payloads
<1> HIDE DEF content, new
<1>4. new \in Rows
  BY <1>0, <1>2, <1>3, RevisedKeeps DEF Rows
<1>5. RowWellFormed(new) /\ Loadable(new)
  BY <1>0, <1>2, RevisedKeeps DEF RowOK, RowWellFormed, Loadable, Eligible, Rows
<1>6. OnTrack(new) /\ WithinBudget(new) /\ SkipsWork(new)
  BY <1>0, <1>2, <1>3, RevisedKeeps
  DEF RowOK, OnTrack, WithinBudget, SkipsWork, Skipped, Idle, Rows
<1>7. Advances(row, new)
  BY <1>0, <1>2, RevisedKeeps DEF Advances, Rows, Idle
<1> QED
  BY <1>4, <1>5, <1>6, <1>7 DEF Follows, RowOK, new

LEMMA DetailRowOK ==
  ASSUME NEW row, RowOK(row), NEW detail \in Details, CanUpdateDetail(row, detail),
         detail.payload = row.payload
  PROVE  Follows(row, DetailRow(row, detail))
<1> DEFINE new == DetailRow(row, detail)
<1>0. row \in Rows /\ Revised(row) \in Rows
  BY RevisedKeeps DEF RowOK
<1>1. new = [Revised(row) EXCEPT
               !.attention_tags = detail.attention_tags, !.skip_reason = detail.skip_reason,
               !.last_seen_at = detail.last_seen_at, !.payload = detail.payload]
  BY DEF DetailRow
<1> HIDE DEF new
<1>2. new \in Rows
  BY <1>0, <1>1 DEF Rows, Details
<1>3. RowWellFormed(new) /\ Loadable(new)
  BY <1>0, <1>1, RevisedKeeps DEF RowOK, RowWellFormed, Loadable, Eligible, Rows
<1>4. OnTrack(new) /\ WithinBudget(new)
  BY <1>0, <1>1, RevisedKeeps DEF RowOK, OnTrack, WithinBudget, Idle, Rows
<1>5. SkipsWork(new)
  BY <1>0, <1>1, RevisedKeeps DEF RowOK, SkipsWork, Skipped, Idle, CanUpdateDetail, Rows
<1>6. Advances(row, new)
  BY <1>0, <1>1, RevisedKeeps DEF Advances, Rows
<1> QED
  BY <1>2, <1>3, <1>4, <1>5, <1>6 DEF Follows, RowOK, new

LEMMA TitleRowOK ==
  ASSUME NEW row, RowOK(row)
  PROVE  Follows(row, TitleRow(row))
<1> DEFINE new == TitleRow(row)
<1>0. row \in Rows
  BY DEF RowOK
<1>1. new \in Rows /\ RowWellFormed(new) /\ Loadable(new)
  BY <1>0, RevisedKeeps DEF TitleRow, RowOK, RowWellFormed, Loadable, Eligible, Rows
<1>2. OnTrack(new) /\ WithinBudget(new) /\ SkipsWork(new)
  BY <1>0, RevisedKeeps
  DEF TitleRow, RowOK, OnTrack, WithinBudget, SkipsWork, Skipped, Idle, Rows
<1>3. Advances(row, new)
  BY <1>0, RevisedKeeps DEF Advances, Rows, TitleRow
<1> QED
  BY <1>1, <1>2, <1>3 DEF Follows, RowOK

LEMMA DeactivatedRowOK ==
  ASSUME NEW row, RowOK(row)
  PROVE  Follows(row, DeactivatedRow(row))
<1> DEFINE new == DeactivatedRow(row)
<1>0. row \in Rows /\ Revised(row) \in Rows
  BY RevisedKeeps DEF RowOK
<1>1. new = [Revised(row) EXCEPT
               !.active = FALSE, !.schedulable = FALSE, !.claim = Null,
               !.next_attempt_at = Null, !.force_eligible_once = FALSE]
  BY DEF DeactivatedRow
<1> HIDE DEF new
<1>2. new \in Rows
  BY <1>0, <1>1 DEF Rows
<1>3. RowWellFormed(new) /\ Loadable(new)
  BY <1>0, <1>1, RevisedKeeps DEF RowOK, RowWellFormed, Loadable, Eligible, Rows
<1>4. OnTrack(new) /\ WithinBudget(new) /\ SkipsWork(new)
  BY <1>0, <1>1, RevisedKeeps DEF RowOK, OnTrack, WithinBudget, SkipsWork, Idle, Rows
<1>5. Advances(row, new)
  BY <1>0, <1>1, RevisedKeeps DEF Advances, Rows
<1> QED
  BY <1>2, <1>3, <1>4, <1>5 DEF Follows, RowOK, new

\* The row as every poll leaves it before it looks at kind and activity.
LEMMA RefreshedType ==
  ASSUME NEW row \in Rows, NEW generation \in Nat, NEW at \in Nat
  PROVE  RefreshedRow(row, generation, at) \in Rows
<1> DEFINE new == RefreshedRow(row, generation, at)
<1>1. Revised(row) \in Rows
  BY RevisedKeeps
<1>2. new = [Revised(row) EXCEPT !.active = TRUE, !.last_seen = generation,
                                 !.last_seen_at = at]
  BY DEF RefreshedRow
<1> HIDE DEF new
<1>3. new \in Rows
  BY <1>1, <1>2, ZenonT(60) DEF Rows
<1> QED
  BY <1>3 DEF new

LEMMA RefreshedRowOK ==
  ASSUME NEW row, RowOK(row), row.active, NEW generation \in Nat, NEW at \in Nat
  PROVE  Follows(row, RefreshedRow(row, generation, at))
<1> DEFINE new == RefreshedRow(row, generation, at)
<1>0. row \in Rows /\ Revised(row) \in Rows
  BY RevisedKeeps DEF RowOK
<1>1. new \in Rows /\ new = [Revised(row) EXCEPT !.active = TRUE, !.last_seen = generation,
                                                !.last_seen_at = at]
  <2>1. new \in Rows
    BY <1>0, RefreshedType
  <2>2. new = [Revised(row) EXCEPT !.active = TRUE, !.last_seen = generation,
                                   !.last_seen_at = at]
    BY DEF RefreshedRow
  <2> QED
    BY <2>1, <2>2
<1> HIDE DEF new
<1>2. RowWellFormed(new) /\ Loadable(new)
  BY <1>0, <1>1, RevisedKeeps DEF RowOK, RowWellFormed, Loadable, Eligible, Rows
<1>3. OnTrack(new) /\ WithinBudget(new) /\ SkipsWork(new)
  BY <1>0, <1>1, RevisedKeeps
  DEF RowOK, OnTrack, WithinBudget, SkipsWork, Skipped, Idle, Rows
<1>4. Advances(row, new)
  BY <1>0, <1>1, RevisedKeeps DEF Advances, Rows
<1> QED
  BY <1>1, <1>2, <1>3, <1>4 DEF Follows, RowOK, new

LEMMA ReactivatedRowOK ==
  ASSUME NEW row, RowOK(row), NEW observed \in Observations,
         NEW generation \in Nat, NEW at \in Nat
  PROVE  Follows(row, ReactivatedRow(row, observed, generation, at))
<1> DEFINE due == IF /\ observed.schedulable
                     /\ row.lifecycle_state # "completed"
                     /\ ~row.retry_blocked
                     /\ ~Skipped(row)
                  THEN at ELSE Null
           seen == RefreshedRow(row, generation, at)
           new == ReactivatedRow(row, observed, generation, at)
<1>0. row \in Rows /\ Revised(row) \in Rows
  BY RevisedKeeps DEF RowOK
<1>1. seen \in Rows /\ seen = [Revised(row) EXCEPT !.active = TRUE, !.last_seen = generation,
                                                  !.last_seen_at = at]
  <2>1. seen \in Rows
    BY <1>0, RefreshedType
  <2>2. seen = [Revised(row) EXCEPT !.active = TRUE, !.last_seen = generation,
                                   !.last_seen_at = at]
    BY DEF RefreshedRow
  <2> QED
    BY <2>1, <2>2
<1>2. /\ due \in Nat \cup {Null}
      /\ due # Null => observed.schedulable /\ row.lifecycle_state # "completed"
  OBVIOUS
<1>3. new = [seen EXCEPT !.schedulable = observed.schedulable, !.claim = Null,
                         !.next_attempt_at = due, !.force_eligible_once = FALSE]
  BY DEF ReactivatedRow
<1>4. observed.schedulable \in BOOLEAN
  BY DEF Observations
<1> HIDE DEF due, seen, new
<1>5. new \in Rows
  <2> DEFINE half == [seen EXCEPT !.schedulable = observed.schedulable, !.claim = Null]
  <2>1. new = [half EXCEPT !.next_attempt_at = due, !.force_eligible_once = FALSE]
    BY <1>1, <1>3 DEF Rows
  <2>2. half \in Rows
    BY <1>1, <1>4, ZenonT(60) DEF Rows
  <2> HIDE DEF half
  <2> QED
    BY <1>2, <2>1, <2>2, ZenonT(60) DEF Rows
<1>6. RowWellFormed(new) /\ Loadable(new)
  BY <1>0, <1>1, <1>2, <1>3, RevisedKeeps
  DEF RowOK, RowWellFormed, Loadable, Eligible, Rows
<1>7. OnTrack(new) /\ WithinBudget(new) /\ SkipsWork(new)
  BY <1>0, <1>1, <1>3, RevisedKeeps DEF RowOK, OnTrack, WithinBudget, SkipsWork, Idle, Rows
<1>8. Advances(row, new)
  BY <1>0, <1>1, <1>3, RevisedKeeps DEF Advances, Rows
<1> QED
  BY <1>5, <1>6, <1>7, <1>8 DEF Follows, RowOK, new

\* A reset keeps the replacement flags, and goes back to a stage that leads to it.
LEMMA TvResetRowOK ==
  ASSUME NEW row, RowOK(row), NEW observed \in Observations,
         NEW generation \in Nat, NEW at \in Nat
  PROVE  Follows(row, TvResetRow(row, observed, generation, at))
<1> DEFINE due == IF observed.schedulable /\ ~Skipped(row) THEN at ELSE Null
           seen == RefreshedRow(row, generation, at)
           content == [row.payload EXCEPT !.candidates = NoCandidates,
                                          !.user_confirmed = Null,
                                          !.downloads = NoDownloads]
           new == TvResetRow(row, observed, generation, at)
<1>0. row \in Rows /\ Revised(row) \in Rows /\ row.payload \in Payloads
  BY RevisedKeeps DEF RowOK, Rows
<1>1. seen \in Rows /\ seen = [Revised(row) EXCEPT !.active = TRUE, !.last_seen = generation,
                                                  !.last_seen_at = at]
  <2>1. seen \in Rows
    BY <1>0, RefreshedType
  <2>2. seen = [Revised(row) EXCEPT !.active = TRUE, !.last_seen = generation,
                                   !.last_seen_at = at]
    BY DEF RefreshedRow
  <2> QED
    BY <2>1, <2>2
<1>2. due \in Nat \cup {Null} /\ (due # Null => observed.schedulable)
  OBVIOUS
<1>3. NoCandidates \in Candidates /\ NoDownloads \in Downloads
  BY DEF NoCandidates, Candidates, NoDownloads, Downloads
<1>4. content \in Payloads /\ content.replacement_pending = row.payload.replacement_pending
        /\ content.replacement_prepared = row.payload.replacement_prepared
  BY <1>0, <1>3 DEF Payloads
<1>5. seen.payload = row.payload
  BY <1>0, <1>1, RevisedKeeps DEF Rows
<1>6. new = [seen EXCEPT !.media_kind = "tv", !.schedulable = observed.schedulable,
                         !.lifecycle_state = "queued", !.claim = Null,
                         !.next_attempt_at = due, !.retry_count = 0,
                         !.retry_blocked = FALSE, !.force_eligible_once = FALSE,
                         !.payload = content]
  BY <1>1, <1>5 DEF TvResetRow, Rows
<1>7. observed.schedulable \in BOOLEAN
  BY DEF Observations
<1> HIDE DEF due, seen, content, new
<1>8. new \in Rows
  <2> DEFINE half == [seen EXCEPT !.claim = Null, !.next_attempt_at = due, !.retry_count = 0,
                                  !.retry_blocked = FALSE, !.force_eligible_once = FALSE]
  <2>1. new = [half EXCEPT !.media_kind = "tv", !.schedulable = observed.schedulable,
                           !.lifecycle_state = "queued", !.payload = content]
    BY <1>1, <1>6 DEF Rows
  <2>2. half \in Rows
    BY <1>1, <1>2 DEF Rows
  <2> HIDE DEF half
  <2> QED
    BY <1>4, <1>7, <2>1, <2>2 DEF Rows, Lifecycles
<1>9. RowWellFormed(new) /\ Loadable(new)
  BY <1>0, <1>1, <1>2, <1>6, RevisedKeeps, ZeroIsNotExhausted
  DEF RowOK, RowWellFormed, Loadable, Eligible, Rows
<1>10. OnTrack(new) /\ WithinBudget(new) /\ SkipsWork(new)
  BY <1>0, <1>1, <1>4, <1>6, RevisedKeeps
  DEF RowOK, OnTrack, WithinBudget, SkipsWork, Idle, Rows
<1>11. Advances(row, new)
  BY <1>0, <1>1, <1>6, RevisedKeeps DEF Advances, Rows
<1> QED
  BY <1>8, <1>9, <1>10, <1>11 DEF Follows, RowOK, new

LEMMA SeenRowOK ==
  ASSUME NEW row, RowOK(row), NEW observed \in Observations,
         NEW generation \in Nat, NEW at \in Nat
  PROVE  Follows(row, SeenRow(row, observed, generation, at))
BY RefreshedRowOK, ReactivatedRowOK, TvResetRowOK DEF SeenRow

LEMMA InsertedRowOK ==
  ASSUME NEW observed \in Observations, NEW skip \in BOOLEAN,
         NEW generation \in Nat, NEW at \in Nat
  PROVE  RowOK(InsertedRow(observed, skip, generation, at))
<1> DEFINE new == InsertedRow(observed, skip, generation, at)
<1>1. NoCandidates \in Candidates /\ NoDownloads \in Downloads
  BY DEF NoCandidates, Candidates, NoDownloads, Downloads
<1>2. new.payload \in Payloads
  BY <1>1 DEF InsertedRow, Payloads
<1>3. new \in Rows
  BY <1>2 DEF InsertedRow, Rows, Lifecycles, Tags, Observations
<1>4. RowWellFormed(new) /\ Loadable(new)
  BY ZeroIsNotExhausted DEF InsertedRow, RowWellFormed, Loadable, Eligible
<1>5. OnTrack(new) /\ WithinBudget(new) /\ SkipsWork(new)
  BY DEF InsertedRow, OnTrack, WithinBudget, SkipsWork, Idle
<1> QED
  BY <1>3, <1>4, <1>5 DEF RowOK

-----------------------------------------------------------------------------
(* What an attempt reports.                                                *)

\* What an executor knows of the row it claimed.
IsWork(work) ==
  work.operation \in Operations /\ work.payload \in Payloads

IsMatch(m) ==
  /\ m.candidates \in Candidates
  /\ m.user_confirmed \in Torrents \cup {Null}
  /\ m.selected \in Torrents \cup {Null}

LEMMA UpdateType ==
  ASSUME NEW t \in Torrents, NEW state \in {"live", "failed", "retired"}
  PROVE  /\ Update(t, state) \in [{t} -> {"live", "failed", "retired"}]
         /\ {t} \in SUBSET Torrents
BY DEF Update

LEMMA NoUpdatesType ==
  /\ NoUpdates \in [{} -> {"live", "failed", "retired"}]
  /\ {} \in SUBSET Torrents
BY DEF NoUpdates

LEMMA DeltaType ==
  ASSUME NEW step \in {"merge", "prepared", "cleaned"},
         NEW search \in [candidates: Candidates, user_confirmed: Torrents \cup {Null}]
                          \cup {Null},
         NEW S \in SUBSET Torrents, NEW downloads \in [S -> {"live", "failed", "retired"}]
  PROVE  [step |-> step, search |-> search, downloads |-> downloads] \in Deltas
<1>1. downloads \in UNION {[T -> {"live", "failed", "retired"}] : T \in SUBSET Torrents}
  OBVIOUS
<1> QED
  BY <1>1 DEF Deltas

LEMMA MergeType ==
  ASSUME NEW S \in SUBSET Torrents, NEW downloads \in [S -> {"live", "failed", "retired"}]
  PROVE  Merge(downloads) \in Deltas
BY DeltaType DEF Merge

LEMMA NoDeltaType == NoDelta \in Deltas /\ NoDelta.step = "merge"
<1>1. NoDelta \in Deltas
  BY MergeType, NoUpdatesType DEF NoDelta
<1> QED
  BY <1>1 DEF NoDelta, Merge

LEMMA MovieMatchesType ==
  ASSUME NEW payload \in Payloads, NEW m \in MovieMatches(payload)
  PROVE  IsMatch(m)
<1>1. /\ payload.candidates \in Candidates
      /\ payload.user_confirmed \in Torrents \cup {Null}
  BY DEF Payloads
<1>2. ASSUME NEW t \in Torrents \cup {Null}, m = KeptMatch(payload, t)
      PROVE  IsMatch(m)
  BY <1>1, <1>2 DEF KeptMatch, Match, IsMatch
<1>3. ASSUME m \in FreshMatches
      PROVE  IsMatch(m)
  <2>1. PICK found \in Candidates, t \in Torrents \cup {Null} : m = Match(found, Null, t)
    BY <1>3 DEF FreshMatches
  <2> QED
    BY <2>1 DEF Match, IsMatch
<1> QED
  BY <1>1, <1>2, <1>3 DEF MovieMatches, CurrentDownloads

LEMMA MatchesType ==
  ASSUME NEW work, IsWork(work), NEW m \in Matches(work)
  PROVE  IsMatch(m)
<1>1. CASE work.media_kind = "movie"
  BY <1>1, MovieMatchesType DEF Matches, IsWork
<1>2. CASE work.media_kind # "movie"
  <2>1. PICK n \in MovieMatches(work.payload) :
          \E t \in {Null} \cup TvChoices(work.payload, n) : m = [n EXCEPT !.selected = t]
    BY <1>2 DEF Matches
  <2>2. PICK t \in {Null} \cup TvChoices(work.payload, n) : m = [n EXCEPT !.selected = t]
    BY <2>1
  <2>3. t \in Torrents \cup {Null}
    BY <2>2 DEF TvChoices
  <2>4. IsMatch(n)
    BY MovieMatchesType DEF IsWork
  <2>5. m.candidates = n.candidates /\ m.user_confirmed = n.user_confirmed
    BY <2>2
  <2> QED
    BY <2>2, <2>3, <2>4, <2>5 DEF IsMatch
<1> QED
  BY <1>1, <1>2

LEMMA SearchDeltaType ==
  ASSUME NEW m, IsMatch(m),
         NEW S \in SUBSET Torrents, NEW downloads \in [S -> {"live", "failed", "retired"}]
  PROVE  SearchDelta(m, downloads) \in Deltas /\ SearchDelta(m, downloads).step = "merge"
<1>1. [candidates |-> m.candidates, user_confirmed |-> m.user_confirmed]
        \in [candidates: Candidates, user_confirmed: Torrents \cup {Null}]
  BY DEF IsMatch
<1>2. SearchDelta(m, downloads) \in Deltas
  BY <1>1, DeltaType DEF SearchDelta
<1> QED
  BY <1>2 DEF SearchDelta

LEMMA InspectedType ==
  ASSUME NEW payload \in Payloads, NEW delta \in Inspected(payload) \cup Ignored(payload)
  PROVE  delta \in Deltas
<1>1. PICK t \in CurrentDownloads(payload), state \in {"live", "retired"} :
        delta = Merge(Update(t, state))
  BY DEF Inspected, Ignored
<1>2. t \in Torrents
  BY <1>1 DEF CurrentDownloads
<1> QED
  BY <1>1, <1>2, MergeType, UpdateType

\* What an outcome must be; a search is the one that carries out a replacement.
OutcomeOK(work, o) ==
  /\ o.disposition \in Dispositions
  /\ o.delta \in Deltas
  /\ work.payload.replacement_pending /\ work.operation \in {"movie_meta", "movie_search"}
       => NextLifecycle(o.disposition) = "searching"

LEMMA SearchFinishesOK ==
  ASSUME NEW work, IsWork(work), ~work.payload.replacement_pending,
         NEW o \in SearchFinishes(work)
  PROVE  OutcomeOK(work, o)
<1>1. PICK m \in Matches(work) :
        o = IF m.selected = Null
            THEN Outcome("search_waiting", SearchDelta(m, NoUpdates))
            ELSE Outcome("search_pushed", SearchDelta(m, Update(m.selected, "live")))
  BY DEF SearchFinishes
<1>2. IsMatch(m)
  BY MatchesType
<1>3. SearchDelta(m, NoUpdates) \in Deltas
  BY <1>2, SearchDeltaType, NoUpdatesType
<1>4. m.selected # Null => SearchDelta(m, Update(m.selected, "live")) \in Deltas
  <2> SUFFICES ASSUME m.selected # Null
               PROVE  SearchDelta(m, Update(m.selected, "live")) \in Deltas
    OBVIOUS
  <2>1. m.selected \in Torrents
    BY <1>2 DEF IsMatch
  <2>2. /\ Update(m.selected, "live") \in [{m.selected} -> {"live", "failed", "retired"}]
        /\ {m.selected} \in SUBSET Torrents
    BY <2>1, UpdateType
  <2> QED
    BY <1>2, <2>2, SearchDeltaType
<1>5. o.disposition \in Dispositions /\ o.delta \in Deltas
  BY <1>1, <1>3, <1>4 DEF Outcome, Dispositions
<1> QED
  BY <1>5 DEF OutcomeOK

LEMMA ReplacementFinishesOK ==
  ASSUME NEW work, IsWork(work), NEW o \in ReplacementFinishes(work.payload)
  PROVE  OutcomeOK(work, o)
<1>0. NextLifecycle("search_waiting") = "searching" /\ "search_waiting" \in Dispositions
  BY DEF NextLifecycle, Dispositions
<1>1. CASE work.payload.replacement_prepared
  <2>1. o = Outcome("search_waiting", [NoDelta EXCEPT !.step = "cleaned"])
    BY <1>1 DEF ReplacementFinishes
  <2>2. [NoDelta EXCEPT !.step = "cleaned"]
          = [step |-> "cleaned", search |-> Null, downloads |-> NoUpdates]
    BY DEF NoDelta, Merge
  <2>3. [step |-> "cleaned", search |-> Null, downloads |-> NoUpdates] \in Deltas
    BY DeltaType, NoUpdatesType
  <2> QED
    BY <1>0, <2>1, <2>2, <2>3 DEF OutcomeOK, Outcome
<1>2. CASE ~work.payload.replacement_prepared
  <2> DEFINE kept == {t \in Torrents : work.payload.downloads[t] # "none"}
             states(found) == [t \in kept |-> IF t \in found THEN "live"
                                              ELSE work.payload.downloads[t]]
  <2>1. PICK found \in SUBSET kept :
          o = Outcome("search_waiting",
                [step |-> "prepared", search |-> Null, downloads |-> states(found)])
    BY <1>2 DEF ReplacementFinishes
  <2>2. states(found) \in [kept -> {"live", "failed", "retired"}] /\ kept \in SUBSET Torrents
    BY DEF IsWork, Payloads, Downloads
  <2> HIDE DEF states, kept
  <2>3. [step |-> "prepared", search |-> Null, downloads |-> states(found)] \in Deltas
    BY <2>2, DeltaType
  <2> QED
    BY <1>0, <2>1, <2>3 DEF OutcomeOK, Outcome
<1> QED
  BY <1>1, <1>2

LEMMA FinishOutcomesOK ==
  ASSUME NEW work, IsWork(work), NEW o \in FinishOutcomes(work)
  PROVE  OutcomeOK(work, o)
<1>1. CASE work.operation = "movie_meta"
  BY <1>1, NoDeltaType
  DEF FinishOutcomes, OutcomeOK, Outcome, NextLifecycle, Dispositions
<1>2. CASE work.operation = "movie_search"
  BY <1>2, SearchFinishesOK, ReplacementFinishesOK DEF FinishOutcomes
<1>3. CASE work.operation = "movie_progress"
  <2>1. o \in Outcomes(ProgressDispositions, Inspected(work.payload))
    BY <1>3 DEF FinishOutcomes
  <2>2. o.disposition \in ProgressDispositions /\ o.delta \in Inspected(work.payload)
    BY <2>1 DEF Outcomes, Outcome
  <2> QED
    BY <1>3, <2>2, InspectedType DEF OutcomeOK, IsWork, ProgressDispositions, Dispositions
<1>4. CASE work.operation \notin {"movie_meta", "movie_search", "movie_progress"}
  <2>1. o \in Outcomes(LinkDispositions(work.media_kind),
                       Inspected(work.payload) \cup Ignored(work.payload))
    <3>1. \/ o \in Outcomes(LinkDispositions(work.media_kind), Inspected(work.payload))
          \/ /\ work.media_kind = "tv"
             /\ o \in Outcomes({"link_more_required"}, Ignored(work.payload))
      BY <1>4 DEF FinishOutcomes
    <3> QED
      BY <3>1 DEF Outcomes, LinkDispositions
  <2>2. /\ o.disposition \in LinkDispositions(work.media_kind)
        /\ o.delta \in Inspected(work.payload) \cup Ignored(work.payload)
    BY <2>1 DEF Outcomes, Outcome
  <2> QED
    BY <1>4, <2>2, InspectedType DEF OutcomeOK, IsWork, LinkDispositions, Dispositions
<1> QED
  BY <1>1, <1>2, <1>3, <1>4

\* Each operation ends only in a disposition of its own.
LEMMA FinishDispositions ==
  ASSUME NEW work, IsWork(work), NEW o \in FinishOutcomes(work)
  PROVE  \/ work.operation = "movie_meta" /\ o.disposition = "meta_ready"
         \/ /\ work.operation = "movie_search"
            /\ o.disposition \in {"search_waiting", "search_pushed"}
         \/ /\ work.operation = "movie_progress"
            /\ o.disposition \in ProgressDispositions
         \/ /\ work.operation = "movie_link"
            /\ o.disposition \in LinkDispositions(work.media_kind)
<1>1. CASE work.operation = "movie_meta"
  BY <1>1 DEF FinishOutcomes, Outcome
<1>2. CASE work.operation = "movie_search"
  <2>1. CASE work.payload.replacement_pending
    <3>1. o \in ReplacementFinishes(work.payload)
      BY <1>2, <2>1 DEF FinishOutcomes
    <3>2. CASE work.payload.replacement_prepared
      BY <1>2, <3>1, <3>2 DEF ReplacementFinishes, Outcome
    <3>3. CASE ~work.payload.replacement_prepared
      <4>1. \E delta : o = Outcome("search_waiting", delta)
        BY <3>1, <3>3, Zenon DEF ReplacementFinishes
      <4> QED
        BY <1>2, <4>1 DEF Outcome
    <3> QED
      BY <3>2, <3>3
  <2>2. CASE ~work.payload.replacement_pending
    <3>1. o \in SearchFinishes(work)
      BY <1>2, <2>2 DEF FinishOutcomes
    <3>2. PICK m \in Matches(work) :
            o = IF m.selected = Null
                THEN Outcome("search_waiting", SearchDelta(m, NoUpdates))
                ELSE Outcome("search_pushed", SearchDelta(m, Update(m.selected, "live")))
      BY <3>1 DEF SearchFinishes
    <3> QED
      BY <1>2, <3>2 DEF Outcome
  <2> QED
    BY <2>1, <2>2
<1>3. CASE work.operation = "movie_progress"
  BY <1>3 DEF FinishOutcomes, Outcomes, Outcome
<1>4. CASE work.operation = "movie_link"
  BY <1>4 DEF FinishOutcomes, Outcomes, Outcome, LinkDispositions
<1> QED
  BY <1>1, <1>2, <1>3, <1>4 DEF IsWork, Operations

LEMMA FailOutcomesOK ==
  ASSUME NEW work, IsWork(work), NEW delta \in FailOutcomes(work)
  PROVE  delta \in Deltas
<1>1. CASE work.operation = "movie_search" /\ ~work.payload.replacement_pending
  <2>1. CASE delta = NoDelta
    BY <2>1, NoDeltaType
  <2>2. CASE delta # NoDelta
    <3>1. PICK m \in Matches(work) :
            /\ m.selected # Null
            /\ \/ delta = SearchDelta(m, NoUpdates)
               \/ delta = SearchDelta(m, Update(m.selected, "failed"))
      BY <1>1, <2>2 DEF FailOutcomes, SearchFailures
    <3>2. IsMatch(m)
      BY MatchesType
    <3>3. m.selected \in Torrents
      BY <3>1, <3>2 DEF IsMatch
    <3>4. SearchDelta(m, NoUpdates) \in Deltas
      BY <3>2, SearchDeltaType, NoUpdatesType
    <3>5. /\ Update(m.selected, "failed") \in [{m.selected} -> {"live", "failed", "retired"}]
          /\ {m.selected} \in SUBSET Torrents
      BY <3>3, UpdateType
    <3>6. SearchDelta(m, Update(m.selected, "failed")) \in Deltas
      BY <3>2, <3>5, SearchDeltaType
    <3> QED
      BY <3>1, <3>4, <3>6
  <2> QED
    BY <2>1, <2>2
<1>2. CASE ~(work.operation = "movie_search" /\ ~work.payload.replacement_pending)
  <2>1. delta = NoDelta \/ delta \in Inspected(work.payload)
    BY <1>2 DEF FailOutcomes
  <2> QED
    BY <2>1, NoDeltaType, InspectedType DEF IsWork
<1> QED
  BY <1>1, <1>2

-----------------------------------------------------------------------------
(* What an attempt never reports.                                          *)

\* While the user's choice has no download under way, every match is that choice.
LEMMA ConfirmedMatches ==
  ASSUME NEW work, IsWork(work), HasConfirmed(work.payload), NEW m \in Matches(work)
  PROVE  m.user_confirmed = work.payload.user_confirmed
<1> DEFINE kept == KeptMatch(work.payload, work.payload.user_confirmed)
<1>1. MovieMatches(work.payload) = {kept} /\ kept.user_confirmed = work.payload.user_confirmed
  BY DEF MovieMatches, KeptMatch, Match
<1>2. CASE work.media_kind = "movie"
  BY <1>1, <1>2 DEF Matches
<1>3. CASE work.media_kind # "movie"
  <2>1. \E t \in {Null} \cup TvChoices(work.payload, kept) : m = [kept EXCEPT !.selected = t]
    BY <1>1, <1>3 DEF Matches
  <2>2. [kept EXCEPT !.selected = 0].user_confirmed = kept.user_confirmed
    BY DEF KeptMatch, Match
  <2> QED
    BY <1>1, <2>1, <2>2 DEF KeptMatch, Match
<1> QED
  BY <1>2, <1>3

KeepsChoice(work, delta) ==
  delta.search # Null => delta.search.user_confirmed = work.payload.user_confirmed

LEMMA MergeKeepsChoice ==
  ASSUME NEW work, NEW updates
  PROVE  KeepsChoice(work, Merge(updates))
BY DEF KeepsChoice, Merge

LEMMA SearchKeepsChoice ==
  ASSUME NEW work, NEW m, m.user_confirmed = work.payload.user_confirmed, NEW updates
  PROVE  KeepsChoice(work, SearchDelta(m, updates))
BY DEF KeepsChoice, SearchDelta

LEMMA InspectionKeepsChoice ==
  ASSUME NEW work, NEW payload, NEW delta \in Inspected(payload) \cup Ignored(payload)
  PROVE  KeepsChoice(work, delta)
BY MergeKeepsChoice DEF Inspected, Ignored

StartsNothing(work, delta) ==
  \A t \in DOMAIN delta.downloads : work.payload.downloads[t] # "none"

\* A replacement reports on the downloads there were, and no search.
LEMMA ReplacementReports ==
  ASSUME NEW work, NEW o \in ReplacementFinishes(work.payload)
  PROVE  o.delta.search = Null /\ StartsNothing(work, o.delta)
<1>1. CASE work.payload.replacement_prepared
  <2>1. o.delta = [NoDelta EXCEPT !.step = "cleaned"]
    BY <1>1 DEF ReplacementFinishes, Outcome
  <2>2. o.delta = [step |-> "cleaned", search |-> Null, downloads |-> NoUpdates]
    BY <2>1 DEF NoDelta, Merge
  <2> QED
    BY <2>2 DEF StartsNothing, NoUpdates
<1>2. CASE ~work.payload.replacement_prepared
  <2> DEFINE kept == {t \in Torrents : work.payload.downloads[t] # "none"}
             states(found) == [t \in kept |-> IF t \in found THEN "live"
                                              ELSE work.payload.downloads[t]]
  <2>1. PICK found \in SUBSET kept :
          o = Outcome("search_waiting",
                [step |-> "prepared", search |-> Null, downloads |-> states(found)])
    BY <1>2 DEF ReplacementFinishes
  <2>2. DOMAIN states(found) = kept
    OBVIOUS
  <2> HIDE DEF states
  <2>3. o.delta.search = Null /\ o.delta.downloads = states(found)
    BY <2>1 DEF Outcome
  <2> QED
    BY <2>2, <2>3 DEF StartsNothing
<1> QED
  BY <1>1, <1>2

\* No outcome replaces a choice of the user that has no download under way.
LEMMA FinishKeepsChoice ==
  ASSUME NEW work, IsWork(work), HasConfirmed(work.payload), NEW o \in FinishOutcomes(work)
  PROVE  KeepsChoice(work, o.delta)
<1>0. KeepsChoice(work, NoDelta)
  BY MergeKeepsChoice DEF NoDelta
<1>1. CASE work.operation = "movie_meta"
  BY <1>0, <1>1 DEF FinishOutcomes, Outcome
<1>2. CASE work.operation = "movie_search" /\ ~work.payload.replacement_pending
  <2>1. PICK m \in Matches(work) :
          o = IF m.selected = Null
              THEN Outcome("search_waiting", SearchDelta(m, NoUpdates))
              ELSE Outcome("search_pushed", SearchDelta(m, Update(m.selected, "live")))
    BY <1>2 DEF FinishOutcomes, SearchFinishes
  <2>2. m.user_confirmed = work.payload.user_confirmed
    BY ConfirmedMatches
  <2> QED
    BY <2>1, <2>2, SearchKeepsChoice DEF Outcome
<1>3. CASE work.operation = "movie_search" /\ work.payload.replacement_pending
  BY <1>3, ReplacementReports DEF FinishOutcomes, KeepsChoice
<1>4. CASE work.operation \notin {"movie_meta", "movie_search"}
  <2>1. o.delta \in Inspected(work.payload) \cup Ignored(work.payload)
    BY <1>4 DEF FinishOutcomes, Outcomes, Outcome
  <2> QED
    BY <2>1, InspectionKeepsChoice
<1> QED
  BY <1>1, <1>2, <1>3, <1>4

LEMMA FailKeepsChoice ==
  ASSUME NEW work, IsWork(work), HasConfirmed(work.payload), NEW delta \in FailOutcomes(work)
  PROVE  KeepsChoice(work, delta)
<1>0. KeepsChoice(work, NoDelta)
  BY MergeKeepsChoice DEF NoDelta
<1>1. CASE work.operation = "movie_search" /\ ~work.payload.replacement_pending
  <2>1. \/ delta = NoDelta
        \/ \E m \in Matches(work) :
             \/ delta = SearchDelta(m, NoUpdates)
             \/ delta = SearchDelta(m, Update(m.selected, "failed"))
    BY <1>1 DEF FailOutcomes, SearchFailures
  <2> QED
    BY <1>0, <2>1, ConfirmedMatches, SearchKeepsChoice
<1>2. CASE ~(work.operation = "movie_search" /\ ~work.payload.replacement_pending)
  <2>1. delta = NoDelta \/ delta \in Inspected(work.payload)
    BY <1>2 DEF FailOutcomes
  <2> QED
    BY <1>0, <2>1, InspectionKeepsChoice
<1> QED
  BY <1>1, <1>2

\* While a replacement is pending, an attempt of the stages it may be pending in
\* reports on no download but those there were.
LEMMA PendingStartsNothing ==
  ASSUME NEW work, work.payload.replacement_pending,
         work.operation \in {"movie_meta", "movie_search"}
  PROVE  /\ \A o \in FinishOutcomes(work) : StartsNothing(work, o.delta)
         /\ \A delta \in FailOutcomes(work) : StartsNothing(work, delta)
<1>0. StartsNothing(work, NoDelta)
  BY DEF StartsNothing, NoDelta, Merge, NoUpdates
<1>1. ASSUME NEW o \in FinishOutcomes(work)
      PROVE  StartsNothing(work, o.delta)
  <2>1. CASE work.operation = "movie_meta"
    BY <1>0, <2>1 DEF FinishOutcomes, Outcome
  <2>2. CASE work.operation = "movie_search"
    BY <2>2, ReplacementReports DEF FinishOutcomes
  <2> QED
    BY <2>1, <2>2
<1>2. \A delta \in FailOutcomes(work) : StartsNothing(work, delta)
  BY <1>0 DEF FailOutcomes
<1> QED
  BY <1>1, <1>2

-----------------------------------------------------------------------------
(* The repository.                                                         *)

RowsOK == \A s \in Stored : RowOK(rows[s])

\* Nobody refers to a row, or a poll, that the repository does not know.
ReferencesOK ==
  /\ \A e \in InFlight : executors[e].subject \in Stored
  /\ \A c \in Clients : clients[c] # Null =>
       /\ clients[c].subject \in Stored
       /\ clients[c].revision <= rows[clients[c].subject].revision
  /\ \A p \in Pollers : pollers[p] # Null => meta # Null

IInv ==
  /\ TypeOK
  /\ RowsOK
  /\ ReferencesOK
  /\ OneHolder
  /\ ClaimFreezesPayload
  /\ RevisionIdentifiesDetail

LEMMA RowIsNotNull ==
  ASSUME NEW row, RowOK(row)
  PROVE  row # Null /\ row \in Rows
BY NullAssumption DEF RowOK

LEMMA StoredRow ==
  ASSUME IInv, NEW s \in Stored
  PROVE  s \in Subjects /\ RowOK(rows[s]) /\ rows[s] \in Rows
BY DEF IInv, RowsOK, Stored, RowOK

-----------------------------------------------------------------------------
(* How a command may change one row without claiming it.                   *)

Careful(s) ==
  \/ rows'[s] = rows[s]
  \/ rows[s] = Null /\ RowOK(rows'[s]) /\ rows'[s].claim = Null
  \/ rows[s] # Null /\ Follows(rows[s], rows'[s])

\* An executor stays as it is, up to the note that it was revoked, or ends.
Remains(e) ==
  \/ executors'[e] = Null
  \/ /\ executors[e] # Null /\ executors'[e] # Null
     /\ executors'[e].subject = executors[e].subject
     /\ executors'[e].operation = executors[e].operation
     /\ executors'[e].attempt_id = executors[e].attempt_id
     /\ executors'[e].lease_until = executors[e].lease_until
     /\ executors'[e].media_kind = executors[e].media_kind
     /\ executors'[e].payload = executors[e].payload

\* Every row known stays known, and a row that changes has a higher revision.
Grows ==
  \A s \in Subjects :
    rows[s] # Null =>
      /\ rows'[s] # Null
      /\ rows'[s] = rows[s] \/ rows'[s].revision > rows[s].revision

ClientsOK ==
  \A c \in Clients : clients[c] # Null =>
    /\ clients[c].subject \in Stored
    /\ clients[c].revision <= rows[clients[c].subject].revision
    /\ IsFresh(c) => DetailOf(rows[clients[c].subject]) = clients[c].detail

LEMMA ClientsFromIInv == IInv => ClientsOK
BY DEF IInv, ReferencesOK, RevisionIdentifiesDetail, ClientsOK

LEMMA ClientsKept ==
  ASSUME IInv, Grows, rows' \in [Subjects -> Rows \cup {Null}],
         \A c \in Clients : clients'[c] \in {Null, clients[c]}
  PROVE  ClientsOK'
<1> SUFFICES ASSUME NEW c \in Clients, clients'[c] # Null
             PROVE  /\ clients'[c].subject \in Stored'
                    /\ clients'[c].revision <= rows'[clients'[c].subject].revision
                    /\ IsFresh(c)' => DetailOf(rows'[clients'[c].subject]) = clients'[c].detail
  BY DEF ClientsOK
<1> DEFINE s == clients[c].subject
<1>1. clients'[c] = clients[c] /\ clients[c] # Null
  OBVIOUS
<1>2. /\ s \in Stored /\ clients[c].revision <= rows[s].revision
      /\ IsFresh(c) => DetailOf(rows[s]) = clients[c].detail
  BY <1>1, ClientsFromIInv DEF ClientsOK
<1>3. s \in Subjects /\ rows[s] \in Rows /\ rows[s] # Null
  BY <1>2, StoredRow DEF Stored
<1>4. rows'[s] # Null /\ rows'[s] \in Rows
  BY <1>3 DEF Grows
<1>5. s \in Stored'
  BY <1>3, <1>4 DEF Stored
<1>6. clients[c].revision \in Nat /\ rows[s].revision \in Nat /\ rows'[s].revision \in Nat
  BY <1>1, <1>3, <1>4 DEF IInv, TypeOK, Reads, Rows
<1>7. CASE rows'[s] = rows[s]
  BY <1>1, <1>2, <1>5, <1>7 DEF IsFresh
<1>8. CASE rows'[s].revision > rows[s].revision
  BY <1>1, <1>2, <1>5, <1>6, <1>8 DEF IsFresh
<1> QED
  BY <1>3, <1>7, <1>8 DEF Grows

LEMMA RowsKept ==
  ASSUME IInv, rows' = [s \in Subjects |-> rows'[s]],
         \A s \in Subjects : Careful(s)
  PROVE  rows' \in [Subjects -> Rows \cup {Null}] /\ RowsOK' /\ Grows
<1>1. ASSUME NEW s \in Subjects
      PROVE  /\ rows'[s] = Null \/ RowOK(rows'[s])
             /\ rows[s] # Null =>
                  /\ rows'[s] # Null
                  /\ rows'[s] = rows[s] \/ rows'[s].revision > rows[s].revision
  <2>1. rows[s] # Null => RowOK(rows[s]) /\ rows[s].revision \in Nat
    BY <1>1, StoredRow DEF Stored, Rows
  <2>2. CASE rows'[s] = rows[s]
    BY <2>1, <2>2
  <2>3. CASE rows[s] = Null /\ RowOK(rows'[s]) /\ rows'[s].claim = Null
    BY <2>3
  <2>4. CASE rows[s] # Null /\ Follows(rows[s], rows'[s])
    <3>1. RowOK(rows'[s]) /\ rows'[s].revision = rows[s].revision + 1
      BY <2>4 DEF Follows, Advances
    <3>2. rows'[s] # Null
      BY <3>1, RowIsNotNull
    <3>3. rows'[s].revision > rows[s].revision
      BY <2>1, <2>4, <3>1
    <3> QED
      BY <3>1, <3>2, <3>3
  <2> QED
    BY <1>1, <2>2, <2>3, <2>4 DEF Careful
<1>2. \A s \in Subjects : rows'[s] \in Rows \cup {Null}
  BY <1>1, RowIsNotNull
<1> QED
  BY <1>1, <1>2 DEF RowsOK, Stored, Grows

\* What an attempt claimed is untouched by every command but another claim.
LEMMA AttemptsKept ==
  ASSUME IInv, \A s \in Subjects : Careful(s), \A e \in Executors : Remains(e),
         Grows
  PROVE  /\ OneHolder' /\ ClaimFreezesPayload'
         /\ \A e \in InFlight' : executors'[e].subject \in Stored'
<1>1. OneHolder'
  BY DEF IInv, OneHolder, InFlight, Remains
<1>2. \A e \in InFlight' : executors'[e].subject \in Stored'
  BY DEF IInv, ReferencesOK, InFlight, Remains, Grows, Stored
<1>3. ClaimFreezesPayload'
  <2> SUFFICES ASSUME NEW e \in Executors, NEW s \in Stored', Holds(e, s)'
               PROVE  /\ rows'[s].claim.operation = executors'[e].operation
                      /\ rows'[s].claim.lease_until = executors'[e].lease_until
                      /\ rows'[s].media_kind = executors'[e].media_kind
                      /\ rows'[s].payload = executors'[e].payload
    BY DEF ClaimFreezesPayload
  <2>1. /\ executors'[e] # Null /\ executors'[e].subject = s
        /\ rows'[s].claim # Null
        /\ rows'[s].claim.attempt_id = executors'[e].attempt_id
    BY DEF Holds
  <2>2. /\ executors[e] # Null /\ executors[e].subject = s
        /\ executors'[e].operation = executors[e].operation
        /\ executors'[e].attempt_id = executors[e].attempt_id
        /\ executors'[e].lease_until = executors[e].lease_until
        /\ executors'[e].media_kind = executors[e].media_kind
        /\ executors'[e].payload = executors[e].payload
    BY <2>1 DEF Remains
  <2>3. s \in Stored /\ s \in Subjects
    BY <2>2 DEF IInv, ReferencesOK, InFlight, Stored
  <2>4. /\ rows'[s].claim = rows[s].claim
        /\ rows'[s].payload = rows[s].payload
        /\ rows'[s].media_kind = rows[s].media_kind
    BY <2>1, <2>3 DEF Careful, Follows, Advances, Stored
  <2>5. Holds(e, s)
    BY <2>1, <2>2, <2>4 DEF Holds
  <2>6. /\ rows[s].claim.operation = executors[e].operation
        /\ rows[s].claim.lease_until = executors[e].lease_until
        /\ rows[s].media_kind = executors[e].media_kind
        /\ rows[s].payload = executors[e].payload
    BY <2>3, <2>5 DEF IInv, ClaimFreezesPayload
  <2> QED
    BY <2>2, <2>4, <2>6
<1> QED
  BY <1>1, <1>2, <1>3

\* What is left to show of a command that claims nothing.
LEMMA CarefulStep ==
  ASSUME IInv,
         rows' = [s \in Subjects |-> rows'[s]],
         \A s \in Subjects : Careful(s),
         executors' \in [Executors -> Attempts \cup {Null}],
         \A e \in Executors : Remains(e),
         clients' \in [Clients -> Reads \cup {Null}],
         \A c \in Clients : clients'[c] \in {Null, clients[c]},
         now' \in Nat, meta' \in Metas \cup {Null},
         pollers' \in [Pollers -> Polls \cup {Null}],
         \A p \in Pollers : pollers'[p] # Null => meta' # Null
  PROVE  IInv' /\ Grows
<1>1. rows' \in [Subjects -> Rows \cup {Null}] /\ RowsOK' /\ Grows
  BY RowsKept
<1>2. /\ OneHolder' /\ ClaimFreezesPayload'
      /\ \A e \in InFlight' : executors'[e].subject \in Stored'
  BY <1>1, AttemptsKept
<1>3. ClientsOK'
  BY <1>1, ClientsKept
<1>4. RevisionIdentifiesDetail'
  BY <1>3 DEF ClientsOK, RevisionIdentifiesDetail, IsFresh
<1>5. ReferencesOK'
  BY <1>2, <1>3 DEF ClientsOK, ReferencesOK
<1>6. TypeOK'
  BY <1>1 DEF TypeOK
<1> QED
  BY <1>1, <1>2, <1>4, <1>5, <1>6 DEF IInv

-----------------------------------------------------------------------------
(* The commands that claim nothing.                                        *)

LEMMA WriteCareful ==
  ASSUME IInv, NEW s \in Stored, NEW row, Write(s, row), Follows(rows[s], row)
  PROVE  rows' = [r \in Subjects |-> rows'[r]] /\ \A r \in Subjects : Careful(r)
<1>1. s \in Subjects /\ rows[s] # Null /\ rows \in [Subjects -> Rows \cup {Null}]
  BY DEF Stored, IInv, TypeOK
<1>2. rows' = [rows EXCEPT ![s] = row]
  BY DEF Write
<1>3. rows'[s] = row /\ \A r \in Subjects \ {s} : rows'[r] = rows[r]
  BY <1>1, <1>2
<1> QED
  BY <1>1, <1>2, <1>3 DEF Careful

LEMMA LiveAttemptHolds ==
  ASSUME IInv, NEW e \in Executors, IsLive(e)
  PROVE  LET s == executors[e].subject IN
         /\ s \in Stored /\ RowOK(rows[s]) /\ rows[s].claim # Null
         /\ executors[e] \in Attempts /\ IsWork(executors[e])
         /\ Holds(e, s)
         /\ rows[s].payload = executors[e].payload
         /\ rows[s].claim.operation = executors[e].operation
<1> DEFINE s == executors[e].subject
<1>1. executors[e] # Null /\ executors[e] \in Attempts
  BY DEF IsLive, IInv, TypeOK
<1>2. s \in Stored
  BY <1>1 DEF IInv, ReferencesOK, InFlight
<1>3. RowOK(rows[s])
  BY <1>2, StoredRow
<1>4. rows[s].claim # Null /\ Holds(e, s)
  BY <1>1 DEF IsLive, LiveAttempt, Holds
<1>5. rows[s].payload = executors[e].payload /\ rows[s].claim.operation = executors[e].operation
  BY <1>2, <1>4 DEF IInv, ClaimFreezesPayload
<1>6. IsWork(executors[e])
  BY <1>1 DEF Attempts, IsWork
<1> QED
  BY <1>1, <1>2, <1>3, <1>4, <1>5, <1>6

LEMMA SettleStep ==
  ASSUME IInv, NEW e \in Executors, NEW row, IsLive(e), Settle(e, row),
         Follows(rows[executors[e].subject], row)
  PROVE  IInv' /\ Grows
<1>1. executors[e].subject \in Stored /\ Write(executors[e].subject, row)
  BY LiveAttemptHolds DEF Settle
<1>2. rows' = [r \in Subjects |-> rows'[r]] /\ \A r \in Subjects : Careful(r)
  BY <1>1, WriteCareful
<1>3. /\ executors' \in [Executors -> Attempts \cup {Null}]
      /\ \A d \in Executors : Remains(d)
  BY DEF Settle, IInv, TypeOK, Remains
<1>4. /\ now' = now /\ meta' = meta /\ pollers' = pollers /\ clients' = clients
      /\ TypeOK /\ \A p \in Pollers : pollers[p] # Null => meta # Null
  BY DEF Settle, poll_vars, IInv, ReferencesOK
<1> QED
  BY <1>2, <1>3, <1>4, CarefulStep DEF TypeOK

LEMMA FinishStep == ASSUME IInv, NEW e \in Executors, Finish(e) PROVE IInv' /\ Grows
<1> DEFINE s == executors[e].subject
<1>1. IsLive(e)
  BY DEF Finish
<1>2. PICK o \in FinishOutcomes(executors[e]), delay \in RetryDelays :
        /\ DeltaApplies(rows[s].payload, o.delta)
        /\ Settle(e, FinishedRow(rows[s], o.disposition, o.delta, delay, now))
  BY DEF Finish
<1>3. /\ RowOK(rows[s]) /\ rows[s].claim # Null /\ IsWork(executors[e])
      /\ rows[s].payload = executors[e].payload
      /\ rows[s].claim.operation = executors[e].operation
  BY <1>1, LiveAttemptHolds
<1>4. OutcomeOK(executors[e], o)
  BY <1>3, FinishOutcomesOK
<1>5. rows[s].payload.replacement_pending =>
        executors[e].operation \in {"movie_meta", "movie_search"}
  BY <1>3 DEF RowOK, RowWellFormed, OnTrack, OperationOf
<1>6. delay \in Nat /\ now \in Nat
  BY RepositoryAssumption DEF IInv, TypeOK
<1>7. Follows(rows[s], FinishedRow(rows[s], o.disposition, o.delta, delay, now))
  BY <1>2, <1>3, <1>4, <1>5, <1>6, FinishedRowOK DEF OutcomeOK
<1> QED
  BY <1>1, <1>2, <1>7, SettleStep

LEMMA FailStep == ASSUME IInv, NEW e \in Executors, Fail(e) PROVE IInv' /\ Grows
<1> DEFINE s == executors[e].subject
<1>1. IsLive(e)
  BY DEF Fail
<1>2. PICK delta \in FailOutcomes(executors[e]), delay \in RetryDelays :
        /\ DeltaApplies(rows[s].payload, delta)
        /\ Settle(e, FailedRow(rows[s], delta, delay, now))
  BY DEF Fail
<1>3. RowOK(rows[s]) /\ rows[s].claim # Null /\ IsWork(executors[e])
  BY <1>1, LiveAttemptHolds
<1>4. delta \in Deltas
  BY <1>3, FailOutcomesOK
<1>5. delay \in Nat /\ now \in Nat
  BY RepositoryAssumption DEF IInv, TypeOK
<1>6. Follows(rows[s], FailedRow(rows[s], delta, delay, now))
  BY <1>2, <1>3, <1>4, <1>5, FailedRowOK
<1> QED
  BY <1>1, <1>2, <1>6, SettleStep

LEMMA ReleaseStep == ASSUME IInv, NEW e \in Executors, Release(e) PROVE IInv' /\ Grows
<1>1. IsLive(e) /\ Settle(e, ReleasedRow(rows[executors[e].subject]))
  BY DEF Release
<1>2. Follows(rows[executors[e].subject], ReleasedRow(rows[executors[e].subject]))
  BY <1>1, LiveAttemptHolds, ReleasedRowOK
<1> QED
  BY <1>1, <1>2, SettleStep

LEMMA DropAttemptStep == ASSUME IInv, NEW e \in Executors, DropAttempt(e) PROVE IInv' /\ Grows
<1>1. /\ rows' = [r \in Subjects |-> rows'[r]] /\ \A r \in Subjects : Careful(r)
  BY DEF DropAttempt, IInv, TypeOK, Careful
<1>2. /\ executors' \in [Executors -> Attempts \cup {Null}]
      /\ \A d \in Executors : Remains(d)
  BY DEF DropAttempt, IInv, TypeOK, Remains
<1>3. /\ now' = now /\ meta' = meta /\ pollers' = pollers /\ clients' = clients
      /\ TypeOK /\ \A p \in Pollers : pollers[p] # Null => meta # Null
  BY DEF DropAttempt, poll_vars, IInv, ReferencesOK
<1> QED
  BY <1>1, <1>2, <1>3, CarefulStep DEF TypeOK

LEMMA ForceRetryStep == ASSUME IInv, NEW s \in Subjects, ForceRetry(s) PROVE IInv' /\ Grows
<1>1. s \in Stored /\ CanForceRetry(rows[s])
  BY DEF ForceRetry, Stored
<1>2. PICK at \in Recent : Write(s, ForceRetriedRow(rows[s], at))
  BY DEF ForceRetry
<1>3. at \in Nat
  BY DEF Recent, IInv, TypeOK
<1>4. Follows(rows[s], ForceRetriedRow(rows[s], at))
  BY <1>1, <1>3, StoredRow, ForceRetriedRowOK
<1>5. rows' = [r \in Subjects |-> rows'[r]] /\ \A r \in Subjects : Careful(r)
  BY <1>1, <1>2, <1>4, WriteCareful
<1>6. /\ now' = now /\ meta' = meta /\ pollers' = pollers /\ clients' = clients
      /\ executors' = executors
      /\ TypeOK /\ \A p \in Pollers : pollers[p] # Null => meta # Null
  BY DEF ForceRetry, poll_vars, IInv, ReferencesOK
<1>7. \A d \in Executors : Remains(d)
  BY <1>6 DEF Remains
<1> QED
  BY <1>5, <1>6, <1>7, CarefulStep DEF TypeOK

LEMMA WriteBackStep ==
  ASSUME IInv, NEW c \in Clients, NEW row, IsFresh(c), WriteBack(c, row),
         Follows(rows[clients[c].subject], row)
  PROVE  IInv' /\ Grows
<1>1. clients[c].subject \in Stored /\ Write(clients[c].subject, row)
  BY DEF WriteBack, IsFresh, IInv, ReferencesOK
<1>2. rows' = [r \in Subjects |-> rows'[r]] /\ \A r \in Subjects : Careful(r)
  BY <1>1, WriteCareful
<1>3. /\ now' = now /\ meta' = meta /\ pollers' = pollers /\ executors' = executors
      /\ TypeOK /\ \A p \in Pollers : pollers[p] # Null => meta # Null
  BY DEF WriteBack, poll_vars, IInv, ReferencesOK
<1>4. /\ clients' \in [Clients -> Reads \cup {Null}]
      /\ \A d \in Clients : clients'[d] \in {Null, clients[d]}
  BY DEF WriteBack, IInv, TypeOK
<1>5. \A d \in Executors : Remains(d)
  BY <1>3 DEF Remains
<1> QED
  BY <1>2, <1>3, <1>4, <1>5, CarefulStep DEF TypeOK

\* A client that finds the revision it read finds the detail it read.
LEMMA FreshRead ==
  ASSUME IInv, NEW c \in Clients, IsFresh(c)
  PROVE  LET s == clients[c].subject IN
         /\ s \in Stored /\ RowOK(rows[s])
         /\ clients[c].detail \in Details /\ clients[c].detail = DetailOf(rows[s])
<1>1. clients[c] # Null /\ clients[c] \in Reads
  BY DEF IsFresh, IInv, TypeOK
<1>2. clients[c].subject \in Stored
  BY <1>1 DEF IInv, ReferencesOK
<1>3. clients[c].detail = DetailOf(rows[clients[c].subject])
  BY DEF IInv, RevisionIdentifiesDetail
<1>4. RowOK(rows[clients[c].subject])
  BY <1>2, StoredRow
<1> QED
  BY <1>1, <1>2, <1>3, <1>4 DEF Reads

LEMMA ConfirmCandidateStep ==
  ASSUME IInv, NEW c \in Clients, ConfirmCandidate(c)
  PROVE  IInv' /\ Grows
<1> DEFINE row == rows[clients[c].subject]
<1>1. IsFresh(c)
  BY DEF ConfirmCandidate
<1>2. PICK t \in Torrents, replace \in BOOLEAN, at \in Recent :
        CanConfirm(row, t, replace) /\ WriteBack(c, ConfirmedRow(row, t, replace, at))
  BY DEF ConfirmCandidate
<1>3. at \in Nat
  BY DEF Recent, IInv, TypeOK
<1>4. Follows(row, ConfirmedRow(row, t, replace, at))
  BY <1>1, <1>2, <1>3, FreshRead, ConfirmedRowOK
<1> QED
  BY <1>1, <1>2, <1>4, WriteBackStep

LEMMA AddManualCandidatesStep ==
  ASSUME IInv, NEW c \in Clients, AddManualCandidates(c)
  PROVE  IInv' /\ Grows
<1> DEFINE row == rows[clients[c].subject]
<1>1. IsFresh(c)
  BY DEF AddManualCandidates
<1>2. PICK found \in SUBSET Torrents :
        CanAddManual(row) /\ WriteBack(c, ManualCandidatesRow(row, found))
  BY DEF AddManualCandidates
<1>3. Follows(row, ManualCandidatesRow(row, found))
  BY <1>1, <1>2, FreshRead, ManualCandidatesRowOK DEF CanAddManual
<1> QED
  BY <1>1, <1>2, <1>3, WriteBackStep

LEMMA UpdateDetailStep == ASSUME IInv, NEW c \in Clients, UpdateDetail(c) PROVE IInv' /\ Grows
<1> DEFINE row == rows[clients[c].subject]
           read == clients[c].detail
<1>1. IsFresh(c)
  BY DEF UpdateDetail
<1>2. PICK detail \in EditsOf(read) :
        CanUpdateDetail(row, detail) /\ WriteBack(c, DetailRow(row, detail))
  BY DEF UpdateDetail
<1>3. RowOK(row) /\ read \in Details /\ read = DetailOf(row)
  BY <1>1, FreshRead
<1>4. detail \in Details /\ detail.payload = read.payload
  BY <1>2, <1>3, ZenonT(60) DEF EditsOf, Details, Tags
<1>5. detail.payload = row.payload
  BY <1>3, <1>4 DEF DetailOf
<1>6. Follows(row, DetailRow(row, detail))
  BY <1>2, <1>3, <1>4, <1>5, DetailRowOK
<1> QED
  BY <1>1, <1>2, <1>6, WriteBackStep

LEMMA DropReadStep == ASSUME IInv, NEW c \in Clients, DropRead(c) PROVE IInv' /\ Grows
<1>1. /\ rows' = [r \in Subjects |-> rows'[r]] /\ \A r \in Subjects : Careful(r)
  BY DEF DropRead, IInv, TypeOK, Careful
<1>2. /\ clients' \in [Clients -> Reads \cup {Null}]
      /\ \A d \in Clients : clients'[d] \in {Null, clients[d]}
  BY DEF DropRead, IInv, TypeOK
<1>3. /\ now' = now /\ meta' = meta /\ pollers' = pollers /\ executors' = executors
      /\ TypeOK /\ \A p \in Pollers : pollers[p] # Null => meta # Null
  BY DEF DropRead, poll_vars, IInv, ReferencesOK
<1>4. \A d \in Executors : Remains(d)
  BY <1>3 DEF Remains
<1> QED
  BY <1>1, <1>2, <1>3, <1>4, CarefulStep DEF TypeOK

LEMMA ReadDetailStep == ASSUME IInv, NEW c \in Clients, ReadDetail(c) PROVE IInv' /\ Grows
<1>1. PICK s \in Stored :
        clients' = [clients EXCEPT ![c] =
          [subject |-> s, revision |-> rows[s].revision, detail |-> DetailOf(rows[s])]]
  BY DEF ReadDetail
<1> DEFINE read == [subject |-> s, revision |-> rows[s].revision, detail |-> DetailOf(rows[s])]
<1>2. /\ now' = now /\ rows' = rows /\ meta' = meta /\ pollers' = pollers
      /\ executors' = executors
  BY DEF ReadDetail, poll_vars
<1>3. DetailOf(rows[s]) \in Details
  BY <1>1, StoredRow DEF DetailOf, Details, Rows
<1>4. read \in Reads
  BY <1>3, <1>1, StoredRow DEF Reads, Rows
<1>5. rows[s].revision \in Nat
  BY <1>1, StoredRow DEF Rows
<1> HIDE DEF read
<1>6. /\ clients' \in [Clients -> Reads \cup {Null}]
      /\ clients'[c] = read /\ \A d \in Clients \ {c} : clients'[d] = clients[d]
  BY <1>1, <1>4 DEF IInv, TypeOK, read
<1>7. TypeOK'
  BY <1>2, <1>6 DEF IInv, TypeOK
<1>8. ClientsOK'
  <2> SUFFICES ASSUME NEW d \in Clients, clients'[d] # Null
               PROVE  /\ clients'[d].subject \in Stored
                      /\ clients'[d].revision <= rows[clients'[d].subject].revision
                      /\ rows[clients'[d].subject].revision = clients'[d].revision =>
                           DetailOf(rows[clients'[d].subject]) = clients'[d].detail
    BY <1>2 DEF ClientsOK, IsFresh, Stored
  <2>1. CASE d = c
    BY <1>5, <1>6, <2>1 DEF read
  <2>2. CASE d # c
    BY <1>6, <2>2, ClientsFromIInv DEF ClientsOK, IsFresh
  <2> QED
    BY <2>1, <2>2
<1>9. /\ RowsOK' /\ OneHolder' /\ ClaimFreezesPayload'
      /\ \A e \in InFlight' : executors'[e].subject \in Stored'
      /\ \A p \in Pollers : pollers'[p] # Null => meta' # Null
  BY <1>2 DEF IInv, RowsOK, ReferencesOK, OneHolder, ClaimFreezesPayload, Holds, InFlight, Stored
<1>10. ReferencesOK' /\ RevisionIdentifiesDetail'
  BY <1>8, <1>9 DEF ClientsOK, ReferencesOK, RevisionIdentifiesDetail, IsFresh
<1> QED
  BY <1>2, <1>7, <1>9, <1>10 DEF IInv, Grows

LEMMA BackfillTitlesStep == ASSUME IInv, BackfillTitles PROVE IInv' /\ Grows
<1>1. PICK untitled \in SUBSET Stored :
        rows' = [s \in Subjects |-> IF s \in untitled THEN TitleRow(rows[s]) ELSE rows[s]]
  BY DEF BackfillTitles
<1>2. rows' = [s \in Subjects |-> rows'[s]]
  BY <1>1
<1>3. ASSUME NEW s \in Subjects
      PROVE  Careful(s)
  BY <1>1, StoredRow, TitleRowOK DEF Careful, Stored
<1>4. /\ now' = now /\ meta' = meta /\ pollers' = pollers /\ clients' = clients
      /\ executors' = executors
      /\ TypeOK /\ \A p \in Pollers : pollers[p] # Null => meta # Null
  BY DEF BackfillTitles, poll_vars, IInv, ReferencesOK
<1>5. \A d \in Executors : Remains(d)
  BY <1>4 DEF Remains
<1> QED
  BY <1>2, <1>3, <1>4, <1>5, CarefulStep DEF TypeOK

LEMMA TickStep == ASSUME IInv, Tick PROVE IInv' /\ Grows
<1>1. /\ rows' = [r \in Subjects |-> rows'[r]] /\ \A r \in Subjects : Careful(r)
  BY DEF Tick, IInv, TypeOK, Careful
<1>2. now' \in Nat
  BY RepositoryAssumption DEF Tick
<1>3. /\ meta' = meta /\ pollers' = pollers /\ clients' = clients /\ executors' = executors
      /\ TypeOK /\ \A p \in Pollers : pollers[p] # Null => meta # Null
  BY DEF Tick, poll_vars, IInv, ReferencesOK
<1>4. \A d \in Executors : Remains(d)
  BY <1>3 DEF Remains
<1> QED
  BY <1>1, <1>2, <1>3, <1>4, CarefulStep DEF TypeOK

-----------------------------------------------------------------------------
(* Polls.                                                                  *)

LEMMA LaterType ==
  ASSUME NEW a \in Nat, NEW b \in Nat
  PROVE  Later(a, b) \in Nat
BY DEF Later

LEMMA ClosedMetaType ==
  ASSUME meta \in Metas, NEW at \in Nat
  PROVE  ClosedMeta(at) \in Metas
<1>1. Later(meta.updated_at, at) \in Nat
  BY LaterType DEF Metas
<1> QED
  BY <1>1 DEF ClosedMeta, Metas

LEMMA CompletedMetaType ==
  ASSUME meta \in Metas, NEW generation \in Nat, NEW at \in Nat
  PROVE  CompletedMeta(generation, at) \in Metas
BY ClosedMetaType DEF CompletedMeta, Metas

LEMMA UnsuccessfulMetaType ==
  ASSUME meta \in Metas, NEW at \in Nat
  PROVE  UnsuccessfulMeta(at) \in Metas
BY ClosedMetaType DEF UnsuccessfulMeta, Metas

LEMMA BegunMetaType ==
  ASSUME meta \in Metas, NEW at \in Nat
  PROVE  BegunMeta(at) \in Metas
<1> DEFINE next == meta.poll_generation + 1
           latest == Later(meta.updated_at, at)
<1>1. next \in Nat /\ latest \in Nat
  <2>1. meta.poll_generation \in Nat /\ meta.updated_at \in Nat
    BY DEF Metas
  <2>2. latest \in Nat
    BY <2>1, LaterType
  <2> QED
    BY <2>1, <2>2
<1>2. BegunMeta(at) = [meta EXCEPT !.poll_generation = next, !.open_poll_generation = next,
                                   !.last_poll_attempt_at = at, !.updated_at = latest]
  BY DEF BegunMeta, Metas
<1> HIDE DEF next, latest
<1> QED
  BY <1>1, <1>2 DEF Metas

LEMMA NewMetaType == ASSUME NEW at \in Nat PROVE NewMeta(at) \in Metas
BY DEF NewMeta, Metas

\* The poll of a poller, which has a row of metadata and ends in a natural instant.
LEMMA CurrentPoll ==
  ASSUME IInv, NEW p \in Pollers, IsCurrent(p)
  PROVE  /\ meta \in Metas /\ pollers[p] \in Polls
         /\ \A at \in Terminals(p) : at \in Nat
<1>1. pollers[p] # Null /\ pollers[p] \in Polls
  BY DEF IsCurrent, IInv, TypeOK
<1>2. meta # Null /\ meta \in Metas
  BY <1>1 DEF IInv, ReferencesOK, TypeOK
<1>3. \A at \in Terminals(p) : at \in Nat
  BY <1>1, LaterType DEF Terminals, Recent, Polls, IInv, TypeOK
<1> QED
  BY <1>1, <1>2, <1>3

LEMMA SeenOrInsertedCareful ==
  ASSUME IInv, meta \in Metas, NEW s \in Subjects, NEW observed \in Observed,
         NEW skip \in BootstrapSkips, NEW generation \in Nat, NEW at \in Nat,
         rows'[s] = SeenOrInserted(s, observed, skip, generation, at)
  PROVE  Careful(s)
<1>1. observed \in Observations /\ skip \in BOOLEAN
  BY RepositoryAssumption
<1>2. CASE rows[s] = Null
  <2>1. (skip /\ ~meta.bootstrap_completed) \in BOOLEAN
    OBVIOUS
  <2> DEFINE row == InsertedRow(observed, skip /\ ~meta.bootstrap_completed, generation, at)
  <2>2. RowOK(row)
    BY <1>1, <2>1, InsertedRowOK
  <2>3. row.claim = Null
    BY DEF InsertedRow
  <2> QED
    BY <1>2, <2>2, <2>3 DEF SeenOrInserted, Careful
<1>3. CASE rows[s] # Null
  <2>1. Follows(rows[s], SeenRow(rows[s], observed, generation, at))
    BY <1>1, <1>3, StoredRow, SeenRowOK DEF Stored
  <2> QED
    BY <1>3, <2>1 DEF SeenOrInserted, Careful
<1> QED
  BY <1>2, <1>3

LEMMA RevokeClearedRemains ==
  ASSUME IInv, RevokeCleared
  PROVE  /\ executors' \in [Executors -> Attempts \cup {Null}]
         /\ \A e \in Executors : Remains(e)
<1>1. ASSUME NEW e \in Executors
      PROVE  executors'[e] \in Attempts \cup {Null} /\ Remains(e)
  <2>1. executors[e] \in Attempts \cup {Null}
    BY DEF IInv, TypeOK
  <2>2. \/ executors'[e] = executors[e]
        \/ executors[e] # Null /\ executors'[e] = [executors[e] EXCEPT !.revoked = TRUE]
    BY DEF RevokeCleared
  <2>3. CASE executors'[e] = executors[e]
    BY <2>1, <2>3 DEF Remains
  <2>4. CASE executors[e] # Null /\ executors'[e] = [executors[e] EXCEPT !.revoked = TRUE]
    <3>1. executors'[e] \in Attempts
      BY <2>1, <2>4 DEF Attempts
    <3>2. executors'[e] # Null
      BY <3>1, NullAssumption
    <3> QED
      BY <2>1, <2>4, <3>1, <3>2 DEF Remains, Attempts
  <2> QED
    BY <2>2, <2>3, <2>4
<1>2. executors' = [e \in Executors |-> executors'[e]]
  BY DEF RevokeCleared
<1> QED
  BY <1>1, <1>2

LEMMA EndPollType ==
  ASSUME IInv, NEW p \in Pollers, EndPoll(p)
  PROVE  pollers' \in [Pollers -> Polls \cup {Null}]
BY DEF EndPoll, IInv, TypeOK

LEMMA ApplyCompleteSnapshotStep ==
  ASSUME IInv, NEW p \in Pollers, ApplyCompleteSnapshot(p)
  PROVE  IInv' /\ Grows
<1> DEFINE generation == pollers[p].generation
<1>1. IsCurrent(p)
  BY DEF ApplyCompleteSnapshot
<1>2. PICK seen \in SUBSET Subjects, skip \in BootstrapSkips, at \in Terminals(p) :
        \E observed \in [seen -> Observed] :
          /\ rows' = [s \in Subjects |->
               IF s \in seen THEN SeenOrInserted(s, observed[s], skip, generation, at)
               ELSE IF s \in Missing(seen, generation) THEN DeactivatedRow(rows[s])
               ELSE rows[s]]
          /\ meta' = CompletedMeta(generation, at)
  BY DEF ApplyCompleteSnapshot
<1>3. PICK observed \in [seen -> Observed] :
        /\ rows' = [s \in Subjects |->
             IF s \in seen THEN SeenOrInserted(s, observed[s], skip, generation, at)
             ELSE IF s \in Missing(seen, generation) THEN DeactivatedRow(rows[s])
             ELSE rows[s]]
        /\ meta' = CompletedMeta(generation, at)
  BY <1>2
<1>4. meta \in Metas /\ generation \in Nat /\ at \in Nat
  BY <1>1, CurrentPoll DEF Polls
<1>5. ASSUME NEW s \in Subjects
      PROVE  Careful(s)
  <2>1. CASE s \in seen
    <3>1. rows'[s] = SeenOrInserted(s, observed[s], skip, generation, at)
      BY <1>3, <2>1
    <3>2. observed[s] \in Observed
      BY <2>1
    <3> QED
      BY <1>4, <3>1, <3>2, SeenOrInsertedCareful
  <2>2. CASE s \notin seen /\ s \in Missing(seen, generation)
    <3>1. rows'[s] = DeactivatedRow(rows[s]) /\ s \in Stored
      BY <1>3, <2>2 DEF Missing
    <3> QED
      BY <3>1, StoredRow, DeactivatedRowOK DEF Careful, Stored
  <2>3. CASE s \notin seen /\ s \notin Missing(seen, generation)
    BY <1>3, <2>3 DEF Careful
  <2> QED
    BY <2>1, <2>2, <2>3
<1>6. rows' = [s \in Subjects |-> rows'[s]]
  BY <1>3
<1>7. meta' \in Metas /\ meta' # Null
  BY <1>3, <1>4, CompletedMetaType, NullAssumption
<1>8. /\ RevokeCleared /\ EndPoll(p) /\ now' = now /\ clients' = clients /\ TypeOK
  BY DEF ApplyCompleteSnapshot, IInv
<1>9. /\ executors' \in [Executors -> Attempts \cup {Null}]
      /\ \A e \in Executors : Remains(e)
      /\ pollers' \in [Pollers -> Polls \cup {Null}]
  BY <1>8, RevokeClearedRemains, EndPollType
<1> QED
  BY <1>5, <1>6, <1>7, <1>8, <1>9, CarefulStep DEF TypeOK

LEMMA RecordIncompleteSnapshotStep ==
  ASSUME IInv, NEW p \in Pollers, RecordIncompleteSnapshot(p)
  PROVE  IInv' /\ Grows
<1> DEFINE generation == pollers[p].generation
<1>1. IsCurrent(p)
  BY DEF RecordIncompleteSnapshot
<1>2. PICK seen \in SUBSET Subjects, skip \in BootstrapSkips, at \in Terminals(p) :
        \E observed \in [seen -> Observed] :
          /\ rows' = [s \in Subjects |->
               IF s \in seen THEN SeenOrInserted(s, observed[s], skip, generation, at)
               ELSE rows[s]]
          /\ meta' = UnsuccessfulMeta(at)
  BY DEF RecordIncompleteSnapshot
<1>3. PICK observed \in [seen -> Observed] :
        /\ rows' = [s \in Subjects |->
             IF s \in seen THEN SeenOrInserted(s, observed[s], skip, generation, at)
             ELSE rows[s]]
        /\ meta' = UnsuccessfulMeta(at)
  BY <1>2
<1>4. meta \in Metas /\ generation \in Nat /\ at \in Nat
  BY <1>1, CurrentPoll DEF Polls
<1>5. ASSUME NEW s \in Subjects
      PROVE  Careful(s)
  <2>1. CASE s \in seen
    <3>1. rows'[s] = SeenOrInserted(s, observed[s], skip, generation, at)
      BY <1>3, <2>1
    <3>2. observed[s] \in Observed
      BY <2>1
    <3> QED
      BY <1>4, <3>1, <3>2, SeenOrInsertedCareful
  <2>2. CASE s \notin seen
    BY <1>3, <2>2 DEF Careful
  <2> QED
    BY <2>1, <2>2
<1>6. rows' = [s \in Subjects |-> rows'[s]]
  BY <1>3
<1>7. meta' \in Metas /\ meta' # Null
  BY <1>3, <1>4, UnsuccessfulMetaType, NullAssumption
<1>8. /\ RevokeCleared /\ EndPoll(p) /\ now' = now /\ clients' = clients /\ TypeOK
  BY DEF RecordIncompleteSnapshot, IInv
<1>9. /\ executors' \in [Executors -> Attempts \cup {Null}]
      /\ \A e \in Executors : Remains(e)
      /\ pollers' \in [Pollers -> Polls \cup {Null}]
  BY <1>8, RevokeClearedRemains, EndPollType
<1> QED
  BY <1>5, <1>6, <1>7, <1>8, <1>9, CarefulStep DEF TypeOK

\* The polls that leave every row and every attempt alone.
LEMMA QuietPollStep ==
  ASSUME IInv, UNCHANGED <<now, rows, executors, clients>>,
         meta' \in Metas \cup {Null}, pollers' \in [Pollers -> Polls \cup {Null}],
         \A p \in Pollers : pollers'[p] # Null => meta' # Null
  PROVE  IInv' /\ Grows
<1>1. /\ rows' = [r \in Subjects |-> rows'[r]] /\ \A r \in Subjects : Careful(r)
      /\ \A d \in Executors : Remains(d)
  BY DEF IInv, TypeOK, Careful, Remains
<1> QED
  BY <1>1, CarefulStep DEF IInv, TypeOK

LEMMA RecordPollFailureStep ==
  ASSUME IInv, NEW p \in Pollers, RecordPollFailure(p)
  PROVE  IInv' /\ Grows
<1>1. PICK at \in Terminals(p) : meta' = UnsuccessfulMeta(at)
  BY DEF RecordPollFailure
<1>2. IsCurrent(p) /\ EndPoll(p) /\ UNCHANGED <<now, rows, executors, clients>>
  BY DEF RecordPollFailure
<1>3. meta' \in Metas /\ meta' # Null
  BY <1>1, <1>2, CurrentPoll, UnsuccessfulMetaType, NullAssumption
<1>4. pollers' \in [Pollers -> Polls \cup {Null}]
  BY <1>2, EndPollType
<1> QED
  BY <1>2, <1>3, <1>4, QuietPollStep

LEMMA DropPollStep == ASSUME IInv, NEW p \in Pollers, DropPoll(p) PROVE IInv' /\ Grows
<1>1. EndPoll(p) /\ UNCHANGED <<now, rows, meta, executors, clients>>
  BY DEF DropPoll
<1>2. pollers' \in [Pollers -> Polls \cup {Null}]
  BY <1>1, EndPollType
<1>3. \A q \in Pollers : pollers'[q] # Null => meta' # Null
  BY <1>1 DEF EndPoll, IInv, TypeOK, ReferencesOK
<1> QED
  BY <1>1, <1>2, <1>3, QuietPollStep DEF IInv, TypeOK

LEMMA BeginPollStep == ASSUME IInv, NEW p \in Pollers, BeginPoll(p) PROVE IInv' /\ Grows
<1>1. PICK at \in Recent :
        /\ \/ meta = Null /\ meta' = NewMeta(at)
           \/ meta # Null /\ meta' = BegunMeta(at)
        /\ pollers' = [pollers EXCEPT ![p] =
             [generation |-> meta'.poll_generation, attempted_at |-> at]]
  BY DEF BeginPoll
<1>2. UNCHANGED <<now, rows, executors, clients>>
  BY DEF BeginPoll
<1>3. at \in Nat /\ TypeOK
  BY DEF Recent, IInv, TypeOK
<1>4. meta' \in Metas /\ meta' # Null
  BY <1>1, <1>3, NewMetaType, BegunMetaType, NullAssumption DEF TypeOK
<1>5. meta'.poll_generation \in Nat
  BY <1>4 DEF Metas
<1>6. [generation |-> meta'.poll_generation, attempted_at |-> at] \in Polls
  BY <1>3, <1>5 DEF Polls
<1>7. pollers' \in [Pollers -> Polls \cup {Null}]
  BY <1>1, <1>3, <1>6 DEF TypeOK
<1> QED
  BY <1>2, <1>4, <1>7, QuietPollStep

-----------------------------------------------------------------------------
(* The commands that claim a row, or hold on to it.                        *)

LEMMA ExtendLeaseStep == ASSUME IInv, NEW e \in Executors, ExtendLease(e) PROVE IInv' /\ Grows
<1> DEFINE s == executors[e].subject
           lease == now + LeaseTtl
           row == ExtendedRow(rows[s], lease)
<1>1. /\ IsLive(e) /\ Write(s, row)
      /\ executors' = [executors EXCEPT ![e].lease_until = lease]
      /\ now' = now /\ meta' = meta /\ pollers' = pollers /\ clients' = clients
  BY DEF ExtendLease, poll_vars
<1>2. /\ s \in Stored /\ RowOK(rows[s]) /\ rows[s].claim # Null
      /\ executors[e] \in Attempts /\ Holds(e, s)
      /\ rows[s].payload = executors[e].payload
      /\ rows[s].claim.operation = executors[e].operation
  BY <1>1, LiveAttemptHolds
<1>3. lease \in Nat
  BY RepositoryAssumption DEF IInv, TypeOK
<1>4. /\ Grants(rows[s], row, rows[s].claim.attempt_id, lease)
      /\ row.claim.operation = rows[s].claim.operation
      /\ row.payload = rows[s].payload /\ row.media_kind = rows[s].media_kind
  BY <1>2, <1>3, ExtendedRowOK
<1>5. /\ rows[s].claim.attempt_id = executors[e].attempt_id
      /\ rows[s].media_kind = executors[e].media_kind
  BY <1>2 DEF Holds, IInv, ClaimFreezesPayload
<1>6. s \in Subjects /\ TypeOK /\ executors[e] # Null
  BY <1>2, StoredRow DEF IInv, Holds
<1> HIDE DEF row, lease
<1>7. /\ rows' \in [Subjects -> Rows \cup {Null}] /\ RowsOK' /\ Grows
      /\ rows'[s] = row /\ \A r \in Subjects \ {s} : rows'[r] = rows[r]
  <2>1. rows' = [rows EXCEPT ![s] = row]
    BY <1>1 DEF Write
  <2>2. row # Null /\ row \in Rows /\ RowOK(row)
    BY <1>4, RowIsNotNull DEF Grants
  <2>3. rows'[s] = row /\ \A r \in Subjects \ {s} : rows'[r] = rows[r]
    BY <1>6, <2>1 DEF TypeOK
  <2>4. rows' \in [Subjects -> Rows \cup {Null}]
    BY <1>6, <2>1, <2>2 DEF TypeOK
  <2>5. row.revision > rows[s].revision
    BY <1>2, <1>4, StoredRow DEF Grants, Rows
  <2>6. RowsOK'
    BY <2>2, <2>3 DEF IInv, RowsOK, Stored
  <2>7. Grows
    BY <2>2, <2>3, <2>5 DEF Grows
  <2> QED
    BY <2>3, <2>4, <2>6, <2>7
<1>8. /\ executors'[e] \in Attempts /\ executors'[e] # Null
      /\ executors'[e].subject = s /\ executors'[e].lease_until = lease
      /\ executors'[e].operation = executors[e].operation
      /\ executors'[e].attempt_id = executors[e].attempt_id
      /\ executors'[e].media_kind = executors[e].media_kind
      /\ executors'[e].payload = executors[e].payload
      /\ \A d \in Executors \ {e} : executors'[d] = executors[d]
      /\ executors' \in [Executors -> Attempts \cup {Null}]
  <2>1. executors' = [executors EXCEPT ![e] = [executors[e] EXCEPT !.lease_until = lease]]
    BY <1>1
  <2>2. [executors[e] EXCEPT !.lease_until = lease] \in Attempts
    BY <1>2, <1>3 DEF Attempts
  <2>3. executors'[e] = [executors[e] EXCEPT !.lease_until = lease]
    BY <1>6, <2>1 DEF TypeOK
  <2>4. /\ \A d \in Executors \ {e} : executors'[d] = executors[d]
        /\ executors' \in [Executors -> Attempts \cup {Null}]
    BY <1>6, <2>1, <2>2 DEF TypeOK
  <2> QED
    BY <1>2, <2>2, <2>3, <2>4, NullAssumption DEF Attempts
<1>9. TypeOK'
  BY <1>1, <1>6, <1>7, <1>8 DEF TypeOK
<1>10. OneHolder' /\ \A d \in InFlight' : executors'[d].subject \in Stored'
  <2>1. OneHolder'
    BY <1>6, <1>8 DEF IInv, OneHolder, InFlight
  <2>2. \A d \in InFlight' : executors'[d].subject \in Stored'
    BY <1>7, <1>8, <1>2 DEF IInv, ReferencesOK, InFlight, Grows, Stored
  <2> QED
    BY <2>1, <2>2
<1>11. ClaimFreezesPayload'
  <2> SUFFICES ASSUME NEW d \in Executors, NEW r \in Stored', Holds(d, r)'
               PROVE  /\ rows'[r].claim.operation = executors'[d].operation
                      /\ rows'[r].claim.lease_until = executors'[d].lease_until
                      /\ rows'[r].media_kind = executors'[d].media_kind
                      /\ rows'[r].payload = executors'[d].payload
    BY DEF ClaimFreezesPayload
  <2>1. /\ executors'[d] # Null /\ executors'[d].subject = r /\ r \in Subjects
        /\ rows'[r].claim # Null /\ rows'[r].claim.attempt_id = executors'[d].attempt_id
    BY DEF Holds, Stored
  <2>2. CASE d = e
    BY <1>2, <1>4, <1>5, <1>7, <1>8, <2>1, <2>2 DEF Grants
  <2>3. CASE d # e
    <3>1. executors'[d] = executors[d] /\ d \in InFlight /\ e \in InFlight
      BY <1>6, <1>8, <2>1, <2>3 DEF InFlight
    <3>2. executors[d].attempt_id # executors[e].attempt_id
      BY <2>3, <3>1 DEF IInv, OneHolder
    <3>3. r # s
      BY <1>4, <1>5, <1>7, <2>1, <3>1, <3>2 DEF Grants
    <3>4. rows'[r] = rows[r] /\ r \in Stored
      BY <1>7, <2>1, <3>3 DEF Stored
    <3>5. Holds(d, r)
      BY <2>1, <3>1, <3>4 DEF Holds
    <3> QED
      BY <3>1, <3>4, <3>5 DEF IInv, ClaimFreezesPayload
  <2> QED
    BY <2>2, <2>3
<1>12. ClientsOK'
  BY <1>1, <1>7, ClientsKept
<1>13. ReferencesOK' /\ RevisionIdentifiesDetail'
  BY <1>1, <1>10, <1>12
  DEF ClientsOK, ReferencesOK, RevisionIdentifiesDetail, IsFresh, IInv
<1> QED
  BY <1>7, <1>9, <1>10, <1>11, <1>13 DEF IInv

\* The row a claim would write.
GrantedRow(s, id) ==
  IF Idle(rows[s]) THEN ClaimedRow(rows[s], id, now + LeaseTtl, now)
  ELSE ReclaimedRow(rows[s], id, now + LeaseTtl)

\* What makes a row one that may be claimed: an idle one has work that may be done.
Claimable(s) ==
  Idle(rows[s]) =>
    /\ Eligible(rows[s]) /\ ~rows[s].retry_blocked
    /\ \/ rows[s].next_attempt_at # Null
       \/ OperationOf(rows[s].lifecycle_state) = "movie_meta"
    /\ Skipped(rows[s]) =>
         \/ OperationOf(rows[s].lifecycle_state) = "movie_meta"
         \/ rows[s].force_eligible_once

LEMMA GrantedRowOK ==
  ASSUME IInv, NEW s \in Stored, Claimable(s), NEW id \in AttemptIds
  PROVE  Grants(rows[s], GrantedRow(s, id), id, now + LeaseTtl)
<1>1. RowOK(rows[s]) /\ now \in Nat /\ now + LeaseTtl \in Nat
  BY StoredRow, RepositoryAssumption DEF IInv, TypeOK
<1>2. CASE Idle(rows[s])
  BY <1>1, <1>2, ClaimedRowOK DEF GrantedRow, Claimable
<1>3. CASE ~Idle(rows[s])
  BY <1>1, <1>3, ReclaimedRowOK DEF GrantedRow, Idle
<1> QED
  BY <1>2, <1>3

\* The attempt a claim would hand to its executor.
GrantedAttempt(s, id) ==
  [subject |-> s,
   operation |-> GrantedRow(s, id).claim.operation,
   attempt_id |-> id,
   lease_until |-> now + LeaseTtl,
   media_kind |-> GrantedRow(s, id).media_kind,
   payload |-> GrantedRow(s, id).payload,
   revoked |-> FALSE]

LEMMA GrantedAttemptType ==
  ASSUME IInv, NEW s \in Stored, Claimable(s), NEW id \in AttemptIds
  PROVE  GrantedAttempt(s, id) \in Attempts /\ GrantedAttempt(s, id) # Null
<1> DEFINE row == GrantedRow(s, id)
<1>1. row \in Rows /\ row.claim # Null
  BY GrantedRowOK DEF Grants, RowOK
<1> HIDE DEF row
<1>2. /\ row.claim.operation \in Operations /\ row.media_kind \in {"movie", "tv"}
      /\ row.payload \in Payloads
  BY <1>1 DEF Rows, Claims
<1>3. s \in Subjects /\ now + LeaseTtl \in Nat
  BY StoredRow, RepositoryAssumption DEF IInv, TypeOK
<1>4. GrantedAttempt(s, id) \in Attempts
  BY <1>2, <1>3 DEF GrantedAttempt, Attempts, row
<1> QED
  BY <1>4, NullAssumption

LEMMA PersistClaimStep ==
  ASSUME IInv, NEW e \in Executors, NEW s \in Stored,
         executors[e] = Null, PersistClaim(e, s), Claimable(s)
  PROVE  IInv' /\ Grows
<1> DEFINE lease == now + LeaseTtl
<1>0. /\ s \in Subjects /\ RowOK(rows[s]) /\ rows[s] \in Rows /\ rows[s] # Null
      /\ TypeOK /\ now \in Nat /\ lease \in Nat
  BY StoredRow, RowIsNotNull, RepositoryAssumption DEF IInv, TypeOK
<1>1. PICK id \in AttemptIds \ AttemptIdsInUse :
        /\ Write(s, GrantedRow(s, id))
        /\ executors' = [executors EXCEPT ![e] = GrantedAttempt(s, id)]
        /\ UNCHANGED <<now, poll_vars, clients>>
  BY DEF PersistClaim, GrantedRow, GrantedAttempt
<1> DEFINE row == GrantedRow(s, id)
           work == GrantedAttempt(s, id)
<1>2. Grants(rows[s], row, id, lease) /\ work \in Attempts /\ work # Null
  BY <1>1, GrantedRowOK, GrantedAttemptType
<1>5. /\ work.subject = s /\ work.operation = row.claim.operation
      /\ work.attempt_id = id /\ work.lease_until = lease
      /\ work.media_kind = row.media_kind /\ work.payload = row.payload
  BY DEF GrantedAttempt
<1> HIDE DEF row, lease, work
<1>3. /\ RowOK(row) /\ row # Null /\ row \in Rows
      /\ row.revision = rows[s].revision + 1 /\ row.claim # Null
      /\ row.claim.attempt_id = id /\ row.claim.lease_until = lease
  BY <1>2, RowIsNotNull DEF Grants
<1>6. executors' = [executors EXCEPT ![e] = work]
  BY <1>1 DEF work
<1>7. /\ executors'[e] = work /\ \A d \in Executors \ {e} : executors'[d] = executors[d]
      /\ executors' \in [Executors -> Attempts \cup {Null}]
  BY <1>0, <1>2, <1>6 DEF TypeOK
<1>8. /\ rows' \in [Subjects -> Rows \cup {Null}] /\ RowsOK' /\ Grows
      /\ rows'[s] = row /\ \A r \in Subjects \ {s} : rows'[r] = rows[r]
  <2>1. rows' = [rows EXCEPT ![s] = row]
    BY <1>1 DEF Write, row
  <2>2. rows'[s] = row /\ \A r \in Subjects \ {s} : rows'[r] = rows[r]
    BY <1>0, <2>1 DEF TypeOK
  <2>3. rows' \in [Subjects -> Rows \cup {Null}]
    BY <1>0, <1>3, <2>1 DEF TypeOK
  <2>4. row.revision > rows[s].revision
    BY <1>0, <1>3 DEF Rows
  <2>5. RowsOK'
    BY <1>3, <2>2 DEF IInv, RowsOK, Stored
  <2>6. Grows
    BY <1>3, <2>2, <2>4 DEF Grows
  <2> QED
    BY <2>2, <2>3, <2>5, <2>6
<1>9. TypeOK'
  BY <1>0, <1>1, <1>7, <1>8 DEF TypeOK, poll_vars
<1>10. \A d \in InFlight : executors[d].attempt_id # id
  BY <1>1 DEF AttemptIdsInUse
<1>11. ASSUME NEW d \in InFlight', d # e
       PROVE  d \in InFlight /\ executors'[d] = executors[d]
  <2>1. d \in Executors \ {e} /\ executors'[d] # Null
    BY <1>11 DEF InFlight
  <2> QED
    BY <1>7, <2>1 DEF InFlight
<1>12. OneHolder' /\ \A d \in InFlight' : executors'[d].subject \in Stored'
  <2>1. OneHolder'
    BY <1>5, <1>7, <1>10, <1>11 DEF IInv, OneHolder
  <2>2. \A d \in InFlight' : executors'[d].subject \in Stored'
    BY <1>0, <1>3, <1>5, <1>7, <1>8, <1>11 DEF IInv, ReferencesOK, Grows, Stored
  <2> QED
    BY <2>1, <2>2
<1>13. ClaimFreezesPayload'
  <2> SUFFICES ASSUME NEW d \in Executors, NEW r \in Stored', Holds(d, r)'
               PROVE  /\ rows'[r].claim.operation = executors'[d].operation
                      /\ rows'[r].claim.lease_until = executors'[d].lease_until
                      /\ rows'[r].media_kind = executors'[d].media_kind
                      /\ rows'[r].payload = executors'[d].payload
    BY DEF ClaimFreezesPayload
  <2>1. /\ executors'[d] # Null /\ executors'[d].subject = r /\ r \in Subjects
        /\ rows'[r].claim # Null /\ rows'[r].claim.attempt_id = executors'[d].attempt_id
    BY DEF Holds, Stored
  <2>2. CASE d = e
    BY <1>3, <1>5, <1>7, <1>8, <2>1, <2>2
  <2>3. CASE d # e
    <3>1. executors'[d] = executors[d] /\ d \in InFlight
      BY <1>7, <2>1, <2>3 DEF InFlight
    <3>2. r # s
      BY <1>3, <1>8, <1>10, <2>1, <3>1
    <3>3. rows'[r] = rows[r] /\ r \in Stored
      BY <1>8, <2>1, <3>2 DEF Stored
    <3>4. Holds(d, r)
      BY <2>1, <3>1, <3>3 DEF Holds
    <3> QED
      BY <3>1, <3>3, <3>4 DEF IInv, ClaimFreezesPayload
  <2> QED
    BY <2>2, <2>3
<1>14. ClientsOK'
  BY <1>1, <1>8, ClientsKept
<1>15. ReferencesOK' /\ RevisionIdentifiesDetail'
  BY <1>1, <1>12, <1>14
  DEF ClientsOK, ReferencesOK, RevisionIdentifiesDetail, IsFresh, IInv, poll_vars
<1> QED
  BY <1>8, <1>9, <1>12, <1>13, <1>15 DEF IInv

-----------------------------------------------------------------------------
(* Each selector hands over a row that may be claimed.                     *)

\* The row that a selector finds for a claim.
LEMMA ClaimFinds ==
  ASSUME IInv, NEW e \in Executors,
         \/ ClaimExpired(e) \/ ClaimForced(e) \/ ClaimNormal(e)
         \/ ClaimMetadata(e) \/ ClaimOne(e)
  PROVE  \E s \in Stored :
           /\ executors[e] = Null /\ PersistClaim(e, s) /\ Claimable(s)
           /\ ~Idle(rows[s]) => ExpiredCandidate(rows[s], now)
<1> DEFINE Found(s) == Claimable(s) /\ (~Idle(rows[s]) => ExpiredCandidate(rows[s], now))
<1>1. ASSUME NEW s \in Stored, ClassifiedForced(rows[s])
      PROVE  Found(s)
  <2>1. RowOK(rows[s])
    BY <1>1, StoredRow
  <2>2. rows[s].retry_count = 0 /\ rows[s].next_attempt_at # Null
    BY <1>1, <2>1 DEF ClassifiedForced, RowOK, WithinBudget, RowWellFormed
  <2>3. ~rows[s].retry_blocked
    BY <2>1, <2>2, ZeroIsNotExhausted DEF RowOK, RowWellFormed
  <2> QED
    BY <1>1, <2>2, <2>3 DEF ClassifiedForced, Claimable
<1>2. ASSUME NEW s \in Stored, ClassifiedNormal(rows[s], now)
      PROVE  Found(s)
  BY <1>2 DEF ClassifiedNormal, IsDue, Claimable
<1>3. ASSUME NEW s \in Stored, ClassifiedExpired(rows[s], now)
      PROVE  Found(s)
  BY <1>3 DEF ClassifiedExpired, ExpiredCandidate, Idle, Claimable
<1>4. ASSUME NEW s \in Stored, MetadataCandidate(rows[s], now)
      PROVE  Found(s)
  BY <1>4 DEF MetadataCandidate, ExpiredCandidate, Eligible, Idle, OperationOf, Claimable
<1> HIDE DEF Found
<1>5. \E s \in Stored : executors[e] = Null /\ PersistClaim(e, s) /\ Found(s)
  <2>1. CASE ClaimExpired(e)
    BY <1>3, <2>1 DEF ClaimExpired, FirstExpired, ExpiredRows
  <2>2. CASE ClaimForced(e)
    BY <1>1, <2>2 DEF ClaimForced, First, ForcedRows
  <2>3. CASE ClaimNormal(e)
    BY <1>2, <2>3 DEF ClaimNormal, First, DueRows
  <2>4. CASE ClaimMetadata(e)
    BY <1>4, <2>4 DEF ClaimMetadata, First, MetadataRows
  <2>5. CASE ClaimOne(e)
    BY <1>1, <1>2, <1>3, <2>5 DEF ClaimOne
  <2> QED
    BY <2>1, <2>2, <2>3, <2>4, <2>5
<1> QED
  BY <1>5 DEF Found

LEMMA ClaimStep ==
  ASSUME IInv, NEW e \in Executors,
         \/ ClaimExpired(e) \/ ClaimForced(e) \/ ClaimNormal(e)
         \/ ClaimMetadata(e) \/ ClaimOne(e)
  PROVE  IInv' /\ Grows
BY ClaimFinds, PersistClaimStep

-----------------------------------------------------------------------------

LEMMA InitIInv == Init => IInv
BY DEF Init, IInv, TypeOK, RowsOK, ReferencesOK, OneHolder, ClaimFreezesPayload,
       RevisionIdentifiesDetail, IsFresh, Holds, Stored, InFlight

\* A step keeps the invariant, and every row known stays known.
LEMMA NextIInv == IInv /\ [Next]_vars => IInv' /\ Grows
<1> SUFFICES ASSUME IInv, [Next]_vars
             PROVE  IInv' /\ Grows
  OBVIOUS
<1>1. ASSUME NEW e \in Executors,
             \/ ClaimExpired(e) \/ ClaimForced(e) \/ ClaimNormal(e)
             \/ ClaimMetadata(e) \/ ClaimOne(e)
      PROVE  IInv' /\ Grows
  BY <1>1, ClaimStep
<1>2. ASSUME NEW e \in Executors,
             \/ ExtendLease(e) \/ Finish(e) \/ Fail(e) \/ Release(e) \/ DropAttempt(e)
      PROVE  IInv' /\ Grows
  BY <1>2, ExtendLeaseStep, FinishStep, FailStep, ReleaseStep, DropAttemptStep
<1>3. ASSUME NEW s \in Subjects, ForceRetry(s)
      PROVE  IInv' /\ Grows
  BY <1>3, ForceRetryStep
<1>4. ASSUME NEW c \in Clients,
             \/ ReadDetail(c) \/ DropRead(c)
             \/ ConfirmCandidate(c) \/ AddManualCandidates(c) \/ UpdateDetail(c)
      PROVE  IInv' /\ Grows
  BY <1>4, ReadDetailStep, DropReadStep, ConfirmCandidateStep, AddManualCandidatesStep,
     UpdateDetailStep
<1>5. CASE BackfillTitles
  BY <1>5, BackfillTitlesStep
<1>6. ASSUME NEW p \in Pollers,
             \/ BeginPoll(p) \/ ApplyCompleteSnapshot(p) \/ RecordIncompleteSnapshot(p)
             \/ RecordPollFailure(p) \/ DropPoll(p)
      PROVE  IInv' /\ Grows
  BY <1>6, BeginPollStep, ApplyCompleteSnapshotStep, RecordIncompleteSnapshotStep,
     RecordPollFailureStep, DropPollStep
<1>7. CASE Tick
  BY <1>7, TickStep
<1>8. CASE UNCHANGED vars
  <2>1. IInv'
    BY <1>8 DEF vars, IInv, TypeOK, RowsOK, ReferencesOK, OneHolder,
       ClaimFreezesPayload, RevisionIdentifiesDetail, IsFresh, Holds, Stored, InFlight
  <2>2. Grows
    BY <1>8 DEF vars, Grows
  <2> QED
    BY <2>1, <2>2
<1> QED
  BY <1>1, <1>2, <1>3, <1>4, <1>5, <1>6, <1>7, <1>8 DEF Next

\* The invariant holds, whatever executors, pollers, clients and the clock do.
THEOREM Invariance == Spec => []IInv
BY InitIInv, NextIInv, PTL DEF Spec

\* The type invariant, for any number of subjects, executors, pollers and clients.
THEOREM TypeCorrect == Spec => []TypeOK
<1>1. IInv => TypeOK
  BY DEF IInv
<1> QED
  BY <1>1, Invariance, PTL

\* No command ever runs into a CHECK constraint, or leaves a row that cannot be loaded.
THEOREM RowsStayWellFormed == Spec => []RowsWellFormed
<1>1. IInv => RowsWellFormed
  BY DEF IInv, RowsOK, RowOK, RowsWellFormed
<1> QED
  BY <1>1, Invariance, PTL

\* A row that a selector of claim_due returns is one that classify accepts.
THEOREM SelectorsAlwaysAgree == Spec => []SelectorsAgree
<1>1. ASSUME IInv, NEW s \in Stored
      PROVE  RowWellFormed(rows[s]) /\ Loadable(rows[s])
  BY <1>1 DEF IInv, RowsOK, RowOK
<1>2. IInv => SelectorsAgree
  <2> SUFFICES ASSUME IInv
               PROVE  SelectorsAgree
    OBVIOUS
  <2>1. \A s \in ExpiredRows : Loadable(rows[s]) /\ ClassifiedExpired(rows[s], now)
    BY <1>1 DEF ExpiredRows, RowWellFormed, ClassifiedExpired, ExpiredCandidate
  <2>2. \A s \in ForcedRows : Loadable(rows[s]) /\ ClassifiedForced(rows[s])
    BY <1>1 DEF ForcedRows, ForceCandidate, ClassifiedForced
  <2>3. \A s \in DueRows : Loadable(rows[s]) /\ ClassifiedNormal(rows[s], now)
    BY <1>1 DEF DueRows, DueCandidate, ClassifiedNormal
  <2>4. \A s \in MetadataRows :
          Loadable(rows[s]) /\ OperationOf(rows[s].lifecycle_state) = "movie_meta"
    BY <1>1 DEF MetadataRows, MetadataCandidate, OperationOf
  <2> QED
    BY <2>1, <2>2, <2>3, <2>4 DEF SelectorsAgree
<1> QED
  BY <1>2, Invariance, PTL

\* A row out of retries never runs, and a forced one has them all back.
THEOREM RetriesStayInBudget == Spec => []RetryBudget
<1>1. IInv => RetryBudget
  BY DEF IInv, RowsOK, RowOK, WithinBudget, RetryBudget
<1> QED
  BY <1>1, Invariance, PTL

\* Nothing but its metadata is ever done for a row the user has skipped.
THEOREM SkippedStaysSkipped == Spec => []SkippedRunsOnlyMetadata
<1>1. IInv => SkippedRunsOnlyMetadata
  BY DEF IInv, RowsOK, RowOK, SkipsWork, SkippedRunsOnlyMetadata
<1> QED
  BY <1>1, Invariance, PTL

\* A pending replacement never leaves the stages that lead to its cleanup.
THEOREM ReplacementStaysOnTrack == Spec => []ReplacementOnTrack
<1>1. IInv => ReplacementOnTrack
  BY DEF IInv, RowsOK, RowOK, OnTrack, ReplacementOnTrack
<1> QED
  BY <1>1, Invariance, PTL

\* Nobody changes what a running attempt acts upon.
THEOREM ClaimsFreezePayloads == Spec => []ClaimFreezesPayload
<1>1. IInv => ClaimFreezesPayload
  BY DEF IInv
<1> QED
  BY <1>1, Invariance, PTL

\* No update is lost: a client that finds the revision it read finds what it read.
THEOREM RevisionsIdentifyDetails == Spec => []RevisionIdentifiesDetail
<1>1. IInv => RevisionIdentifiesDetail
  BY DEF IInv
<1> QED
  BY <1>1, Invariance, PTL
=============================================================================
