----------------------- MODULE SubscriptionRepository -----------------------
(***************************************************************************)
(* The subscription repository of one account and everybody who calls it:  *)
(* executors, which claim a row, act on the outside world for as long as   *)
(* it takes and come back to settle the attempt; pollers, which open a     *)
(* poll, fetch the wanted list and come back with it; clients, which read  *)
(* a row and come back to change it; and a user who forces retries.        *)
(*                                                                         *)
(* Every command is one BEGIN IMMEDIATE transaction, hence one action; all *)
(* that matters happens between the transactions.  A command the code      *)
(* refuses changes nothing and is no action: its caller gives up (the      *)
(* Drop... actions), as it also does when the process dies.                *)
(*                                                                         *)
(* Executors read the clock inside the transaction.  Pollers and HTTP      *)
(* handlers read it before, so their reading may be MaxLag old.  The clock *)
(* is the wall clock: ClockSteps says how it may move.                     *)
(***************************************************************************)
EXTENDS Integers, ExecutionOutcomes, PollRetryPolicy

CONSTANTS
  Subjects,        \* subject ids of the account's wanted list
  Executors,       \* slots for attempts in flight
  Pollers,         \* polls in flight: the worker's, and those of HTTP requests
  Clients,         \* readers that come back with a conditional write
  LeaseTtl,        \* lease_ttl_secs
  RetryDelays,     \* the delays an execution may ask for
  Observed,        \* what the wanted list may say of a subject
  BootstrapSkips,  \* bootstrap_existing_as_skipped, as configured over time
  SkipEdits,       \* whether clients also edit the skip reason and tag
  ClockSteps,      \* moves of the wall clock
  MaxLag,          \* age of a clock reading that reaches a transaction
  MaxTime,         \* bound: the last instant of the model
  MaxRevision,     \* bound: the largest revision (SQLite's INTEGER maximum)
  MaxGeneration    \* bound: the largest poll generation (likewise)

ASSUME RepositoryAssumption ==
  /\ LeaseTtl \in Nat \ {0}
  /\ RetryDelays \subseteq Nat
  /\ Observed \subseteq Observations
  /\ BootstrapSkips \subseteq BOOLEAN
  /\ SkipEdits \in BOOLEAN
  /\ ClockSteps \subseteq Int
  /\ MaxLag \in Nat
  /\ MaxTime \in Nat
  /\ MaxRevision \in Nat
  /\ MaxGeneration \in Nat

VARIABLES
  now,           \* the wall clock
  rows,          \* wanted_subscription_records: subject -> row, or Null
  meta,          \* subscription_meta of the account, or Null
  next_poll_at,  \* its next_poll_at column, Null without a row
  executors,     \* attempts in flight
  pollers,       \* polls in flight
  clients        \* rows read and not yet written back

vars == <<now, rows, meta, next_poll_at, executors, pollers, clients>>

poll_vars == <<meta, next_poll_at, pollers>>

Metas ==
  [poll_generation: Nat,
   open_poll_generation: Nat \cup {Null},
   bootstrap_completed: BOOLEAN,
   poll_failure_count: Nat,
   last_poll_attempt_at: Nat,
   last_poll_success_at: Nat \cup {Null},
   updated_at: Nat,
   last_complete: Nat]      \* generation of last_complete_snapshot_id, 0 if NULL

\* `revoked` remembers that a poll took the attempt away; nobody tells the executor.
Attempts ==
  [subject: Subjects,
   operation: Operations,
   attempt_id: AttemptIds,
   lease_until: Nat,
   media_kind: {"movie", "tv"},
   payload: Payloads,
   revoked: BOOLEAN]

Polls == [generation: Nat, attempted_at: Nat]

Reads == [subject: Subjects, revision: Nat, detail: Details]

ASSUME NullAssumption ==
  Null \notin Rows /\ Null \notin Metas /\ Null \notin Attempts
    /\ Null \notin Polls /\ Null \notin Reads

Init ==
  /\ now = 0
  /\ rows = [s \in Subjects |-> Null]
  /\ meta = Null
  /\ next_poll_at = Null
  /\ executors = [e \in Executors |-> Null]
  /\ pollers = [p \in Pollers |-> Null]
  /\ clients = [c \in Clients |-> Null]

Stored == {s \in Subjects : rows[s] # Null}
InFlight == {e \in Executors : executors[e] # Null}

\* Readings of the clock that may arrive in a transaction now.
Recent == {t \in 0..now : now <= t + MaxLag}

\* The worker's retry_policy() caps the backoff at the poll interval.
PollInterval == MaxDelay

Later(a, b) == IF a > b THEN a ELSE b

Write(s, row) ==
  /\ rows[s].revision < MaxRevision
  /\ rows' = [rows EXCEPT ![s] = row]

-----------------------------------------------------------------------------
(* Claims.                                                                 *)

ExpiredRows == {s \in Stored : ExpiredCandidate(rows[s], now)}
ForcedRows == {s \in Stored : ForceCandidate(rows[s])}
DueRows == {s \in Stored : DueCandidate(rows[s], now)}
MetadataRows == {s \in Stored : MetadataCandidate(rows[s], now)}

\* ORDER BY: lease_until, next_attempt_at, COALESCE(next_attempt_at, 0).  Ties are
\* broken by columns that are not modelled, so by chance.
DueOf(s) == IF rows[s].next_attempt_at = Null THEN 0 ELSE rows[s].next_attempt_at
FirstExpired ==
  {s \in ExpiredRows : \A r \in ExpiredRows :
                         rows[s].claim.lease_until <= rows[r].claim.lease_until}
First(candidates) == {s \in candidates : \A r \in candidates : DueOf(s) <= DueOf(r)}

AttemptIdsInUse ==
  {rows[s].claim.attempt_id : s \in {r \in Stored : rows[r].claim # Null}}
    \cup {executors[e].attempt_id : e \in InFlight}

\* persist_claim
PersistClaim(e, s) ==
  \E id \in AttemptIds \ AttemptIdsInUse :
    LET lease == now + LeaseTtl
        row == IF Idle(rows[s]) THEN ClaimedRow(rows[s], id, lease, now)
               ELSE ReclaimedRow(rows[s], id, lease)
    IN  /\ Write(s, row)
        /\ executors' = [executors EXCEPT ![e] =
             [subject |-> s,
              operation |-> row.claim.operation,
              attempt_id |-> id,
              lease_until |-> lease,
              media_kind |-> row.media_kind,
              payload |-> row.payload,
              revoked |-> FALSE]]
        /\ UNCHANGED <<now, poll_vars, clients>>

\* claim_due tries three selectors in turn; one it cannot follow fails the call.
ClaimExpired(e) ==
  /\ executors[e] = Null
  /\ \E s \in FirstExpired :
       /\ Loadable(rows[s]) /\ ClassifiedExpired(rows[s], now)
       /\ PersistClaim(e, s)

ClaimForced(e) ==
  /\ executors[e] = Null
  /\ ExpiredRows = {}
  /\ \E s \in First(ForcedRows) :
       Loadable(rows[s]) /\ ClassifiedForced(rows[s]) /\ PersistClaim(e, s)

ClaimNormal(e) ==
  /\ executors[e] = Null
  /\ ExpiredRows = {} /\ ForcedRows = {}
  /\ \E s \in First(DueRows) :
       Loadable(rows[s]) /\ ClassifiedNormal(rows[s], now) /\ PersistClaim(e, s)

\* claim_due with metadata_only
ClaimMetadata(e) ==
  /\ executors[e] = Null
  /\ \E s \in First(MetadataRows) : Loadable(rows[s]) /\ PersistClaim(e, s)

\* claim_one
ClaimOne(e) ==
  /\ executors[e] = Null
  /\ \E s \in Stored :
       /\ Loadable(rows[s])
       /\ \/ ClassifiedExpired(rows[s], now)
          \/ ClassifiedForced(rows[s])
          \/ ClassifiedNormal(rows[s], now)
       /\ PersistClaim(e, s)

-----------------------------------------------------------------------------
(* Attempts.                                                               *)

\* require_live_attempt
IsLive(e) ==
  /\ executors[e] # Null
  /\ LiveAttempt(rows[executors[e].subject], executors[e], now)

ExtendLease(e) ==
  LET s == executors[e].subject
      lease == now + LeaseTtl
  IN  /\ IsLive(e)
      /\ lease > rows[s].claim.lease_until
      /\ Write(s, ExtendedRow(rows[s], lease))
      /\ executors' = [executors EXCEPT ![e].lease_until = lease]
      /\ UNCHANGED <<now, poll_vars, clients>>

\* The attempt is over, and its executor with it.
Settle(e, row) ==
  /\ Write(executors[e].subject, row)
  /\ executors' = [executors EXCEPT ![e] = Null]
  /\ UNCHANGED <<now, poll_vars, clients>>

Finish(e) ==
  /\ IsLive(e)
  /\ \E o \in FinishOutcomes(executors[e]), delay \in RetryDelays :
       LET row == rows[executors[e].subject] IN
       /\ DeltaApplies(row.payload, o.delta)
       /\ Settle(e, FinishedRow(row, o.disposition, o.delta, delay, now))

Fail(e) ==
  /\ IsLive(e)
  /\ \E delta \in FailOutcomes(executors[e]), delay \in RetryDelays :
       LET row == rows[executors[e].subject] IN
       /\ DeltaApplies(row.payload, delta)
       /\ Settle(e, FailedRow(row, delta, delay, now))

Release(e) ==
  /\ IsLive(e)
  /\ Settle(e, ReleasedRow(rows[executors[e].subject]))

\* The executor ends without a word: its command was refused, or its process died.
DropAttempt(e) ==
  /\ executors[e] # Null
  /\ executors' = [executors EXCEPT ![e] = Null]
  /\ UNCHANGED <<now, rows, poll_vars, clients>>

-----------------------------------------------------------------------------
(* User commands and editors.                                              *)

ForceRetry(s) ==
  /\ rows[s] # Null
  /\ CanForceRetry(rows[s])
  /\ \E at \in Recent : Write(s, ForceRetriedRow(rows[s], at))
  /\ UNCHANGED <<now, poll_vars, executors, clients>>

ReadDetail(c) ==
  /\ clients[c] = Null
  /\ \E s \in Stored :
       clients' = [clients EXCEPT ![c] =
         [subject |-> s, revision |-> rows[s].revision, detail |-> DetailOf(rows[s])]]
  /\ UNCHANGED <<now, rows, poll_vars, executors>>

DropRead(c) ==
  /\ clients[c] # Null
  /\ clients' = [clients EXCEPT ![c] = Null]
  /\ UNCHANGED <<now, rows, poll_vars, executors>>

\* The three commands that carry an expected_revision.
IsFresh(c) ==
  /\ clients[c] # Null
  /\ rows[clients[c].subject].revision = clients[c].revision

WriteBack(c, row) ==
  /\ Write(clients[c].subject, row)
  /\ clients' = [clients EXCEPT ![c] = Null]
  /\ UNCHANGED <<now, poll_vars, executors>>

ConfirmCandidate(c) ==
  /\ IsFresh(c)
  /\ \E t \in Torrents, replace \in BOOLEAN, at \in Recent :
       LET row == rows[clients[c].subject] IN
       CanConfirm(row, t, replace) /\ WriteBack(c, ConfirmedRow(row, t, replace, at))

AddManualCandidates(c) ==
  /\ IsFresh(c)
  /\ \E found \in SUBSET Torrents :
       LET row == rows[clients[c].subject] IN
       CanAddManual(row) /\ WriteBack(c, ManualCandidatesRow(row, found))

\* Production only edits the poster, which is not modelled.
EditsOf(detail) ==
  {detail} \cup
    (IF SkipEdits
     THEN {[detail EXCEPT !.skip_reason = TRUE, !.attention_tags = @ \cup {"skipped"}],
           [detail EXCEPT !.skip_reason = FALSE, !.attention_tags = @ \ {"skipped"}]}
     ELSE {})

UpdateDetail(c) ==
  /\ IsFresh(c)
  /\ \E detail \in EditsOf(clients[c].detail) :
       LET row == rows[clients[c].subject] IN
       CanUpdateDetail(row, detail) /\ WriteBack(c, DetailRow(row, detail))

\* backfill_metadata_titles runs as the process starts, before anybody calls.
BackfillTitles ==
  /\ \A e \in Executors : executors[e] = Null
  /\ \A p \in Pollers : pollers[p] = Null
  /\ \A c \in Clients : clients[c] = Null
  /\ \E untitled \in (SUBSET Stored) \ {{}} :
       /\ \A s \in untitled : rows[s].revision < MaxRevision
       /\ rows' = [s \in Subjects |-> IF s \in untitled THEN TitleRow(rows[s]) ELSE rows[s]]
  /\ UNCHANGED <<now, poll_vars, executors, clients>>

-----------------------------------------------------------------------------
(* Polls.                                                                  *)

NewMeta(at) ==
  [poll_generation |-> 1,
   open_poll_generation |-> 1,
   bootstrap_completed |-> FALSE,
   poll_failure_count |-> 0,
   last_poll_attempt_at |-> at,
   last_poll_success_at |-> Null,
   updated_at |-> at,
   last_complete |-> 0]

\* Mutant: a poll may begin before the last one, as a clock set back has it.
CanBeginAnytime(at) == TRUE

\* validate_command_time
CanBegin(at) ==
  /\ at >= meta.updated_at
  /\ at >= meta.last_poll_attempt_at
  /\ meta.last_poll_success_at # Null => at >= meta.last_poll_success_at

BegunMeta(at) ==
  [meta EXCEPT
     !.poll_generation = @ + 1,
     !.open_poll_generation = meta.poll_generation + 1,
     !.last_poll_attempt_at = at,
     !.updated_at = Later(@, at)]

\* Opening a poll closes the one that was open: its token is no longer current.
BeginPoll(p) ==
  /\ pollers[p] = Null
  /\ \E at \in Recent :
       /\ \/ meta = Null /\ meta' = NewMeta(at) /\ next_poll_at' = at
          \/ /\ meta # Null /\ CanBegin(at)
             /\ meta.poll_generation < MaxGeneration
             /\ meta' = BegunMeta(at)
             /\ UNCHANGED next_poll_at
       /\ pollers' = [pollers EXCEPT ![p] =
            [generation |-> meta'.poll_generation, attempted_at |-> at]]
  /\ UNCHANGED <<now, rows, executors, clients>>

\* require_current_poll
IsCurrent(p) == pollers[p] # Null /\ meta.open_poll_generation = pollers[p].generation

\* validate_terminal_time
CanClose(at) == at >= meta.updated_at /\ at >= meta.last_poll_attempt_at

\* Mutant: a poll ends when the clock says so.
TerminalsByClock(p) == Recent

\* A poll ends no earlier than it began, whatever the clock says.
Terminals(p) == {Later(t, pollers[p].attempted_at) : t \in Recent}

ClosedMeta(at) ==
  [meta EXCEPT !.updated_at = Later(@, at), !.open_poll_generation = Null]

CompletedMeta(generation, at) ==
  [ClosedMeta(at) EXCEPT
     !.bootstrap_completed = TRUE,
     !.last_poll_success_at = at,
     !.poll_failure_count = 0,
     !.last_complete = generation]

UnsuccessfulMeta(at) == [ClosedMeta(at) EXCEPT !.poll_failure_count = @ + 1]

EndPoll(p) == pollers' = [pollers EXCEPT ![p] = Null]

\* apply_seen_records for one row.
SeenOrInserted(s, observed, skip, generation, at) ==
  IF rows[s] = Null
  THEN InsertedRow(observed, skip /\ ~meta.bootstrap_completed, generation, at)
  ELSE SeenRow(rows[s], observed, generation, at)

CanSee(seen, at) ==
  \A s \in seen \cap Stored : CanMerge(rows[s], at) /\ rows[s].revision < MaxRevision

\* Executors whose attempt is no longer in the table find out when they settle.
RevokeCleared ==
  executors' = [e \in Executors |->
    IF /\ executors[e] # Null
       /\ rows[executors[e].subject].claim # Null
       /\ rows[executors[e].subject].claim.attempt_id = executors[e].attempt_id
       /\ rows'[executors[e].subject].claim = Null
    THEN [executors[e] EXCEPT !.revoked = TRUE]
    ELSE executors[e]]

Missing(seen, generation) ==
  {s \in Stored \ seen : IsMissing(rows[s], generation)}

ApplyCompleteSnapshot(p) ==
  /\ IsCurrent(p)
  /\ \E seen \in SUBSET Subjects, skip \in BootstrapSkips, at \in Terminals(p) :
     \E observed \in [seen -> Observed] :
       LET generation == pollers[p].generation
           missing == Missing(seen, generation)
       IN  /\ CanClose(at)
           /\ CanSee(seen, at)
           /\ CanSee(missing, at)
           /\ rows' = [s \in Subjects |->
                IF s \in seen THEN SeenOrInserted(s, observed[s], skip, generation, at)
                ELSE IF s \in missing THEN DeactivatedRow(rows[s])
                ELSE rows[s]]
           /\ meta' = CompletedMeta(generation, at)
           /\ next_poll_at' = at + PollInterval
  /\ RevokeCleared
  /\ EndPoll(p)
  /\ UNCHANGED <<now, clients>>

\* An incomplete snapshot merges what it saw and says nothing of the rest.
RecordIncompleteSnapshot(p) ==
  /\ IsCurrent(p)
  /\ \E seen \in SUBSET Subjects, skip \in BootstrapSkips, at \in Terminals(p) :
     \E observed \in [seen -> Observed] :
       /\ CanClose(at)
       /\ CanSee(seen, at)
       /\ rows' = [s \in Subjects |->
            IF s \in seen
            THEN SeenOrInserted(s, observed[s], skip, pollers[p].generation, at)
            ELSE rows[s]]
       /\ meta' = UnsuccessfulMeta(at)
       /\ next_poll_at' = NextPollAt(at, meta'.poll_failure_count)
  /\ RevokeCleared
  /\ EndPoll(p)
  /\ UNCHANGED <<now, clients>>

RecordPollFailure(p) ==
  /\ IsCurrent(p)
  /\ \E at \in Terminals(p) :
       /\ CanClose(at)
       /\ meta' = UnsuccessfulMeta(at)
       /\ next_poll_at' = NextPollAt(at, meta'.poll_failure_count)
  /\ EndPoll(p)
  /\ UNCHANGED <<now, rows, executors, clients>>

\* The poll's token is no longer current, or its process died.
DropPoll(p) ==
  /\ pollers[p] # Null
  /\ EndPoll(p)
  /\ UNCHANGED <<now, rows, meta, next_poll_at, executors, clients>>

-----------------------------------------------------------------------------

Tick ==
  /\ \E step \in ClockSteps : now + step \in 0..MaxTime /\ now' = now + step
  /\ UNCHANGED <<rows, poll_vars, executors, clients>>

Next ==
  \/ \E e \in Executors :
       \/ ClaimExpired(e) \/ ClaimForced(e) \/ ClaimNormal(e)
       \/ ClaimMetadata(e) \/ ClaimOne(e)
       \/ ExtendLease(e) \/ Finish(e) \/ Fail(e) \/ Release(e) \/ DropAttempt(e)
  \/ \E s \in Subjects : ForceRetry(s)
  \/ \E c \in Clients :
       \/ ReadDetail(c) \/ DropRead(c)
       \/ ConfirmCandidate(c) \/ AddManualCandidates(c) \/ UpdateDetail(c)
  \/ BackfillTitles
  \/ \E p \in Pollers :
       \/ BeginPoll(p) \/ ApplyCompleteSnapshot(p) \/ RecordIncompleteSnapshot(p)
       \/ RecordPollFailure(p) \/ DropPoll(p)
  \/ Tick

Spec == Init /\ [][Next]_vars

-----------------------------------------------------------------------------
(* What must hold.                                                         *)

\* Every variable is a value of its type; the type of next_poll_at, which the
\* recursive backoff computes, is part of PollBackoffBounded.
TypeOK ==
  /\ now \in Nat
  /\ rows \in [Subjects -> Rows \cup {Null}]
  /\ meta \in Metas \cup {Null}
  /\ executors \in [Executors -> Attempts \cup {Null}]
  /\ pollers \in [Pollers -> Polls \cup {Null}]
  /\ clients \in [Clients -> Reads \cup {Null}]

\* No command writes a row that the CHECK constraints refuse or that the next
\* command could not load: each would fail the transaction for good.
RowsWellFormed == \A s \in Stored : RowWellFormed(rows[s]) /\ Loadable(rows[s])

\* claim_due fails as a whole when the first row a selector returns is one that
\* classify sees otherwise, and then nothing of the account is ever claimed again.
SelectorsAgree ==
  /\ \A s \in ExpiredRows : Loadable(rows[s]) /\ ClassifiedExpired(rows[s], now)
  /\ \A s \in ForcedRows : Loadable(rows[s]) /\ ClassifiedForced(rows[s])
  /\ \A s \in DueRows : Loadable(rows[s]) /\ ClassifiedNormal(rows[s], now)
  /\ \A s \in MetadataRows :
       Loadable(rows[s]) /\ OperationOf(rows[s].lifecycle_state) = "movie_meta"

\* A wanted row with work left, which nobody asked to skip and which has retries
\* left, has a due time: without one no selector ever returns it.
NoLostWork ==
  \A s \in Stored :
    Eligible(rows[s]) /\ ~rows[s].retry_blocked /\ ~Skipped(rows[s])
      => rows[s].next_attempt_at # Null

\* A skipped row runs nothing but its metadata, whatever selector found it.
SkippedRunsOnlyMetadata ==
  \A s \in Stored :
    Skipped(rows[s]) /\ ~Idle(rows[s])
      => \/ rows[s].claim.operation = "movie_meta"
         \/ rows[s].force_eligible_once

\* A row out of retries is not running, and a forced row has them all.
RetryBudget ==
  \A s \in Stored :
    /\ rows[s].retry_blocked => Idle(rows[s])
    /\ rows[s].force_eligible_once => rows[s].retry_count = 0

Holds(e, s) ==
  /\ executors[e] # Null
  /\ executors[e].subject = s
  /\ rows[s].claim # Null
  /\ rows[s].claim.attempt_id = executors[e].attempt_id

\* While an attempt is the row's attempt, what it claimed is what it will settle:
\* the operation, the kind, and every part of the payload that it acts upon.
ClaimFreezesPayload ==
  \A e \in Executors, s \in Stored :
    Holds(e, s) =>
      /\ rows[s].claim.operation = executors[e].operation
      /\ rows[s].claim.lease_until = executors[e].lease_until
      /\ rows[s].media_kind = executors[e].media_kind
      /\ rows[s].payload = executors[e].payload

\* An attempt id belongs to one executor, and one executor at most holds a row.
OneHolder ==
  \A d, e \in InFlight :
    executors[d].attempt_id = executors[e].attempt_id => d = e

\* While the clock only moves forward, two executors act on one subject within
\* their leases only if a poll took the attempt of one of them away.
LeaseExclusive ==
  \A d, e \in InFlight :
    /\ executors[d].subject = executors[e].subject
    /\ executors[d].lease_until > now /\ executors[e].lease_until > now
    => d = e \/ executors[d].revoked \/ executors[e].revoked

\* An attempt never forgets the torrent the user chose before that torrent is
\* being downloaded: only the user can, or a poll that finds the movie a series.
ConfirmedChoiceKept ==
  [][\A s \in Stored :
       /\ HasConfirmed(rows[s].payload)
       /\ ~Idle(rows[s])
       /\ rows'[s].media_kind = rows[s].media_kind
       => rows'[s].payload.user_confirmed = rows[s].payload.user_confirmed]_vars

\* A replacement is only pending in a stage that leads to the search stage, where
\* it is carried out, and is prepared only while it is pending.
ReplacementOnTrack ==
  \A s \in Stored :
    /\ rows[s].payload.replacement_pending =>
         rows[s].lifecycle_state \in {"queued", "meta", "searching"}
    /\ rows[s].payload.replacement_prepared => rows[s].payload.replacement_pending

\* No attempt starts a download while the content it is to replace is not yet
\* cleaned up: until then downloads are at most found again.
NoPushBeforeCleanup ==
  [][\A s \in Stored, t \in Torrents :
       /\ rows[s].payload.replacement_pending
       /\ rows[s].payload.downloads[t] = "none"
       => rows'[s].payload.downloads[t] = "none"]_vars

\* Whoever read a row and finds its revision unchanged finds the row unchanged.
RevisionIdentifiesDetail ==
  \A c \in Clients :
    IsFresh(c) => DetailOf(rows[clients[c].subject]) = clients[c].detail

\* The CHECK constraints of subscription_meta, which no command may run into.
MetaWellFormed ==
  meta # Null =>
    /\ meta.open_poll_generation \in {Null, meta.poll_generation}
    /\ meta.last_poll_attempt_at <= meta.updated_at
    /\ meta.last_poll_success_at # Null =>
         /\ meta.last_poll_success_at <= meta.updated_at
         /\ \/ meta.open_poll_generation # Null
            \/ /\ meta.poll_failure_count = 0
               /\ meta.last_poll_success_at >= meta.last_poll_attempt_at
            \/ /\ meta.poll_failure_count > 0
               /\ meta.last_poll_success_at <= meta.last_poll_attempt_at

\* A poll whose token is current can always be closed: its time is never refused,
\* and no row was observed later than it ends.  Otherwise every poll would fail.
CurrentPollCanClose ==
  \A p \in Pollers :
    IsCurrent(p) =>
      \A at \in Terminals(p) :
        CanClose(at) /\ \A s \in Stored : CanMerge(rows[s], at)

\* A row is active if and only if the last complete snapshot, or an incomplete one
\* since, contains it.
ActiveIsSeen ==
  \A s \in Stored :
    /\ rows[s].last_seen <= meta.poll_generation
    /\ rows[s].active <=> rows[s].last_seen >= meta.last_complete

\* Between polls the account waits at least a second and at most the interval.
PollBackoffBounded ==
  meta # Null /\ meta.open_poll_generation = Null =>
    /\ next_poll_at > meta.updated_at
    /\ next_poll_at <= meta.updated_at + PollInterval

-----------------------------------------------------------------------------
(* What the documentation says and the code does not do.                   *)

\* docs/architecture/data-storage.md:63, "TV is never claimed".
TvNeverClaimed ==
  \A s \in Stored : rows[s].media_kind = "tv" => Idle(rows[s])

\* README.md:61, "a cleanup that fails keeps its records and can be run again": once
\* the old files are journalled, nothing but their deletion forgets the downloads.
CleanupRecordKept ==
  [][\A s \in Stored :
       /\ rows[s].payload.replacement_prepared
       /\ rows[s].payload.downloads # NoDownloads
       => \/ rows'[s].payload.downloads = rows[s].payload.downloads
          \/ ~rows'[s].payload.replacement_pending]_vars
=============================================================================
