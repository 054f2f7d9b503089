----------------------- MODULE SubscriptionStepProofs -----------------------
(***************************************************************************)
(* What one step may do: a classification of the steps of the repository    *)
(* by who takes them and what they make of each row, and the properties     *)
(* that follow from it together with the invariant; the polls and their     *)
(* backoff; and the lifecycle, which the repository implements.             *)
(***************************************************************************)
EXTENDS SubscriptionRepositoryProofs, LifecycleRefinement, FiniteOrders

-----------------------------------------------------------------------------
(* What becomes of one row.                                                *)

ClaimMade(row, new, at) ==
  \E id \in AttemptIds, lease \in Nat :
    \/ Idle(row) /\ Eligible(row) /\ new = ClaimedRow(row, id, lease, at)
    \/ ExpiredCandidate(row, at) /\ new = ReclaimedRow(row, id, lease)

Extended(row, new) ==
  row.claim # Null /\ \E lease \in Nat : new = ExtendedRow(row, lease)

Settled(row, new) ==
  \E work \in Attempts, delay \in Nat, at \in Nat :
    /\ row.claim # Null
    /\ work.operation = row.claim.operation
    /\ work.media_kind = row.media_kind
    /\ work.payload = row.payload
    /\ \/ \E o \in FinishOutcomes(work) :
            /\ DeltaApplies(row.payload, o.delta)
            /\ new = FinishedRow(row, o.disposition, o.delta, delay, at)
       \/ \E delta \in FailOutcomes(work) :
            /\ DeltaApplies(row.payload, delta)
            /\ new = FailedRow(row, delta, delay, at)
       \/ new = ReleasedRow(row)

Edited(row, new) ==
  \/ \E at \in Nat : CanForceRetry(row) /\ new = ForceRetriedRow(row, at)
  \/ \E t \in Torrents, replace \in BOOLEAN, at \in Nat :
       CanConfirm(row, t, replace) /\ new = ConfirmedRow(row, t, replace, at)
  \/ \E found \in SUBSET Torrents :
       CanAddManual(row) /\ new = ManualCandidatesRow(row, found)
  \/ \E detail \in EditsOf(DetailOf(row)) :
       CanUpdateDetail(row, detail) /\ new = DetailRow(row, detail)
  \/ new = TitleRow(row)

Sighted(row, new, generation, at) ==
  \/ \E observed \in Observations : new = SeenRow(row, observed, generation, at)
  \/ new = DeactivatedRow(row)

Inserted(new, generation, at) ==
  \E observed \in Observations, skip \in BOOLEAN :
    new = InsertedRow(observed, skip, generation, at)

-----------------------------------------------------------------------------
(* What becomes of the state.                                              *)

OnlyRow(s) == \A r \in Subjects \ {s} : rows'[r] = rows[r]
OnlyExecutor(e) == \A d \in Executors \ {e} : executors'[d] = executors[d]
PollsKept == meta' = meta /\ pollers' = pollers

GrantStep(e, s) ==
  /\ now' = now /\ PollsKept
  /\ executors[e] = Null
  /\ s \in Stored /\ ClaimMade(rows[s], rows'[s], now) /\ OnlyRow(s)
  /\ rows'[s].claim # Null
  /\ executors'[e] # Null /\ OnlyExecutor(e)
  /\ executors'[e].subject = s
  /\ executors'[e].attempt_id = rows'[s].claim.attempt_id
  /\ \A d \in InFlight : executors[d].attempt_id # rows'[s].claim.attempt_id

ExtensionStep(e, s) ==
  /\ now' = now /\ PollsKept
  /\ Holds(e, s) /\ s \in Stored /\ Extended(rows[s], rows'[s]) /\ OnlyRow(s)
  /\ rows'[s].claim # Null
  /\ rows'[s].claim.attempt_id = rows[s].claim.attempt_id
  /\ executors'[e] # Null /\ OnlyExecutor(e)
  /\ executors'[e].subject = s
  /\ executors'[e].attempt_id = executors[e].attempt_id

SettleStepOf(e, s) ==
  /\ now' = now /\ PollsKept
  /\ Holds(e, s) /\ s \in Stored /\ Settled(rows[s], rows'[s]) /\ OnlyRow(s)
  /\ executors'[e] = Null /\ OnlyExecutor(e)

\* An editor changes one row; only the backfill raises the revision of several.
EditStep ==
  /\ now' = now /\ PollsKept /\ executors' = executors
  /\ \E s \in Subjects : \A r \in Subjects \ {s} : rows'[r] \in {rows[r], TitleRow(rows[r])}
  /\ \A s \in Subjects :
       rows'[s] = rows[s] \/ (rows[s] # Null /\ Edited(rows[s], rows'[s]))

SnapshotStep(p) ==
  /\ now' = now
  /\ IsCurrent(p) /\ RevokeCleared
  /\ \E at \in Terminals(p) : \A s \in Subjects :
       \/ rows'[s] = rows[s]
       \/ rows[s] = Null /\ Inserted(rows'[s], pollers[p].generation, at)
       \/ rows[s] # Null /\ Sighted(rows[s], rows'[s], pollers[p].generation, at)

\* A step that leaves every row alone, and ends one attempt at most.
RowlessStep ==
  /\ rows' = rows
  /\ \/ now' = now
     \/ \E step \in ClockSteps : now' = now + step
  /\ \/ executors' = executors
     \/ \E e \in InFlight : executors'[e] = Null /\ OnlyExecutor(e)

LEMMA OnlyRowFromWrite ==
  ASSUME IInv, NEW s \in Stored, NEW row, Write(s, row)
  PROVE  rows'[s] = row /\ OnlyRow(s)
BY DEF Write, IInv, TypeOK, Stored, OnlyRow

LEMMA GrantSteps ==
  ASSUME IInv, NEW e \in Executors,
         \/ ClaimExpired(e) \/ ClaimForced(e) \/ ClaimNormal(e)
         \/ ClaimMetadata(e) \/ ClaimOne(e)
  PROVE  \E s \in Stored : GrantStep(e, s)
<1>1. PICK s \in Stored :
        /\ executors[e] = Null /\ PersistClaim(e, s) /\ Claimable(s)
        /\ ~Idle(rows[s]) => ExpiredCandidate(rows[s], now)
  BY ClaimFinds
<1>2. PICK id \in AttemptIds \ AttemptIdsInUse :
        /\ Write(s, GrantedRow(s, id))
        /\ executors' = [executors EXCEPT ![e] = GrantedAttempt(s, id)]
        /\ UNCHANGED <<now, poll_vars, clients>>
  BY <1>1 DEF PersistClaim, GrantedRow, GrantedAttempt
<1>3. now + LeaseTtl \in Nat /\ executors \in [Executors -> Attempts \cup {Null}]
  BY RepositoryAssumption DEF IInv, TypeOK
<1>4. ClaimMade(rows[s], GrantedRow(s, id), now)
  BY <1>1, <1>2, <1>3 DEF ClaimMade, GrantedRow, Claimable
<1>5. /\ GrantedRow(s, id).claim # Null /\ GrantedRow(s, id).claim.attempt_id = id
      /\ GrantedAttempt(s, id) # Null
  BY <1>1, <1>2, GrantedRowOK, GrantedAttemptType DEF Grants
<1>6. rows'[s] = GrantedRow(s, id) /\ OnlyRow(s)
  BY <1>2, OnlyRowFromWrite
<1>7. executors'[e] = GrantedAttempt(s, id) /\ OnlyExecutor(e)
  BY <1>2, <1>3 DEF OnlyExecutor
<1>8. GrantedAttempt(s, id).subject = s /\ GrantedAttempt(s, id).attempt_id = id
  BY DEF GrantedAttempt
<1>9. \A d \in InFlight : executors[d].attempt_id # id
  BY <1>2 DEF AttemptIdsInUse
<1>10. GrantStep(e, s)
  BY <1>1, <1>2, <1>4, <1>5, <1>6, <1>7, <1>8, <1>9 DEF GrantStep, PollsKept, poll_vars
<1> QED
  BY <1>10

LEMMA ExtensionSteps ==
  ASSUME IInv, NEW e \in Executors, ExtendLease(e)
  PROVE  ExtensionStep(e, executors[e].subject)
<1> DEFINE s == executors[e].subject
           lease == now + LeaseTtl
           row == ExtendedRow(rows[s], lease)
           work == [executors[e] EXCEPT !.lease_until = lease]
<1>1. /\ IsLive(e) /\ Write(s, row) /\ executors' = [executors EXCEPT ![e] = work]
      /\ now' = now /\ PollsKept
  BY DEF ExtendLease, poll_vars, PollsKept
<1>2. /\ s \in Stored /\ RowOK(rows[s]) /\ rows[s].claim # Null
      /\ executors[e] \in Attempts /\ Holds(e, s)
  BY <1>1, LiveAttemptHolds
<1>3. lease \in Nat /\ executors \in [Executors -> Attempts \cup {Null}]
  BY RepositoryAssumption DEF IInv, TypeOK
<1>4. Extended(rows[s], row)
  BY <1>2, <1>3 DEF Extended
<1>5. row.claim # Null /\ row.claim.attempt_id = rows[s].claim.attempt_id
  BY <1>2, <1>3, ExtendedRowOK DEF Grants
<1>6. /\ work \in Attempts /\ work # Null
      /\ work.subject = s /\ work.attempt_id = executors[e].attempt_id
  <2>1. work \in Attempts
    BY <1>2, <1>3 DEF Attempts
  <2>2. work.subject = s /\ work.attempt_id = executors[e].attempt_id
    BY <1>2 DEF Attempts
  <2> QED
    BY <2>1, <2>2, NullAssumption
<1> HIDE DEF row, work, lease
<1>7. rows'[s] = row /\ OnlyRow(s)
  BY <1>1, <1>2, OnlyRowFromWrite
<1>8. executors'[e] = work /\ OnlyExecutor(e)
  BY <1>1, <1>3 DEF OnlyExecutor
<1> QED
  BY <1>1, <1>2, <1>4, <1>5, <1>6, <1>7, <1>8 DEF ExtensionStep

LEMMA SettleSteps ==
  ASSUME IInv, NEW e \in Executors, Finish(e) \/ Fail(e) \/ Release(e)
  PROVE  SettleStepOf(e, executors[e].subject)
<1> DEFINE s == executors[e].subject
           work == executors[e]
<1>1. IsLive(e)
  BY DEF Finish, Fail, Release
<1>2. /\ s \in Stored /\ RowOK(rows[s]) /\ rows[s].claim # Null
      /\ work \in Attempts /\ Holds(e, s)
      /\ rows[s].payload = work.payload /\ rows[s].claim.operation = work.operation
  BY <1>1, LiveAttemptHolds
<1>3. rows[s].media_kind = work.media_kind
  BY <1>2 DEF IInv, ClaimFreezesPayload
<1>4. now \in Nat /\ RetryDelays \subseteq Nat /\ executors \in [Executors -> Attempts \cup {Null}]
  BY RepositoryAssumption DEF IInv, TypeOK
<1>5. \E row : Settle(e, row) /\ Settled(rows[s], row)
  <2>1. CASE Finish(e)
    <3>1. PICK o \in FinishOutcomes(work), delay \in RetryDelays :
            /\ DeltaApplies(rows[s].payload, o.delta)
            /\ Settle(e, FinishedRow(rows[s], o.disposition, o.delta, delay, now))
      BY <2>1 DEF Finish
    <3> DEFINE row == FinishedRow(rows[s], o.disposition, o.delta, delay, now)
    <3>2. Settled(rows[s], row)
      BY <1>2, <1>3, <1>4, <3>1 DEF Settled
    <3> QED
      BY <3>1, <3>2
  <2>2. CASE Fail(e)
    <3>1. PICK delta \in FailOutcomes(work), delay \in RetryDelays :
            /\ DeltaApplies(rows[s].payload, delta)
            /\ Settle(e, FailedRow(rows[s], delta, delay, now))
      BY <2>2 DEF Fail
    <3> DEFINE row == FailedRow(rows[s], delta, delay, now)
    <3>2. Settled(rows[s], row)
      BY <1>2, <1>3, <1>4, <3>1 DEF Settled
    <3> QED
      BY <3>1, <3>2
  <2>3. CASE Release(e)
    <3> DEFINE row == ReleasedRow(rows[s])
    <3>1. Settle(e, row)
      BY <2>3 DEF Release
    <3>2. Settled(rows[s], row)
      BY <1>2, <1>3, <1>4 DEF Settled
    <3> QED
      BY <3>1, <3>2
  <2> QED
    BY <2>1, <2>2, <2>3
<1>6. PICK row : Settle(e, row) /\ Settled(rows[s], row)
  BY <1>5
<1>7. rows'[s] = row /\ OnlyRow(s)
  BY <1>2, <1>6, OnlyRowFromWrite DEF Settle
<1>8. executors'[e] = Null /\ OnlyExecutor(e)
  BY <1>4, <1>6 DEF Settle, OnlyExecutor
<1> QED
  BY <1>2, <1>6, <1>7, <1>8 DEF SettleStepOf, Settle, PollsKept, poll_vars

LEMMA EditSteps ==
  ASSUME IInv,
         \/ \E s \in Subjects : ForceRetry(s)
         \/ \E c \in Clients :
              ConfirmCandidate(c) \/ AddManualCandidates(c) \/ UpdateDetail(c)
         \/ BackfillTitles
  PROVE  EditStep
<1>0. \A at \in Recent : at \in Nat
  BY DEF Recent, IInv, TypeOK
<1>1. ASSUME NEW s \in Stored, NEW row, Write(s, row), Edited(rows[s], row),
             now' = now, PollsKept, executors' = executors
      PROVE  EditStep
  <2>1. rows'[s] = row /\ OnlyRow(s) /\ rows[s] # Null
    BY <1>1, OnlyRowFromWrite DEF Stored
  <2>2. s \in Subjects
    BY DEF Stored
  <2> QED
    BY <1>1, <2>1, <2>2 DEF EditStep, OnlyRow
<1>2. ASSUME NEW c \in Clients, NEW row, IsFresh(c), WriteBack(c, row),
             Edited(rows[clients[c].subject], row)
      PROVE  EditStep
  BY <1>1, <1>2, FreshRead DEF WriteBack, PollsKept, poll_vars
<1>3. ASSUME NEW s \in Subjects, ForceRetry(s)
      PROVE  EditStep
  <2>1. s \in Stored /\ CanForceRetry(rows[s]) /\ UNCHANGED <<now, poll_vars, executors, clients>>
    BY <1>3 DEF ForceRetry, Stored
  <2>2. PICK at \in Recent : Write(s, ForceRetriedRow(rows[s], at))
    BY <1>3 DEF ForceRetry
  <2>3. Edited(rows[s], ForceRetriedRow(rows[s], at))
    BY <1>0, <2>1 DEF Edited
  <2> QED
    BY <1>1, <2>1, <2>2, <2>3 DEF PollsKept, poll_vars
<1>4. ASSUME NEW c \in Clients, ConfirmCandidate(c)
      PROVE  EditStep
  <2> DEFINE row == rows[clients[c].subject]
  <2>1. PICK t \in Torrents, replace \in BOOLEAN, at \in Recent :
          CanConfirm(row, t, replace) /\ WriteBack(c, ConfirmedRow(row, t, replace, at))
    BY <1>4 DEF ConfirmCandidate
  <2>2. Edited(row, ConfirmedRow(row, t, replace, at))
    BY <1>0, <2>1 DEF Edited
  <2> QED
    BY <1>2, <1>4, <2>1, <2>2 DEF ConfirmCandidate
<1>5. ASSUME NEW c \in Clients, AddManualCandidates(c)
      PROVE  EditStep
  <2> DEFINE row == rows[clients[c].subject]
  <2>1. PICK found \in SUBSET Torrents :
          CanAddManual(row) /\ WriteBack(c, ManualCandidatesRow(row, found))
    BY <1>5 DEF AddManualCandidates
  <2>2. Edited(row, ManualCandidatesRow(row, found))
    BY <2>1 DEF Edited
  <2> QED
    BY <1>2, <1>5, <2>1, <2>2 DEF AddManualCandidates
<1>6. ASSUME NEW c \in Clients, UpdateDetail(c)
      PROVE  EditStep
  <2> DEFINE row == rows[clients[c].subject]
  <2>1. IsFresh(c)
    BY <1>6 DEF UpdateDetail
  <2>2. clients[c].detail = DetailOf(row)
    BY <2>1, FreshRead
  <2>3. PICK detail \in EditsOf(DetailOf(row)) :
          CanUpdateDetail(row, detail) /\ WriteBack(c, DetailRow(row, detail))
    BY <1>6, <2>2 DEF UpdateDetail
  <2>4. Edited(row, DetailRow(row, detail))
    BY <2>3 DEF Edited
  <2> QED
    BY <1>2, <2>1, <2>3, <2>4
<1>7. CASE BackfillTitles
  <2>1. PICK untitled \in (SUBSET Stored) \ {{}} :
          rows' = [s \in Subjects |-> IF s \in untitled THEN TitleRow(rows[s]) ELSE rows[s]]
    BY <1>7 DEF BackfillTitles
  <2>2. \A s \in Subjects :
          rows'[s] = rows[s] \/ (rows[s] # Null /\ Edited(rows[s], rows'[s]))
    BY <2>1 DEF Edited, Stored
  <2>3. \A s \in Subjects : rows'[s] \in {rows[s], TitleRow(rows[s])}
    BY <2>1
  <2>4. \E s \in Subjects : TRUE
    BY <2>1 DEF Stored
  <2> QED
    BY <1>7, <2>2, <2>3, <2>4 DEF BackfillTitles, EditStep, PollsKept, poll_vars
<1> QED
  BY <1>3, <1>4, <1>5, <1>6, <1>7

LEMMA SightedOrInserted ==
  ASSUME meta \in Metas, NEW s \in Subjects, NEW observed \in Observed,
         NEW skip \in BootstrapSkips, NEW generation, NEW at,
         rows'[s] = SeenOrInserted(s, observed, skip, generation, at)
  PROVE  \/ rows[s] = Null /\ Inserted(rows'[s], generation, at)
         \/ rows[s] # Null /\ Sighted(rows[s], rows'[s], generation, at)
<1>1. observed \in Observations /\ (skip /\ ~meta.bootstrap_completed) \in BOOLEAN
  BY RepositoryAssumption
<1> QED
  BY <1>1 DEF SeenOrInserted, Inserted, Sighted

LEMMA SnapshotSteps ==
  ASSUME IInv, NEW p \in Pollers,
         ApplyCompleteSnapshot(p) \/ RecordIncompleteSnapshot(p)
  PROVE  SnapshotStep(p)
<1> DEFINE generation == pollers[p].generation
<1>1. IsCurrent(p) /\ RevokeCleared /\ now' = now /\ meta \in Metas
  BY CurrentPoll DEF ApplyCompleteSnapshot, RecordIncompleteSnapshot
<1>2. PICK at \in Terminals(p), seen \in SUBSET Subjects, skip \in BootstrapSkips :
        \E observed \in [seen -> Observed] :
          \/ rows' = [s \in Subjects |->
               IF s \in seen THEN SeenOrInserted(s, observed[s], skip, generation, at)
               ELSE IF s \in Missing(seen, generation) THEN DeactivatedRow(rows[s])
               ELSE rows[s]]
          \/ rows' = [s \in Subjects |->
               IF s \in seen THEN SeenOrInserted(s, observed[s], skip, generation, at)
               ELSE rows[s]]
  <2>1. CASE ApplyCompleteSnapshot(p)
    BY <2>1 DEF ApplyCompleteSnapshot
  <2>2. CASE RecordIncompleteSnapshot(p)
    BY <2>2 DEF RecordIncompleteSnapshot
  <2> QED
    BY <2>1, <2>2
<1>3. PICK observed \in [seen -> Observed] :
        \/ rows' = [s \in Subjects |->
             IF s \in seen THEN SeenOrInserted(s, observed[s], skip, generation, at)
             ELSE IF s \in Missing(seen, generation) THEN DeactivatedRow(rows[s])
             ELSE rows[s]]
        \/ rows' = [s \in Subjects |->
             IF s \in seen THEN SeenOrInserted(s, observed[s], skip, generation, at)
             ELSE rows[s]]
  BY <1>2
<1>4. ASSUME NEW s \in Subjects
      PROVE  \/ rows'[s] = rows[s]
             \/ rows[s] = Null /\ Inserted(rows'[s], generation, at)
             \/ rows[s] # Null /\ Sighted(rows[s], rows'[s], generation, at)
  <2>1. CASE s \in seen
    <3>1. rows'[s] = SeenOrInserted(s, observed[s], skip, generation, at) /\ observed[s] \in Observed
      BY <1>3, <2>1
    <3> QED
      BY <1>1, <3>1, SightedOrInserted
  <2>2. CASE s \notin seen /\ rows'[s] # rows[s]
    BY <1>3, <2>2 DEF Missing, Stored, Sighted
  <2> QED
    BY <2>1, <2>2
<1> QED
  BY <1>1, <1>4 DEF SnapshotStep

LEMMA RowlessSteps ==
  ASSUME IInv,
         \/ \E e \in Executors : DropAttempt(e)
         \/ \E c \in Clients : ReadDetail(c) \/ DropRead(c)
         \/ \E p \in Pollers : BeginPoll(p) \/ RecordPollFailure(p) \/ DropPoll(p)
         \/ Tick
         \/ UNCHANGED vars
  PROVE  RowlessStep
<1>0. executors \in [Executors -> Attempts \cup {Null}]
  BY DEF IInv, TypeOK
<1>1. ASSUME NEW e \in Executors, DropAttempt(e)
      PROVE  RowlessStep
  BY <1>0, <1>1 DEF DropAttempt, RowlessStep, OnlyExecutor, InFlight
<1>2. CASE \E c \in Clients : ReadDetail(c) \/ DropRead(c)
  BY <1>2 DEF ReadDetail, DropRead, RowlessStep
<1>3. CASE \E p \in Pollers : BeginPoll(p) \/ RecordPollFailure(p) \/ DropPoll(p)
  BY <1>3 DEF BeginPoll, RecordPollFailure, DropPoll, RowlessStep
<1>4. CASE Tick
  BY <1>4 DEF Tick, RowlessStep
<1>5. CASE UNCHANGED vars
  BY <1>5 DEF vars, RowlessStep
<1> QED
  BY <1>1, <1>2, <1>3, <1>4, <1>5

\* Every step is of one of these forms.
LEMMA StepForms ==
  ASSUME IInv, [Next]_vars
  PROVE  \/ \E e \in Executors, s \in Stored :
              GrantStep(e, s) \/ ExtensionStep(e, s) \/ SettleStepOf(e, s)
         \/ EditStep
         \/ \E p \in Pollers : SnapshotStep(p)
         \/ RowlessStep
<1>1. ASSUME NEW e \in Executors,
             \/ ClaimExpired(e) \/ ClaimForced(e) \/ ClaimNormal(e)
             \/ ClaimMetadata(e) \/ ClaimOne(e)
      PROVE  \E s \in Stored : GrantStep(e, s)
  BY <1>1, GrantSteps
<1>2. ASSUME NEW e \in Executors, ExtendLease(e)
      PROVE  \E s \in Stored : ExtensionStep(e, s)
  BY <1>2, ExtensionSteps DEF ExtensionStep
<1>3. ASSUME NEW e \in Executors, Finish(e) \/ Fail(e) \/ Release(e)
      PROVE  \E s \in Stored : SettleStepOf(e, s)
  BY <1>3, SettleSteps DEF SettleStepOf
<1>4. ASSUME NEW p \in Pollers, ApplyCompleteSnapshot(p) \/ RecordIncompleteSnapshot(p)
      PROVE  SnapshotStep(p)
  BY <1>4, SnapshotSteps
<1> QED
  BY <1>1, <1>2, <1>3, <1>4, EditSteps, RowlessSteps DEF Next

\* And makes one of these things of each row.
RowStep(row, new) ==
  \/ \E at \in Nat : ClaimMade(row, new, at)
  \/ Extended(row, new)
  \/ Settled(row, new)
  \/ Edited(row, new)
  \/ \E generation \in Nat, at \in Nat : Sighted(row, new, generation, at)

LEMMA RowSteps ==
  ASSUME IInv, [Next]_vars, NEW s \in Subjects, rows'[s] # rows[s]
  PROVE  \/ /\ rows[s] = Null
            /\ \E generation \in Nat, at \in Nat : Inserted(rows'[s], generation, at)
         \/ rows[s] # Null /\ RowStep(rows[s], rows'[s])
<1>1. now \in Nat
  BY DEF IInv, TypeOK
<1>2. ASSUME NEW e \in Executors, NEW r \in Stored,
             GrantStep(e, r) \/ ExtensionStep(e, r) \/ SettleStepOf(e, r)
      PROVE  rows[s] # Null /\ RowStep(rows[s], rows'[s])
  <2>1. OnlyRow(r)
    BY <1>2 DEF GrantStep, ExtensionStep, SettleStepOf
  <2>2. r = s
    BY <2>1 DEF OnlyRow
  <2> QED
    BY <1>1, <1>2, <2>2 DEF GrantStep, ExtensionStep, SettleStepOf, RowStep, Stored
<1>3. CASE EditStep
  BY <1>3 DEF EditStep, RowStep
<1>4. ASSUME NEW p \in Pollers, SnapshotStep(p)
      PROVE  \/ /\ rows[s] = Null
                /\ \E generation \in Nat, at \in Nat : Inserted(rows'[s], generation, at)
             \/ rows[s] # Null /\ RowStep(rows[s], rows'[s])
  <2>1. pollers[p].generation \in Nat /\ \A at \in Terminals(p) : at \in Nat
    BY <1>4, CurrentPoll DEF SnapshotStep, Polls
  <2> QED
    BY <1>4, <2>1 DEF SnapshotStep, RowStep
<1>5. CASE RowlessStep
  BY <1>5 DEF RowlessStep
<1> QED
  BY <1>2, <1>3, <1>4, <1>5, StepForms

-----------------------------------------------------------------------------
(* Work is never lost.                                                     *)

WorkIsDue(row) ==
  Eligible(row) /\ ~row.retry_blocked /\ ~Skipped(row) => row.next_attempt_at # Null

\* An attempt that runs has a due time already, and gives it up for another one.
LEMMA ClaimKeepsWork ==
  ASSUME NEW row, NEW new, NEW at \in Nat, RowOK(row), WorkIsDue(row),
         ClaimMade(row, new, at)
  PROVE  WorkIsDue(new)
<1>0. row \in Rows /\ Null \notin Nat
  BY RowAssumption DEF RowOK
<1>1. PICK id \in AttemptIds, lease \in Nat :
        \/ Idle(row) /\ Eligible(row) /\ new = ClaimedRow(row, id, lease, at)
        \/ ExpiredCandidate(row, at) /\ new = ReclaimedRow(row, id, lease)
  BY DEF ClaimMade
<1>2. CASE Idle(row) /\ Eligible(row) /\ new = ClaimedRow(row, id, lease, at)
  <2> DEFINE op == OperationOf(row.lifecycle_state)
  <2>1. new.next_attempt_at = IF op = "movie_meta" /\ row.next_attempt_at = Null
                              THEN at ELSE row.next_attempt_at
    BY <1>0, <1>2, RevisedKeeps DEF ClaimedRow, Rows
  <2>2. /\ new.retry_blocked = row.retry_blocked
        /\ new.attention_tags = row.attention_tags /\ new.skip_reason = row.skip_reason
    BY <1>0, <1>2, RevisedKeeps DEF ClaimedRow, Rows
  <2> HIDE DEF op
  <2> QED
    BY <1>0, <1>2, <2>1, <2>2 DEF WorkIsDue, Skipped
<1>3. CASE ExpiredCandidate(row, at) /\ new = ReclaimedRow(row, id, lease)
  <2>1. row.next_attempt_at # Null
    BY <1>3 DEF ExpiredCandidate, RowOK, Loadable
  <2>2. new.next_attempt_at = row.next_attempt_at
    BY <1>0, <1>3, RevisedKeeps DEF ReclaimedRow, Rows
  <2> QED
    BY <2>1, <2>2 DEF WorkIsDue
<1> QED
  BY <1>1, <1>2, <1>3

LEMMA SettlementKeepsWork ==
  ASSUME NEW row, NEW new, RowOK(row), Settled(row, new)
  PROVE  WorkIsDue(new)
<1>0. row \in Rows /\ Null \notin Nat /\ Revised(row) \in Rows
  BY RowAssumption, RevisedKeeps DEF RowOK
<1>1. PICK work \in Attempts, delay \in Nat, at \in Nat :
        /\ row.claim # Null
        /\ work.operation = row.claim.operation
        /\ work.media_kind = row.media_kind
        /\ work.payload = row.payload
        /\ \/ \E o \in FinishOutcomes(work) :
                /\ DeltaApplies(row.payload, o.delta)
                /\ new = FinishedRow(row, o.disposition, o.delta, delay, at)
           \/ \E delta \in FailOutcomes(work) :
                /\ DeltaApplies(row.payload, delta)
                /\ new = FailedRow(row, delta, delay, at)
           \/ new = ReleasedRow(row)
  BY DEF Settled
<1>2. ASSUME NEW o \in FinishOutcomes(work),
             new = FinishedRow(row, o.disposition, o.delta, delay, at)
      PROVE  WorkIsDue(new)
  <2>1. IsWork(work)
    BY DEF Attempts, IsWork
  <2>2. o.disposition \in Dispositions
    BY <2>1, FinishOutcomesOK DEF OutcomeOK
  <2>3. /\ new.lifecycle_state = NextLifecycle(o.disposition)
        /\ new.next_attempt_at = NextDue(o.disposition, delay, at)
    BY <1>0, <1>2 DEF FinishedRow, Rows
  <2>4. NextDue(o.disposition, delay, at) = Null => NextLifecycle(o.disposition) = "completed"
    <3>1. CASE o.disposition = "link_completed"
      BY <3>1 DEF NextLifecycle
    <3>2. CASE o.disposition # "link_completed"
      BY <1>0, <3>2 DEF NextDue
    <3> QED
      BY <3>1, <3>2
  <2> QED
    BY <2>3, <2>4 DEF WorkIsDue, Eligible
<1>3. ASSUME NEW delta, new = FailedRow(row, delta, delay, at)
      PROVE  WorkIsDue(new)
  <2> DEFINE blocked == RetriesExhausted(row.retry_count + 1)
  <2>1. /\ new.retry_blocked = blocked
        /\ new.next_attempt_at = IF blocked THEN Null ELSE at + delay
    BY <1>0, <1>3 DEF FailedRow, Rows
  <2> HIDE DEF blocked
  <2> QED
    BY <1>0, <2>1 DEF WorkIsDue
<1>4. CASE new = ReleasedRow(row)
  <2>1. row.next_attempt_at # Null
    BY <1>1 DEF RowOK, Loadable
  <2>2. new.next_attempt_at = row.next_attempt_at
    BY <1>0, <1>4, RevisedKeeps DEF ReleasedRow, Rows
  <2> QED
    BY <2>1, <2>2 DEF WorkIsDue
<1> QED
  BY <1>1, <1>2, <1>3, <1>4

\* Editors that may not touch what decides about skipping leave work as it was.
LEMMA EditKeepsWork ==
  ASSUME NEW row, NEW new, RowOK(row), WorkIsDue(row), Edited(row, new), ~SkipEdits
  PROVE  WorkIsDue(new)
<1>0. row \in Rows /\ Null \notin Nat /\ Revised(row) \in Rows
  BY RowAssumption, RevisedKeeps DEF RowOK
<1>1. ASSUME NEW at \in Nat, new = ForceRetriedRow(row, at)
      PROVE  WorkIsDue(new)
  <2>1. new.next_attempt_at = at
    BY <1>0, <1>1 DEF ForceRetriedRow, Rows
  <2> QED
    BY <1>0, <2>1 DEF WorkIsDue
<1>2. ASSUME NEW t \in Torrents, NEW replace \in BOOLEAN, NEW at \in Nat,
             new = ConfirmedRow(row, t, replace, at)
      PROVE  WorkIsDue(new)
  <2>1. new.next_attempt_at = at
    BY <1>0, <1>2 DEF ConfirmedRow, Rows
  <2> QED
    BY <1>0, <2>1 DEF WorkIsDue
<1>3. ASSUME /\ new.active = row.active /\ new.schedulable = row.schedulable
             /\ new.lifecycle_state = row.lifecycle_state
             /\ new.retry_blocked = row.retry_blocked
             /\ new.attention_tags = row.attention_tags /\ new.skip_reason = row.skip_reason
             /\ new.next_attempt_at = row.next_attempt_at
      PROVE  WorkIsDue(new)
  BY <1>3 DEF WorkIsDue, Eligible, Skipped
<1>4. ASSUME NEW found \in SUBSET Torrents, new = ManualCandidatesRow(row, found)
      PROVE  WorkIsDue(new)
  <2>1. \E payload : new = [Revised(row) EXCEPT !.payload = payload]
    BY <1>0, <1>4 DEF ManualCandidatesRow, Rows
  <2> QED
    BY <1>0, <1>3, <2>1, RevisedKeeps DEF Rows
<1>5. ASSUME NEW detail \in EditsOf(DetailOf(row)), new = DetailRow(row, detail)
      PROVE  WorkIsDue(new)
  <2>1. detail = DetailOf(row)
    BY <1>5 DEF EditsOf
  <2> QED
    BY <1>0, <1>3, <1>5, <2>1, RevisedKeeps DEF DetailRow, DetailOf, Rows
<1>6. CASE new = TitleRow(row)
  BY <1>0, <1>3, <1>6, RevisedKeeps DEF TitleRow, Rows
<1> QED
  BY <1>1, <1>2, <1>4, <1>5, <1>6 DEF Edited

LEMMA SightingKeepsWork ==
  ASSUME NEW row, NEW new, RowOK(row), WorkIsDue(row),
         NEW generation \in Nat, NEW at \in Nat, Sighted(row, new, generation, at)
  PROVE  WorkIsDue(new)
<1> DEFINE seen == RefreshedRow(row, generation, at)
<1>0. row \in Rows /\ Null \notin Nat /\ Revised(row) \in Rows /\ seen \in Rows
  BY RowAssumption, RevisedKeeps, RefreshedType DEF RowOK
<1>1. /\ seen.active /\ seen.schedulable = row.schedulable
      /\ seen.lifecycle_state = row.lifecycle_state
      /\ seen.retry_blocked = row.retry_blocked
      /\ seen.attention_tags = row.attention_tags /\ seen.skip_reason = row.skip_reason
      /\ seen.next_attempt_at = row.next_attempt_at
  BY <1>0, RevisedKeeps DEF RefreshedRow, Rows
<1> HIDE DEF seen
<1>2. CASE new = DeactivatedRow(row)
  <2>1. new.active = FALSE
    BY <1>0, <1>2 DEF DeactivatedRow, Rows
  <2> QED
    BY <2>1 DEF WorkIsDue, Eligible
<1>3. ASSUME NEW observed \in Observations, new = TvResetRow(row, observed, generation, at)
      PROVE  WorkIsDue(new)
  <2>1. new.next_attempt_at = IF observed.schedulable /\ ~Skipped(row) THEN at ELSE Null
    BY <1>0, <1>3, RevisedKeeps DEF TvResetRow, Rows, seen
  <2>2. /\ new.schedulable = observed.schedulable
        /\ new.attention_tags = seen.attention_tags /\ new.skip_reason = seen.skip_reason
    BY <1>0, <1>3 DEF TvResetRow, Rows, seen
  <2> QED
    BY <1>0, <1>1, <2>1, <2>2 DEF WorkIsDue, Eligible, Skipped
<1>4. ASSUME NEW observed \in Observations, new = ReactivatedRow(row, observed, generation, at)
      PROVE  WorkIsDue(new)
  <2>1. new.next_attempt_at =
          IF /\ observed.schedulable /\ row.lifecycle_state # "completed"
             /\ ~row.retry_blocked /\ ~Skipped(row)
          THEN at ELSE Null
    BY <1>0, <1>4 DEF ReactivatedRow, Rows, seen
  <2>2. /\ new.schedulable = observed.schedulable
        /\ new.lifecycle_state = seen.lifecycle_state
        /\ new.retry_blocked = seen.retry_blocked
        /\ new.attention_tags = seen.attention_tags /\ new.skip_reason = seen.skip_reason
    BY <1>0, <1>4 DEF ReactivatedRow, Rows, seen
  <2> QED
    BY <1>0, <1>1, <2>1, <2>2 DEF WorkIsDue, Eligible, Skipped
<1>5. CASE new = seen /\ row.active
  BY <1>1, <1>5 DEF WorkIsDue, Eligible, Skipped
<1> QED
  BY <1>2, <1>3, <1>4, <1>5 DEF Sighted, SeenRow, seen

LEMMA InsertionHasWork ==
  ASSUME NEW new, NEW generation \in Nat, NEW at \in Nat, Inserted(new, generation, at)
  PROVE  WorkIsDue(new)
BY RowAssumption DEF Inserted, InsertedRow, WorkIsDue, Eligible, Skipped

LEMMA ExtensionKeepsWork ==
  ASSUME NEW row, NEW new, RowOK(row), Extended(row, new)
  PROVE  WorkIsDue(new)
<1>1. row.next_attempt_at # Null /\ row \in Rows
  BY DEF Extended, RowOK, Loadable
<1>2. new.next_attempt_at = row.next_attempt_at
  BY <1>1, RevisedKeeps DEF Extended, ExtendedRow, Rows
<1> QED
  BY <1>1, <1>2 DEF WorkIsDue

\* A row with work left that may be done always says when.  Production edits nothing
\* that decides about skipping; a client that may can lose work.
THEOREM WorkIsNeverLost == ~SkipEdits => (Spec => []NoLostWork)
<1>1. IInv /\ NoLostWork /\ [Next]_vars /\ ~SkipEdits => NoLostWork'
  <2> SUFFICES ASSUME IInv, NoLostWork, [Next]_vars, ~SkipEdits, NEW s \in Stored'
               PROVE  WorkIsDue(rows'[s])
    BY DEF NoLostWork, WorkIsDue
  <2>0. s \in Subjects /\ rows'[s] # Null
    BY DEF Stored
  <2>1. rows[s] # Null => RowOK(rows[s]) /\ WorkIsDue(rows[s])
    BY <2>0, StoredRow DEF NoLostWork, WorkIsDue, Stored
  <2>2. CASE rows'[s] = rows[s]
    BY <2>0, <2>1, <2>2
  <2>3. CASE rows'[s] # rows[s]
    BY <2>0, <2>1, <2>3, RowSteps, ClaimKeepsWork, ExtensionKeepsWork, SettlementKeepsWork,
       EditKeepsWork, SightingKeepsWork, InsertionHasWork DEF RowStep
  <2> QED
    BY <2>2, <2>3
<1>2. Init => NoLostWork
  BY DEF Init, NoLostWork, Stored
<1>3. CASE ~SkipEdits
  <2>1. IInv /\ NoLostWork /\ [Next]_vars => NoLostWork'
    BY <1>1, <1>3
  <2> QED
    BY <1>2, <2>1, Invariance, PTL DEF Spec
<1>4. CASE SkipEdits
  BY <1>4
<1> QED
  BY <1>3, <1>4

-----------------------------------------------------------------------------
(* What no step does to the payload of a row.                              *)

\* Claims and extensions leave the payload and the kind of a row alone.
LEMMA HoldingKeepsPayload ==
  ASSUME NEW row \in Rows, NEW new, NEW at,
         ClaimMade(row, new, at) \/ Extended(row, new)
  PROVE  new.payload = row.payload
<1>1. CASE ClaimMade(row, new, at)
  BY <1>1, RevisedKeeps DEF ClaimMade, ClaimedRow, ReclaimedRow, Rows
<1>2. CASE Extended(row, new)
  BY <1>2, RevisedKeeps DEF Extended, ExtendedRow, Rows
<1> QED
  BY <1>1, <1>2

\* A settled row holds what the outcome of the attempt makes of its payload.
LEMMA SettledPayload ==
  ASSUME NEW row \in Rows, NEW new, Settled(row, new)
  PROVE  \/ new.payload = row.payload
         \/ \E work \in Attempts :
              /\ work.operation = row.claim.operation /\ work.payload = row.payload
              /\ IsWork(work) /\ row.claim # Null
              /\ \E delta \in FailOutcomes(work) \cup {o.delta : o \in FinishOutcomes(work)} :
                   delta \in Deltas /\ new.payload = ApplyToLatest(row.payload, delta)
<1>0. Revised(row) \in Rows /\ Revised(row).payload = row.payload
  BY RevisedKeeps
<1>1. PICK work \in Attempts, delay \in Nat, at \in Nat :
        /\ row.claim # Null
        /\ work.operation = row.claim.operation
        /\ work.payload = row.payload
        /\ \/ \E o \in FinishOutcomes(work) :
                new = FinishedRow(row, o.disposition, o.delta, delay, at)
           \/ \E delta \in FailOutcomes(work) : new = FailedRow(row, delta, delay, at)
           \/ new = ReleasedRow(row)
  BY DEF Settled
<1>2. IsWork(work)
  BY DEF Attempts, IsWork
<1>3. ASSUME NEW o \in FinishOutcomes(work),
             new = FinishedRow(row, o.disposition, o.delta, delay, at)
      PROVE  o.delta \in Deltas /\ new.payload = ApplyToLatest(row.payload, o.delta)
  <2>1. o.delta \in Deltas
    BY <1>2, FinishOutcomesOK DEF OutcomeOK
  <2> QED
    BY <1>0, <1>3, <2>1 DEF FinishedRow, Rows
<1>4. ASSUME NEW delta \in FailOutcomes(work), new = FailedRow(row, delta, delay, at)
      PROVE  delta \in Deltas /\ new.payload = ApplyToLatest(row.payload, delta)
  <2>1. delta \in Deltas
    BY <1>2, FailOutcomesOK
  <2> QED
    BY <1>0, <1>4, <2>1 DEF FailedRow, Rows
<1>5. CASE new = ReleasedRow(row)
  BY <1>0, <1>5 DEF ReleasedRow, Rows
<1> QED
  BY <1>1, <1>2, <1>3, <1>4, <1>5

\* Only a search that carries a match changes the user's choice.
LEMMA AppliedChoice ==
  ASSUME NEW payload \in Payloads, NEW delta \in Deltas
  PROVE  \/ ApplyToLatest(payload, delta).user_confirmed = payload.user_confirmed
         \/ /\ delta.search # Null
            /\ ApplyToLatest(payload, delta).user_confirmed = delta.search.user_confirmed
<1>1. CASE delta.step = "cleaned"
  BY <1>1 DEF ApplyToLatest, Payloads
<1>2. CASE delta.step # "cleaned" /\ delta.search # Null
  BY <1>2 DEF ApplyToLatest, Payloads
<1>3. CASE delta.step # "cleaned" /\ delta.search = Null
  BY <1>3 DEF ApplyToLatest, Payloads
<1> QED
  BY <1>1, <1>2, <1>3

\* A download nobody reports on is as it was, or cleaned up.
LEMMA AppliedDownloads ==
  ASSUME NEW payload \in Payloads, NEW delta \in Deltas, NEW t \in Torrents,
         t \notin DOMAIN delta.downloads, payload.downloads[t] = "none"
  PROVE  ApplyToLatest(payload, delta).downloads[t] = "none"
<1>1. CASE delta.step = "cleaned"
  BY <1>1 DEF ApplyToLatest, Payloads, NoDownloads
<1>2. CASE delta.step # "cleaned"
  <2> DEFINE merged == [u \in Torrents |-> IF u \in DOMAIN delta.downloads
                                           THEN delta.downloads[u] ELSE payload.downloads[u]]
  <2>1. ApplyToLatest(payload, delta).downloads = merged
    BY <1>2 DEF ApplyToLatest, Payloads
  <2> QED
    BY <2>1
<1> QED
  BY <1>1, <1>2

\* What a poll makes of the payload of a row.
LEMMA SightedPayload ==
  ASSUME NEW row, RowOK(row), NEW new, NEW generation \in Nat, NEW at \in Nat,
         Sighted(row, new, generation, at)
  PROVE  \/ new.payload = row.payload
         \/ /\ row.media_kind = "movie" /\ new.media_kind = "tv"
            /\ new.payload.downloads = NoDownloads
<1> DEFINE seen == RefreshedRow(row, generation, at)
<1>0. row \in Rows /\ Revised(row) \in Rows /\ seen \in Rows
  BY RevisedKeeps, RefreshedType DEF RowOK
<1>1. seen.payload = row.payload /\ row.payload \in Payloads
  BY <1>0, RevisedKeeps DEF RefreshedRow, Rows
<1>2. CASE new = DeactivatedRow(row)
  BY <1>0, <1>2, RevisedKeeps DEF DeactivatedRow, Rows
<1>3. ASSUME NEW observed \in Observations, KindChanged(row, observed),
             new = TvResetRow(row, observed, generation, at)
      PROVE  /\ row.media_kind = "movie" /\ new.media_kind = "tv"
             /\ new.payload.downloads = NoDownloads
  <2>1. row.media_kind = "movie"
    BY <1>0, <1>3 DEF KindChanged, MergedKind, Rows
  <2>2. new.media_kind = "tv"
    BY <1>0, <1>3 DEF TvResetRow, Rows, seen
  <2>3. new.payload = [row.payload EXCEPT !.candidates = NoCandidates,
                                          !.user_confirmed = Null,
                                          !.downloads = NoDownloads]
    BY <1>0, <1>1, <1>3 DEF TvResetRow, Rows, seen
  <2> QED
    BY <1>1, <2>1, <2>2, <2>3 DEF Payloads
<1>4. ASSUME NEW observed \in Observations, new = ReactivatedRow(row, observed, generation, at)
      PROVE  new.payload = row.payload
  BY <1>0, <1>1, <1>4 DEF ReactivatedRow, Rows, seen
<1> HIDE DEF seen
<1> QED
  BY <1>1, <1>2, <1>3, <1>4 DEF Sighted, SeenRow, seen

\* Of what it read, an editor writes back everything but what decides about skipping.
LEMMA EditsKeepRest ==
  ASSUME NEW row \in Rows, NEW detail \in EditsOf(DetailOf(row))
  PROVE  detail.payload = row.payload /\ detail.last_seen_at = row.last_seen_at
<1> DEFINE read == DetailOf(row)
<1>1. read \in Details /\ read.payload = row.payload /\ read.last_seen_at = row.last_seen_at
  BY DEF DetailOf, Details, Rows
<1> HIDE DEF read
<1>2. /\ detail \in Details /\ detail.payload = read.payload
      /\ detail.last_seen_at = read.last_seen_at
  BY <1>1, ZenonT(60) DEF EditsOf, Details, Tags, read
<1> QED
  BY <1>1, <1>2

\* While an attempt runs, an editor changes nothing of its payload.
LEMMA RunningEditKeepsPayload ==
  ASSUME NEW row \in Rows, NEW new, Edited(row, new), ~Idle(row)
  PROVE  new.payload = row.payload
<1>1. \A detail \in EditsOf(DetailOf(row)) : detail.payload = row.payload
  BY EditsKeepRest
<1>2. \/ \E detail \in EditsOf(DetailOf(row)) : new = DetailRow(row, detail)
      \/ new = TitleRow(row)
  BY DEF Edited, CanForceRetry, CanConfirm, CanAddManual
<1>3. CASE new = TitleRow(row)
  BY <1>3, RevisedKeeps DEF TitleRow, Rows
<1>4. ASSUME NEW detail \in EditsOf(DetailOf(row)), new = DetailRow(row, detail)
      PROVE  new.payload = row.payload
  <2>1. new.payload = detail.payload
    BY <1>4, RevisedKeeps DEF DetailRow, Rows
  <2> QED
    BY <1>1, <2>1
<1> QED
  BY <1>2, <1>3, <1>4

LEMMA ChoiceKeptByRowStep ==
  ASSUME NEW row, RowOK(row), NEW new, RowStep(row, new),
         HasConfirmed(row.payload), ~Idle(row), new.media_kind = row.media_kind
  PROVE  new.payload.user_confirmed = row.payload.user_confirmed
<1>0. row \in Rows /\ row.payload \in Payloads
  BY DEF RowOK, Rows
<1>1. ASSUME NEW at \in Nat, ClaimMade(row, new, at)
      PROVE  new.payload = row.payload
  BY <1>0, <1>1, HoldingKeepsPayload
<1>2. Extended(row, new) => new.payload = row.payload
  BY <1>0, HoldingKeepsPayload
<1>3. Edited(row, new) => new.payload = row.payload
  BY <1>0, RunningEditKeepsPayload
<1>4. ASSUME NEW generation \in Nat, NEW at \in Nat, Sighted(row, new, generation, at)
      PROVE  new.payload = row.payload
  <2>1. row.media_kind # "tv" \/ new.media_kind # "movie"
    OBVIOUS
  <2> QED
    BY <1>4, <2>1, SightedPayload
<1>5. CASE Settled(row, new)
  <2>1. CASE new.payload = row.payload
    BY <2>1
  <2>2. ASSUME NEW work \in Attempts, work.payload = row.payload, IsWork(work),
               NEW delta \in FailOutcomes(work) \cup {o.delta : o \in FinishOutcomes(work)},
               delta \in Deltas, new.payload = ApplyToLatest(row.payload, delta)
        PROVE  new.payload.user_confirmed = row.payload.user_confirmed
    <3>1. KeepsChoice(work, delta)
      BY <2>2, FinishKeepsChoice, FailKeepsChoice
    <3> QED
      BY <1>0, <2>2, <3>1, AppliedChoice DEF KeepsChoice
  <2> QED
    BY <1>0, <1>5, <2>1, <2>2, SettledPayload
<1> QED
  BY <1>1, <1>2, <1>3, <1>4, <1>5 DEF RowStep

\* However it ends, an attempt leaves the torrent the user chose as it was while that
\* torrent has no download under way: no search and no poll of the same kind forgets it.
THEOREM ConfirmedChoiceIsKept == Spec => ConfirmedChoiceKept
<1> DEFINE Kept ==
      \A s \in Stored :
        /\ HasConfirmed(rows[s].payload)
        /\ ~Idle(rows[s])
        /\ rows'[s].media_kind = rows[s].media_kind
        => rows'[s].payload.user_confirmed = rows[s].payload.user_confirmed
<1>1. IInv /\ [Next]_vars => Kept
  <2> SUFFICES ASSUME IInv, [Next]_vars, NEW s \in Stored,
                      HasConfirmed(rows[s].payload), ~Idle(rows[s]),
                      rows'[s].media_kind = rows[s].media_kind
               PROVE  rows'[s].payload.user_confirmed = rows[s].payload.user_confirmed
    OBVIOUS
  <2>1. s \in Subjects /\ RowOK(rows[s]) /\ rows[s] # Null
    BY StoredRow DEF Stored
  <2>2. rows'[s] = rows[s] \/ RowStep(rows[s], rows'[s])
    BY <2>1, RowSteps
  <2> QED
    BY <2>1, <2>2, ChoiceKeptByRowStep
<1>2. IInv /\ [Next]_vars => [Kept]_vars
  BY <1>1
<1> QED
  BY <1>2, Invariance, PTL DEF Spec, ConfirmedChoiceKept

LEMMA NothingStartedByRowStep ==
  ASSUME NEW row, RowOK(row), NEW new, RowStep(row, new), NEW t \in Torrents,
         row.payload.replacement_pending, row.payload.downloads[t] = "none"
  PROVE  new.payload.downloads[t] = "none"
<1>0. row \in Rows /\ row.payload \in Payloads /\ Revised(row) \in Rows
  BY RevisedKeeps DEF RowOK, Rows
<1>1. ASSUME NEW at \in Nat, ClaimMade(row, new, at)
      PROVE  new.payload = row.payload
  BY <1>0, <1>1, HoldingKeepsPayload
<1>2. Extended(row, new) => new.payload = row.payload
  BY <1>0, HoldingKeepsPayload
<1>3. CASE Edited(row, new)
  <2>1. CASE ~Idle(row)
    BY <1>0, <1>3, <2>1, RunningEditKeepsPayload
  <2>2. ASSUME NEW at \in Nat, new = ForceRetriedRow(row, at)
        PROVE  new.payload = row.payload
    BY <1>0, <2>2, RevisedKeeps DEF ForceRetriedRow, RestartsMovie, Rows
  <2>3. ASSUME NEW detail \in EditsOf(DetailOf(row)), new = DetailRow(row, detail)
        PROVE  new.payload = row.payload
    BY <1>0, <2>3, EditsKeepRest, RevisedKeeps DEF DetailRow, Rows
  <2>4. CASE new = TitleRow(row)
    BY <1>0, <2>4, RevisedKeeps DEF TitleRow, Rows
  <2>5. /\ \A u \in Torrents, replace \in BOOLEAN : ~CanConfirm(row, u, replace)
        /\ ~CanAddManual(row)
    BY DEF CanConfirm, CanAddManual
  <2> QED
    BY <1>3, <2>2, <2>3, <2>4, <2>5 DEF Edited
<1>4. ASSUME NEW generation \in Nat, NEW at \in Nat, Sighted(row, new, generation, at)
      PROVE  new.payload.downloads[t] = "none"
  BY <1>4, SightedPayload DEF NoDownloads
<1>5. CASE Settled(row, new)
  <2>1. ASSUME NEW work \in Attempts, work.operation = row.claim.operation,
               work.payload = row.payload, row.claim # Null,
               NEW delta \in FailOutcomes(work) \cup {o.delta : o \in FinishOutcomes(work)},
               delta \in Deltas, new.payload = ApplyToLatest(row.payload, delta)
        PROVE  new.payload.downloads[t] = "none"
    <3>1. work.operation \in {"movie_meta", "movie_search"}
      BY <2>1 DEF RowOK, RowWellFormed, OnTrack, OperationOf
    <3>2. StartsNothing(work, delta)
      BY <2>1, <3>1, PendingStartsNothing
    <3> QED
      BY <1>0, <2>1, <3>2, AppliedDownloads DEF StartsNothing
  <2> QED
    BY <1>0, <1>5, <2>1, SettledPayload
<1> QED
  BY <1>1, <1>2, <1>3, <1>4, <1>5 DEF RowStep

\* While a replacement is pending nothing starts a download: the content that is to be
\* replaced is cleaned up first, whoever acts on the row in between.
THEOREM CleanupComesFirst == Spec => NoPushBeforeCleanup
<1> DEFINE Kept ==
      \A s \in Stored, t \in Torrents :
        /\ rows[s].payload.replacement_pending
        /\ rows[s].payload.downloads[t] = "none"
        => rows'[s].payload.downloads[t] = "none"
<1>1. IInv /\ [Next]_vars => Kept
  <2> SUFFICES ASSUME IInv, [Next]_vars, NEW s \in Stored, NEW t \in Torrents,
                      rows[s].payload.replacement_pending,
                      rows[s].payload.downloads[t] = "none"
               PROVE  rows'[s].payload.downloads[t] = "none"
    OBVIOUS
  <2>1. s \in Subjects /\ RowOK(rows[s]) /\ rows[s] # Null
    BY StoredRow DEF Stored
  <2>2. rows'[s] = rows[s] \/ RowStep(rows[s], rows'[s])
    BY <2>1, RowSteps
  <2> QED
    BY <2>1, <2>2, NothingStartedByRowStep
<1>2. IInv /\ [Next]_vars => [Kept]_vars
  BY <1>1
<1> QED
  BY <1>2, Invariance, PTL DEF Spec, NoPushBeforeCleanup

-----------------------------------------------------------------------------
(* Leases are exclusive.                                                   *)

\* An editor leaves the attempt of a row in place, and a poll leaves it or clears it.
LEMMA EditedClaim ==
  ASSUME NEW row \in Rows, NEW new, Edited(row, new)
  PROVE  new.claim = row.claim
<1>0. Revised(row) \in Rows /\ Revised(row).claim = row.claim
  BY RevisedKeeps
<1>1. ASSUME NEW at \in Nat, new = ForceRetriedRow(row, at)
      PROVE  new.claim = row.claim
  BY <1>0, <1>1 DEF ForceRetriedRow, Rows
<1>2. ASSUME NEW t \in Torrents, NEW replace \in BOOLEAN, NEW at \in Nat,
             new = ConfirmedRow(row, t, replace, at)
      PROVE  new.claim = row.claim
  BY <1>0, <1>2 DEF ConfirmedRow, Rows
<1>3. ASSUME NEW found \in SUBSET Torrents, new = ManualCandidatesRow(row, found)
      PROVE  new.claim = row.claim
  <2>1. \E payload : new = [Revised(row) EXCEPT !.payload = payload]
    BY <1>0, <1>3 DEF ManualCandidatesRow, Rows
  <2> QED
    BY <1>0, <2>1 DEF Rows
<1>4. ASSUME NEW detail, new = DetailRow(row, detail)
      PROVE  new.claim = row.claim
  BY <1>0, <1>4 DEF DetailRow, Rows
<1>5. CASE new = TitleRow(row)
  BY <1>0, <1>5 DEF TitleRow
<1> QED
  BY <1>1, <1>2, <1>3, <1>4, <1>5 DEF Edited

LEMMA SightedClaim ==
  ASSUME NEW row \in Rows, NEW new, NEW generation \in Nat, NEW at \in Nat,
         Sighted(row, new, generation, at)
  PROVE  new.claim \in {Null, row.claim}
<1> DEFINE seen == RefreshedRow(row, generation, at)
<1>0. seen \in Rows /\ Revised(row) \in Rows
  BY RevisedKeeps, RefreshedType
<1>1. seen.claim = row.claim
  BY <1>0, RevisedKeeps DEF RefreshedRow, Rows
<1>2. CASE new = DeactivatedRow(row)
  BY <1>0, <1>2 DEF DeactivatedRow, Rows
<1>3. ASSUME NEW observed \in Observations,
             \/ new = TvResetRow(row, observed, generation, at)
             \/ new = ReactivatedRow(row, observed, generation, at)
      PROVE  new.claim = Null
  BY <1>0, <1>3 DEF TvResetRow, ReactivatedRow, Rows, seen
<1> HIDE DEF seen
<1> QED
  BY <1>1, <1>2, <1>3 DEF Sighted, SeenRow, seen

\* An attempt within its lease that no poll took away is the attempt of its row.
Guarded(e) ==
  \/ executors[e].revoked
  \/ executors[e].lease_until <= now
  \/ Holds(e, executors[e].subject)

AllGuarded == \A e \in InFlight : Guarded(e)

\* A step that leaves the executor as it is must leave it the row that it holds.
LEMMA UnchangedGuarded ==
  ASSUME IInv, NEW e \in InFlight, Guarded(e),
         executors'[e] = executors[e], now' \in Nat, now' >= now,
         Holds(e, executors[e].subject) =>
           Holds(e, executors[e].subject)' \/ executors[e].lease_until <= now
  PROVE  Guarded(e)'
<1>1. executors[e] \in Attempts
  BY DEF IInv, TypeOK, InFlight
<1>2. executors[e].lease_until \in Nat /\ now \in Nat
  BY <1>1 DEF Attempts, IInv, TypeOK
<1> QED
  BY <1>2 DEF Guarded

\* The one executor that may write a row is the only one to lose it.
LEMMA OthersStayGuarded ==
  ASSUME IInv, NEW d \in Executors, NEW e \in InFlight \ {d}, NEW s \in Stored, Guarded(e),
         OnlyRow(s), OnlyExecutor(d), now' = now,
         Holds(e, s) => executors[e].lease_until <= now
  PROVE  Guarded(e)'
<1>1. executors'[e] = executors[e] /\ executors[e].subject \in Subjects /\ now \in Nat
  BY DEF OnlyExecutor, InFlight, IInv, TypeOK, ReferencesOK, Stored
<1>2. executors[e].subject # s => rows'[executors[e].subject] = rows[executors[e].subject]
  BY <1>1 DEF OnlyRow
<1> QED
  BY <1>1, <1>2, UnchangedGuarded DEF Holds

LEMMA GuardedKept ==
  ASSUME IInv, AllGuarded, ClockSteps \subseteq Nat, [Next]_vars, NEW e \in InFlight'
  PROVE  Guarded(e)'
<1>0. e \in Executors /\ executors'[e] # Null /\ now \in Nat
  BY DEF InFlight, IInv, TypeOK
<1>1. ASSUME NEW d \in Executors, NEW s \in Stored, GrantStep(d, s)
      PROVE  Guarded(e)'
  <2>1. CASE e = d
    BY <1>1, <2>1 DEF GrantStep, Guarded, Holds
  <2>2. CASE e # d
    <3>1. e \in InFlight \ {d}
      BY <1>0, <1>1, <2>2 DEF GrantStep, OnlyExecutor, InFlight
    <3>2. Holds(e, s) => executors[e].lease_until <= now
      BY <1>0, <1>1 DEF GrantStep, ClaimMade, Holds, Idle, ExpiredCandidate, IInv,
         ClaimFreezesPayload
    <3> QED
      BY <1>1, <3>1, <3>2, OthersStayGuarded DEF GrantStep, AllGuarded
  <2> QED
    BY <2>1, <2>2
<1>2. ASSUME NEW d \in Executors, NEW s \in Stored, ExtensionStep(d, s) \/ SettleStepOf(d, s)
      PROVE  Guarded(e)'
  <2>1. CASE e = d
    <3>1. ExtensionStep(d, s)
      BY <1>0, <1>2, <2>1 DEF SettleStepOf
    <3> QED
      BY <2>1, <3>1 DEF ExtensionStep, Guarded, Holds
  <2>2. CASE e # d
    <3>1. e \in InFlight \ {d}
      BY <1>0, <1>2, <2>2 DEF ExtensionStep, SettleStepOf, OnlyExecutor, InFlight
    <3>2. ~Holds(e, s)
      BY <1>2, <2>2, <3>1 DEF ExtensionStep, SettleStepOf, Holds, IInv, OneHolder, InFlight
    <3> QED
      BY <1>2, <3>1, <3>2, OthersStayGuarded DEF ExtensionStep, SettleStepOf, AllGuarded
  <2> QED
    BY <2>1, <2>2
<1>3. CASE EditStep
  <2>1. e \in InFlight /\ executors'[e] = executors[e] /\ now' = now
    BY <1>0, <1>3 DEF EditStep, InFlight
  <2> DEFINE s == executors[e].subject
  <2>2. s \in Stored /\ s \in Subjects /\ rows[s] \in Rows
    BY <2>1, StoredRow DEF IInv, ReferencesOK
  <2>3. rows'[s].claim = rows[s].claim
    BY <1>3, <2>2, EditedClaim DEF EditStep
  <2> QED
    BY <1>0, <2>1, <2>3, UnchangedGuarded DEF Holds, AllGuarded
<1>4. ASSUME NEW p \in Pollers, SnapshotStep(p)
      PROVE  Guarded(e)'
  <2>1. now' = now /\ IsCurrent(p) /\ RevokeCleared
    BY <1>4 DEF SnapshotStep
  <2>2. e \in InFlight /\ executors[e] \in Attempts /\ executors[e].lease_until \in Nat
    BY <1>0, <2>1 DEF RevokeCleared, InFlight, IInv, TypeOK, Attempts
  <2> DEFINE s == executors[e].subject
  <2>3. s \in Stored /\ s \in Subjects /\ rows[s] \in Rows /\ rows[s] # Null
    BY <2>2, StoredRow DEF IInv, ReferencesOK, Stored
  <2>4. rows'[s].claim \in {Null, rows[s].claim}
    <3>1. pollers[p].generation \in Nat /\ \A at \in Terminals(p) : at \in Nat
      BY <2>1, CurrentPoll DEF Polls
    <3> QED
      BY <1>4, <2>3, <3>1, SightedClaim DEF SnapshotStep
  <2>5. CASE Holds(e, s) /\ rows'[s].claim = Null
    <3>1. executors'[e] = [executors[e] EXCEPT !.revoked = TRUE]
      BY <1>0, <2>1, <2>5 DEF RevokeCleared, Holds
    <3>2. executors'[e].revoked
      BY <2>2, <3>1 DEF Attempts
    <3> QED
      BY <3>2 DEF Guarded
  <2>6. CASE ~(Holds(e, s) /\ rows'[s].claim = Null)
    <3>1. executors'[e] = executors[e]
      BY <1>0, <2>1, <2>2, <2>6 DEF RevokeCleared, Holds, InFlight
    <3>2. Holds(e, executors[e].subject) => Holds(e, executors[e].subject)'
      BY <2>4, <2>6, <3>1 DEF Holds
    <3> QED
      BY <1>0, <2>1, <2>2, <3>1, <3>2, UnchangedGuarded DEF AllGuarded
  <2> QED
    BY <2>5, <2>6
<1>5. CASE RowlessStep
  <2>1. executors'[e] = executors[e] /\ e \in InFlight /\ rows' = rows
    BY <1>0, <1>5 DEF RowlessStep, OnlyExecutor, InFlight
  <2>2. now' \in Nat /\ now' >= now
    <3>1. PICK step \in Nat : now' = now \/ now' = now + step
      BY <1>5 DEF RowlessStep
    <3> QED
      BY <1>0, <3>1
  <2> QED
    BY <2>1, <2>2, UnchangedGuarded DEF AllGuarded, Holds
<1> QED
  BY <1>1, <1>2, <1>3, <1>4, <1>5, StepForms

\* On a clock that is never set back two executors act on one subject within their
\* leases only if a poll took the row away from one of them: a row is claimed again
\* only when the lease its executor knows of is over.
THEOREM LeasesAreExclusive == ClockSteps \subseteq Nat => (Spec => []LeaseExclusive)
<1>1. IInv /\ AllGuarded => LeaseExclusive
  <2> SUFFICES ASSUME IInv, AllGuarded, NEW d \in InFlight, NEW e \in InFlight,
                      executors[d].subject = executors[e].subject,
                      executors[d].lease_until > now, executors[e].lease_until > now,
                      ~executors[d].revoked, ~executors[e].revoked
               PROVE  d = e
    BY DEF LeaseExclusive
  <2>1. ASSUME NEW c \in InFlight, executors[c].lease_until > now
        PROVE  ~(executors[c].lease_until <= now)
    <3>1. executors[c] \in Attempts /\ now \in Nat
      BY DEF InFlight, IInv, TypeOK
    <3> QED
      BY <2>1, <3>1 DEF Attempts
  <2>2. Holds(d, executors[d].subject) /\ Holds(e, executors[e].subject)
    BY <2>1 DEF AllGuarded, Guarded
  <2> QED
    BY <2>2 DEF Holds, IInv, OneHolder
<1>2. Init => AllGuarded
  BY DEF Init, AllGuarded, InFlight
<1>3. CASE ClockSteps \subseteq Nat
  <2>1. IInv /\ AllGuarded /\ [Next]_vars => AllGuarded'
    BY <1>3, GuardedKept DEF AllGuarded
  <2> QED
    BY <1>1, <1>2, <2>1, Invariance, PTL DEF Spec
<1>4. CASE ~(ClockSteps \subseteq Nat)
  BY <1>4
<1> QED
  BY <1>3, <1>4

-----------------------------------------------------------------------------
(* Polls keep the account's row consistent, are never refused at their end, *)
(* and decide alone which subscriptions are active.  At most one poll is    *)
(* open, and it is the last one begun: what was seen before it is older     *)
(* than anything it will say.                                              *)

\* The last complete snapshot is of a poll that is over, and only while no poll is
\* open may the last success be newer than the last attempt.
MetaOrdered ==
  meta # Null =>
    /\ meta.last_complete <= meta.poll_generation
    /\ meta.open_poll_generation # Null =>
         /\ meta.last_complete < meta.poll_generation
         /\ meta.last_poll_success_at # Null =>
              meta.last_poll_success_at <= meta.last_poll_attempt_at

\* The poller whose token is current began after everything the account knows of.
PollersKnown ==
  \A p \in Pollers :
    pollers[p] # Null =>
      /\ pollers[p].generation <= meta.poll_generation
      /\ IsCurrent(p) =>
           /\ pollers[p].attempted_at >= meta.updated_at
           /\ pollers[p].attempted_at >= meta.last_poll_attempt_at

\* No row was seen later than the account was updated, nor by the poll that is open.
RowsSeen ==
  \A s \in Stored :
    /\ meta # Null
    /\ rows[s].last_seen_at <= meta.updated_at
    /\ meta.open_poll_generation # Null => rows[s].last_seen < meta.poll_generation

PInv ==
  /\ MetaWellFormed
  /\ MetaOrdered
  /\ PollersKnown
  /\ RowsSeen
  /\ ActiveIsSeen

-----------------------------------------------------------------------------
(* Rows, as polls see them.                                                *)

SightKept(row, new) ==
  /\ new.active = row.active
  /\ new.last_seen = row.last_seen
  /\ new.last_seen_at = row.last_seen_at

\* Whether a row is active, and when it was seen, is for polls alone to say.
LEMMA SightKeptByOthers ==
  ASSUME NEW row \in Rows, NEW new,
         \/ \E at \in Nat : ClaimMade(row, new, at)
         \/ Extended(row, new) \/ Settled(row, new) \/ Edited(row, new)
  PROVE  SightKept(row, new)
<1>0. /\ Revised(row) \in Rows /\ Revised(row).active = row.active
      /\ Revised(row).last_seen = row.last_seen
      /\ Revised(row).last_seen_at = row.last_seen_at
  BY RevisedKeeps
<1>1. ASSUME NEW at \in Nat, ClaimMade(row, new, at)
      PROVE  SightKept(row, new)
  BY <1>0, <1>1 DEF ClaimMade, ClaimedRow, ReclaimedRow, SightKept, Rows
<1>2. CASE Extended(row, new)
  BY <1>0, <1>2 DEF Extended, ExtendedRow, SightKept, Rows
<1>3. CASE Settled(row, new)
  <2>1. \/ \E o, delay, at : new = FinishedRow(row, o.disposition, o.delta, delay, at)
        \/ \E delta, delay, at : new = FailedRow(row, delta, delay, at)
        \/ new = ReleasedRow(row)
    BY <1>3 DEF Settled
  <2>2. ASSUME NEW o, NEW delay, NEW at,
               new = FinishedRow(row, o.disposition, o.delta, delay, at)
        PROVE  SightKept(row, new)
    BY <1>0, <2>2 DEF FinishedRow, SightKept, Rows
  <2>3. ASSUME NEW delta, NEW delay, NEW at, new = FailedRow(row, delta, delay, at)
        PROVE  SightKept(row, new)
    BY <1>0, <2>3 DEF FailedRow, SightKept, Rows
  <2>4. CASE new = ReleasedRow(row)
    BY <1>0, <2>4 DEF ReleasedRow, SightKept, Rows
  <2> QED
    BY <2>1, <2>2, <2>3, <2>4
<1>4. CASE Edited(row, new)
  <2>1. ASSUME NEW at \in Nat, new = ForceRetriedRow(row, at)
        PROVE  SightKept(row, new)
    BY <1>0, <2>1 DEF ForceRetriedRow, SightKept, Rows
  <2>2. ASSUME NEW t \in Torrents, NEW replace \in BOOLEAN, NEW at \in Nat,
               new = ConfirmedRow(row, t, replace, at)
        PROVE  SightKept(row, new)
    BY <1>0, <2>2 DEF ConfirmedRow, SightKept, Rows
  <2>3. ASSUME NEW found \in SUBSET Torrents, new = ManualCandidatesRow(row, found)
        PROVE  SightKept(row, new)
    <3>1. \E payload : new = [Revised(row) EXCEPT !.payload = payload]
      BY <1>0, <2>3 DEF ManualCandidatesRow, Rows
    <3> QED
      BY <1>0, <3>1 DEF SightKept, Rows
  <2>4. ASSUME NEW detail \in EditsOf(DetailOf(row)), new = DetailRow(row, detail)
        PROVE  SightKept(row, new)
    <3>1. detail.last_seen_at = row.last_seen_at
      BY EditsKeepRest
    <3> QED
      BY <1>0, <2>4, <3>1 DEF DetailRow, SightKept, Rows
  <2>5. CASE new = TitleRow(row)
    BY <1>0, <2>5 DEF TitleRow, SightKept
  <2> QED
    BY <1>4, <2>1, <2>2, <2>3, <2>4, <2>5 DEF Edited
<1> QED
  BY <1>1, <1>2, <1>3, <1>4

\* A row that is seen, and one that is missed.
LEMMA SeenRowSight ==
  ASSUME NEW row \in Rows, NEW observed, NEW generation \in Nat, NEW at \in Nat
  PROVE  LET new == SeenRow(row, observed, generation, at)
         IN  new.active /\ new.last_seen = generation /\ new.last_seen_at = at
<1> DEFINE seen == RefreshedRow(row, generation, at)
<1>0. seen \in Rows /\ Revised(row) \in Rows
  BY RevisedKeeps, RefreshedType
<1>1. seen.active /\ seen.last_seen = generation /\ seen.last_seen_at = at
  BY <1>0 DEF RefreshedRow, Rows
<1>2. LET new == TvResetRow(row, observed, generation, at)
      IN  new.active /\ new.last_seen = generation /\ new.last_seen_at = at
  BY <1>0, <1>1 DEF TvResetRow, seen, Rows
<1>3. LET new == ReactivatedRow(row, observed, generation, at)
      IN  new.active /\ new.last_seen = generation /\ new.last_seen_at = at
  BY <1>0, <1>1 DEF ReactivatedRow, seen, Rows
<1> HIDE DEF seen
<1> QED
  BY <1>1, <1>2, <1>3 DEF SeenRow, seen

LEMMA DeactivatedRowSight ==
  ASSUME NEW row \in Rows
  PROVE  LET new == DeactivatedRow(row)
         IN  /\ new.active = FALSE /\ new.last_seen = row.last_seen
             /\ new.last_seen_at = row.last_seen_at
BY RevisedKeeps DEF DeactivatedRow, Rows

-----------------------------------------------------------------------------
(* Steps of everybody else.                                                *)

LEMMA PollTypes ==
  ASSUME IInv
  PROVE  /\ meta # Null =>
              /\ meta \in Metas
              /\ meta.poll_generation \in Nat /\ meta.last_complete \in Nat
              /\ meta.open_poll_generation \in Nat \cup {Null}
              /\ meta.updated_at \in Nat /\ meta.last_poll_attempt_at \in Nat
              /\ meta.last_poll_success_at \in Nat \cup {Null}
              /\ meta.poll_failure_count \in Nat
         /\ \A p \in Pollers : pollers[p] # Null =>
              /\ meta # Null
              /\ pollers[p].generation \in Nat /\ pollers[p].attempted_at \in Nat
         /\ \A s \in Stored :
              /\ rows[s].active \in BOOLEAN
              /\ rows[s].last_seen \in Nat /\ rows[s].last_seen_at \in Nat
<1>1. \A s \in Stored : rows[s] \in Rows
  BY StoredRow
<1> QED
  BY <1>1 DEF IInv, TypeOK, ReferencesOK, Metas, Polls, Rows

LEMMA QuietKeepsPInv ==
  ASSUME IInv, PInv, meta' = meta,
         \A p \in Pollers : pollers'[p] \in {Null, pollers[p]},
         \A s \in Subjects :
           \/ rows'[s] = rows[s]
           \/ rows[s] # Null /\ rows'[s] # Null /\ SightKept(rows[s], rows'[s])
  PROVE  PInv'
<1>1. MetaWellFormed' /\ MetaOrdered'
  BY DEF PInv, MetaWellFormed, MetaOrdered
<1>2. PollersKnown'
  BY DEF PInv, PollersKnown, IsCurrent
<1>3. \A s \in Stored' : s \in Stored /\ SightKept(rows[s], rows'[s])
  BY DEF Stored, SightKept
<1>4. RowsSeen' /\ ActiveIsSeen'
  BY <1>3 DEF PInv, RowsSeen, ActiveIsSeen, SightKept
<1> QED
  BY <1>1, <1>2, <1>4 DEF PInv

LEMMA OthersKeepPInv ==
  ASSUME IInv, PInv, Grows,
         \/ \E e \in Executors :
              \/ ClaimExpired(e) \/ ClaimForced(e) \/ ClaimNormal(e)
              \/ ClaimMetadata(e) \/ ClaimOne(e)
              \/ ExtendLease(e) \/ Finish(e) \/ Fail(e) \/ Release(e) \/ DropAttempt(e)
         \/ \E s \in Subjects : ForceRetry(s)
         \/ \E c \in Clients :
              \/ ReadDetail(c) \/ DropRead(c)
              \/ ConfirmCandidate(c) \/ AddManualCandidates(c) \/ UpdateDetail(c)
         \/ BackfillTitles
         \/ Tick
         \/ UNCHANGED vars
  PROVE  PInv'
<1>0. now \in Nat /\ \A s \in Stored : rows[s] \in Rows /\ rows[s] # Null
  BY StoredRow DEF IInv, TypeOK, Stored
<1>1. ASSUME NEW e \in Executors, NEW s \in Stored,
             GrantStep(e, s) \/ ExtensionStep(e, s) \/ SettleStepOf(e, s)
      PROVE  PInv'
  <2>1. PollsKept /\ OnlyRow(s)
    BY <1>1 DEF GrantStep, ExtensionStep, SettleStepOf
  <2>2. \/ \E at \in Nat : ClaimMade(rows[s], rows'[s], at)
        \/ Extended(rows[s], rows'[s]) \/ Settled(rows[s], rows'[s])
    BY <1>0, <1>1 DEF GrantStep, ExtensionStep, SettleStepOf
  <2>3. SightKept(rows[s], rows'[s]) /\ rows'[s] # Null /\ rows[s] # Null
    BY <1>0, <2>2, SightKeptByOthers DEF Grows, Stored
  <2> QED
    BY <2>1, <2>3, QuietKeepsPInv DEF PollsKept, OnlyRow
<1>2. CASE EditStep
  <2>1. \A s \in Subjects :
          \/ rows'[s] = rows[s]
          \/ rows[s] # Null /\ rows'[s] # Null /\ SightKept(rows[s], rows'[s])
    BY <1>0, <1>2, SightKeptByOthers DEF EditStep, Grows, Stored
  <2> QED
    BY <1>2, <2>1, QuietKeepsPInv DEF EditStep, PollsKept
<1>3. CASE rows' = rows /\ meta' = meta /\ pollers' = pollers
  BY <1>3, QuietKeepsPInv
<1>4. ASSUME NEW e \in Executors,
             \/ ClaimExpired(e) \/ ClaimForced(e) \/ ClaimNormal(e)
             \/ ClaimMetadata(e) \/ ClaimOne(e)
             \/ ExtendLease(e) \/ Finish(e) \/ Fail(e) \/ Release(e)
      PROVE  PInv'
  BY <1>1, <1>4, GrantSteps, ExtensionSteps, SettleSteps DEF ExtensionStep, SettleStepOf
<1>5. ASSUME NEW e \in Executors, DropAttempt(e)
      PROVE  PInv'
  BY <1>3, <1>5 DEF DropAttempt, poll_vars
<1>6. ASSUME NEW c \in Clients, ReadDetail(c) \/ DropRead(c)
      PROVE  PInv'
  BY <1>3, <1>6 DEF ReadDetail, DropRead, poll_vars
<1>7. CASE Tick
  BY <1>3, <1>7 DEF Tick, poll_vars
<1>8. CASE UNCHANGED vars
  BY <1>3, <1>8 DEF vars
<1> QED
  BY <1>2, <1>4, <1>5, <1>6, <1>7, <1>8, EditSteps

-----------------------------------------------------------------------------
(* Steps of pollers.                                                       *)

LEMMA BeginPollKeepsPInv ==
  ASSUME IInv, PInv, NEW p \in Pollers, BeginPoll(p)
  PROVE  PInv'
<1>1. PICK at \in Recent :
        /\ \/ meta = Null /\ meta' = NewMeta(at)
           \/ meta # Null /\ CanBegin(at) /\ meta' = BegunMeta(at)
        /\ pollers' = [pollers EXCEPT ![p] =
             [generation |-> meta'.poll_generation, attempted_at |-> at]]
  BY DEF BeginPoll
<1>2. rows' = rows /\ at \in Nat /\ pollers \in [Pollers -> Polls \cup {Null}]
  BY DEF BeginPoll, Recent, IInv, TypeOK
<1>3. /\ pollers'[p] = [generation |-> meta'.poll_generation, attempted_at |-> at]
      /\ \A q \in Pollers \ {p} : pollers'[q] = pollers[q]
  BY <1>1, <1>2
<1>4. CASE meta = Null /\ meta' = NewMeta(at)
  <2>1. Stored = {} /\ \A q \in Pollers : pollers[q] = Null
    BY <1>4, PollTypes DEF PInv, RowsSeen
  <2>2. Stored' = {}
    BY <1>2, <2>1 DEF Stored
  <2>3. meta' # Null
    BY <1>2, <1>4, NewMetaType, NullAssumption
  <2> QED
    BY <1>2, <1>3, <1>4, <2>1, <2>2, <2>3, RowAssumption DEF NewMeta, PInv, MetaWellFormed,
       MetaOrdered, PollersKnown, RowsSeen, ActiveIsSeen, IsCurrent
<1>5. CASE meta # Null /\ CanBegin(at) /\ meta' = BegunMeta(at)
  <2>1. meta' # Null
    BY <1>2, <1>5, PollTypes, BegunMetaType, NullAssumption
  <2>2. /\ meta \in Metas
        /\ meta.poll_generation \in Nat /\ meta.last_complete \in Nat
        /\ meta.open_poll_generation \in Nat \cup {Null}
        /\ meta.updated_at \in Nat /\ meta.last_poll_attempt_at \in Nat
        /\ meta.last_poll_success_at \in Nat \cup {Null}
    BY <1>5, PollTypes
  <2>3. at >= meta.updated_at /\ at >= meta.last_poll_attempt_at
    BY <1>5 DEF CanBegin
  <2>4. /\ meta'.poll_generation = meta.poll_generation + 1
        /\ meta'.open_poll_generation = meta.poll_generation + 1
        /\ meta'.last_poll_attempt_at = at
        /\ meta'.updated_at = Later(meta.updated_at, at)
        /\ meta'.last_poll_success_at = meta.last_poll_success_at
        /\ meta'.last_complete = meta.last_complete
    BY <1>5, <2>2 DEF BegunMeta, Metas
  <2>5. meta'.updated_at = at
    BY <1>2, <2>2, <2>3, <2>4 DEF Later
  <2>6. meta.last_poll_success_at # Null => at >= meta.last_poll_success_at
    BY <1>5 DEF CanBegin
  <2>7. meta'.open_poll_generation # Null
    BY <2>2, <2>4, RowAssumption
  <2>8. MetaWellFormed'
    BY <1>2, <2>4, <2>5, <2>6, <2>7 DEF MetaWellFormed
  <2>9. MetaOrdered'
    BY <1>2, <1>5, <2>2, <2>4, <2>6 DEF PInv, MetaOrdered
  <2>10. PollersKnown'
    <3> SUFFICES ASSUME NEW q \in Pollers, pollers'[q] # Null
                 PROVE  /\ pollers'[q].generation <= meta'.poll_generation
                        /\ meta'.open_poll_generation = pollers'[q].generation =>
                             /\ pollers'[q].attempted_at >= meta'.updated_at
                             /\ pollers'[q].attempted_at >= meta'.last_poll_attempt_at
      BY DEF PollersKnown, IsCurrent
    <3>1. CASE q = p
      BY <1>2, <1>3, <2>2, <2>4, <2>5, <3>1
    <3>2. CASE q # p
      <4>1. pollers'[q] = pollers[q] /\ pollers[q].generation \in Nat
        BY <1>3, <3>2, PollTypes
      <4>2. pollers[q].generation <= meta.poll_generation
        BY <4>1 DEF PInv, PollersKnown
      <4> QED
        BY <2>2, <2>4, <4>1, <4>2
    <3> QED
      BY <3>1, <3>2
  <2>11. Stored' = Stored
    BY <1>2 DEF Stored
  <2>12. \A s \in Stored : /\ rows[s].last_seen_at <= meta.updated_at
                           /\ rows[s].last_seen <= meta.poll_generation
                           /\ rows[s].last_seen \in Nat /\ rows[s].last_seen_at \in Nat
                           /\ rows[s].active <=> rows[s].last_seen >= meta.last_complete
    BY PollTypes DEF PInv, RowsSeen, ActiveIsSeen
  <2>13. RowsSeen'
    BY <1>2, <2>1, <2>2, <2>3, <2>4, <2>5, <2>11, <2>12 DEF RowsSeen
  <2>14. ActiveIsSeen'
    BY <1>2, <2>2, <2>4, <2>11, <2>12 DEF ActiveIsSeen
  <2> QED
    BY <2>8, <2>9, <2>10, <2>13, <2>14 DEF PInv
<1> QED
  BY <1>1, <1>4, <1>5

LEMMA DropPollKeepsPInv ==
  ASSUME IInv, PInv, NEW p \in Pollers, DropPoll(p)
  PROVE  PInv'
<1>1. /\ rows' = rows /\ meta' = meta
      /\ \A q \in Pollers : pollers'[q] \in {Null, pollers[q]}
  BY DEF DropPoll, EndPoll, IInv, TypeOK
<1> QED
  BY <1>1, QuietKeepsPInv

\* The poll that is open is the last one begun, and ends after all that is known.
LEMMA CurrentIsLast ==
  ASSUME IInv, PInv, NEW p \in Pollers, IsCurrent(p), NEW at \in Terminals(p)
  PROVE  /\ meta # Null /\ at \in Nat
         /\ meta.open_poll_generation # Null
         /\ pollers[p].generation = meta.poll_generation
         /\ at >= meta.updated_at /\ at >= meta.last_poll_attempt_at
<1>1. /\ pollers[p] # Null /\ meta # Null /\ at \in Nat
      /\ meta.open_poll_generation = pollers[p].generation
      /\ pollers[p].generation \in Nat /\ pollers[p].attempted_at \in Nat
      /\ meta.updated_at \in Nat /\ meta.last_poll_attempt_at \in Nat
  BY PollTypes, CurrentPoll DEF IsCurrent
<1>2. meta.open_poll_generation # Null
  BY <1>1, RowAssumption
<1>3. pollers[p].generation = meta.poll_generation
  BY <1>1, <1>2 DEF PInv, MetaWellFormed
<1>4. PICK t \in Recent : at = Later(t, pollers[p].attempted_at)
  BY DEF Terminals
<1>5. t \in Nat /\ at >= pollers[p].attempted_at
  BY <1>1, <1>4 DEF Recent, Later, IInv, TypeOK
<1>6. /\ pollers[p].attempted_at >= meta.updated_at
      /\ pollers[p].attempted_at >= meta.last_poll_attempt_at
  BY <1>1 DEF PInv, PollersKnown
<1> QED
  BY <1>1, <1>2, <1>3, <1>5, <1>6

\* What the end of a poll leaves of the account's row.
LEMMA ClosedMetaFields ==
  ASSUME IInv, PInv, NEW p \in Pollers, IsCurrent(p), NEW at \in Terminals(p),
         meta' = CompletedMeta(pollers[p].generation, at) \/ meta' = UnsuccessfulMeta(at)
  PROVE  /\ meta' # Null
         /\ meta'.poll_generation = meta.poll_generation
         /\ meta'.open_poll_generation = Null
         /\ meta'.updated_at = at
         /\ meta'.last_poll_attempt_at = meta.last_poll_attempt_at
         /\ \/ /\ meta' = CompletedMeta(pollers[p].generation, at)
               /\ meta'.last_poll_success_at = at
               /\ meta'.poll_failure_count = 0
               /\ meta'.last_complete = meta.poll_generation
            \/ /\ meta' = UnsuccessfulMeta(at)
               /\ meta'.last_poll_success_at = meta.last_poll_success_at
               /\ meta'.poll_failure_count = meta.poll_failure_count + 1
               /\ meta'.last_complete = meta.last_complete
<1>1. /\ meta # Null /\ meta \in Metas /\ at \in Nat
      /\ pollers[p].generation = meta.poll_generation
      /\ meta.updated_at \in Nat /\ at >= meta.updated_at
      /\ meta.poll_generation \in Nat
  BY CurrentIsLast, PollTypes
<1>2. meta' # Null
  BY <1>1, CompletedMetaType, UnsuccessfulMetaType, NullAssumption
<1>3. Later(meta.updated_at, at) = at
  BY <1>1 DEF Later
<1> DEFINE closed == [meta EXCEPT !.updated_at = at, !.open_poll_generation = Null]
<1>4. ClosedMeta(at) = closed
  BY <1>1, <1>3 DEF ClosedMeta, Metas
<1>5. /\ closed \in Metas
      /\ closed.poll_generation = meta.poll_generation
      /\ closed.open_poll_generation = Null /\ closed.updated_at = at
      /\ closed.last_poll_attempt_at = meta.last_poll_attempt_at
      /\ closed.last_poll_success_at = meta.last_poll_success_at
      /\ closed.poll_failure_count = meta.poll_failure_count
      /\ closed.last_complete = meta.last_complete
  BY <1>1 DEF Metas
<1> HIDE DEF closed
<1>6. CASE meta' = CompletedMeta(pollers[p].generation, at)
  BY <1>1, <1>2, <1>4, <1>5, <1>6 DEF CompletedMeta, Metas
<1>7. CASE meta' = UnsuccessfulMeta(at)
  BY <1>2, <1>4, <1>5, <1>7 DEF UnsuccessfulMeta, Metas
<1> QED
  BY <1>6, <1>7

\* The account's row and the other pollers, once a poll has ended.
LEMMA ClosingKeepsMeta ==
  ASSUME IInv, PInv, NEW p \in Pollers, IsCurrent(p), NEW at \in Terminals(p), EndPoll(p),
         meta' = CompletedMeta(pollers[p].generation, at) \/ meta' = UnsuccessfulMeta(at)
  PROVE  MetaWellFormed' /\ MetaOrdered' /\ PollersKnown'
<1>1. /\ meta # Null /\ at \in Nat /\ meta.open_poll_generation # Null
      /\ at >= meta.updated_at /\ at >= meta.last_poll_attempt_at
  BY CurrentIsLast
<1>2. /\ meta.poll_generation \in Nat /\ meta.last_complete \in Nat
      /\ meta.updated_at \in Nat /\ meta.last_poll_attempt_at \in Nat
      /\ meta.last_poll_success_at \in Nat \cup {Null}
      /\ meta.poll_failure_count \in Nat
  BY <1>1, PollTypes
<1>3. /\ meta'.poll_generation = meta.poll_generation
      /\ meta'.open_poll_generation = Null
      /\ meta'.updated_at = at
      /\ meta'.last_poll_attempt_at = meta.last_poll_attempt_at
      /\ \/ /\ meta'.last_poll_success_at = at
            /\ meta'.poll_failure_count = 0
            /\ meta'.last_complete = meta.poll_generation
         \/ /\ meta'.last_poll_success_at = meta.last_poll_success_at
            /\ meta'.poll_failure_count = meta.poll_failure_count + 1
            /\ meta'.last_complete = meta.last_complete
  BY ClosedMetaFields
<1>4. /\ meta.last_poll_success_at # Null =>
           /\ meta.last_poll_success_at <= meta.updated_at
           /\ meta.last_poll_success_at <= meta.last_poll_attempt_at
      /\ meta.last_complete <= meta.poll_generation
  BY <1>1 DEF PInv, MetaWellFormed, MetaOrdered
<1>5. MetaWellFormed'
  BY <1>1, <1>2, <1>3, <1>4 DEF MetaWellFormed
<1>6. MetaOrdered'
  BY <1>2, <1>3, <1>4 DEF MetaOrdered
<1>7. \A q \in Pollers : pollers'[q] \in {Null, pollers[q]}
  BY DEF EndPoll, IInv, TypeOK
<1>8. PollersKnown'
  <2> SUFFICES ASSUME NEW q \in Pollers, pollers'[q] # Null
               PROVE  /\ pollers'[q].generation <= meta'.poll_generation
                      /\ meta'.open_poll_generation # pollers'[q].generation
    BY DEF PollersKnown, IsCurrent
  <2>1. pollers'[q] = pollers[q] /\ pollers[q].generation \in Nat
    BY <1>7, PollTypes
  <2>2. pollers[q].generation <= meta.poll_generation
    BY <2>1 DEF PInv, PollersKnown
  <2> QED
    BY <1>3, <2>1, <2>2, RowAssumption
<1> QED
  BY <1>5, <1>6, <1>8

\* A failure says nothing of any row.
LEMMA RecordPollFailureKeepsPInv ==
  ASSUME IInv, PInv, NEW p \in Pollers, RecordPollFailure(p)
  PROVE  PInv'
<1>1. PICK at \in Terminals(p) : meta' = UnsuccessfulMeta(at)
  BY DEF RecordPollFailure
<1>2. IsCurrent(p) /\ EndPoll(p) /\ rows' = rows
  BY DEF RecordPollFailure
<1>3. MetaWellFormed' /\ MetaOrdered' /\ PollersKnown'
  BY <1>1, <1>2, ClosingKeepsMeta
<1>4. /\ meta' # Null /\ meta'.open_poll_generation = Null /\ meta'.updated_at = at
      /\ meta'.poll_generation = meta.poll_generation
  BY <1>1, <1>2, ClosedMetaFields
<1>5. meta'.last_complete = meta.last_complete
  BY <1>1, <1>2, CurrentPoll, ClosedMetaType DEF UnsuccessfulMeta, ClosedMeta, Metas
<1>6. at >= meta.updated_at /\ at \in Nat /\ meta.updated_at \in Nat
  BY <1>2, CurrentIsLast, PollTypes
<1>7. RowsSeen' /\ ActiveIsSeen'
  BY <1>2, <1>4, <1>5, <1>6, PollTypes DEF PInv, RowsSeen, ActiveIsSeen, Stored
<1> QED
  BY <1>3, <1>7 DEF PInv

SightedNow(row, generation, at) ==
  row.active /\ row.last_seen = generation /\ row.last_seen_at = at

LEMMA SeenOrInsertedSight ==
  ASSUME IInv, NEW s \in Subjects, NEW observed, NEW skip,
         NEW generation \in Nat, NEW at \in Nat
  PROVE  SightedNow(SeenOrInserted(s, observed, skip, generation, at), generation, at)
<1>1. CASE rows[s] = Null
  BY <1>1 DEF SeenOrInserted, InsertedRow, SightedNow
<1>2. CASE rows[s] # Null
  <2>1. rows[s] \in Rows
    BY <1>2, StoredRow DEF Stored
  <2> QED
    BY <1>2, <2>1, SeenRowSight DEF SeenOrInserted, SightedNow
<1> QED
  BY <1>1, <1>2

LEMMA ApplyCompleteSnapshotKeepsPInv ==
  ASSUME IInv, PInv, NEW p \in Pollers, ApplyCompleteSnapshot(p)
  PROVE  PInv'
<1> DEFINE generation == pollers[p].generation
<1>1. IsCurrent(p) /\ EndPoll(p)
  BY DEF ApplyCompleteSnapshot
<1>2. PICK at \in Terminals(p), seen \in SUBSET Subjects :
        /\ meta' = CompletedMeta(generation, at)
        /\ \E skip \in BootstrapSkips : \E observed \in [seen -> Observed] :
             rows' = [s \in Subjects |->
               IF s \in seen THEN SeenOrInserted(s, observed[s], skip, generation, at)
               ELSE IF s \in Missing(seen, generation) THEN DeactivatedRow(rows[s])
               ELSE rows[s]]
  BY DEF ApplyCompleteSnapshot
<1>3. MetaWellFormed' /\ MetaOrdered' /\ PollersKnown'
  BY <1>1, <1>2, ClosingKeepsMeta
<1>4. /\ meta # Null /\ meta \in Metas /\ at \in Nat /\ generation = meta.poll_generation
      /\ meta.open_poll_generation # Null /\ meta.poll_generation \in Nat
      /\ at >= meta.updated_at /\ meta.updated_at \in Nat
  BY <1>1, CurrentIsLast, PollTypes
<1>5. /\ meta' # Null /\ meta'.open_poll_generation = Null /\ meta'.updated_at = at
      /\ meta'.poll_generation = meta.poll_generation
  BY <1>1, <1>2, ClosedMetaFields
<1>6. meta'.last_complete = meta.poll_generation
  BY <1>2, <1>4, ClosedMetaType DEF CompletedMeta, Metas
<1>7. ASSUME NEW s \in Stored'
      PROVE  /\ rows'[s].last_seen_at <= at
             /\ rows'[s].last_seen <= meta.poll_generation
             /\ rows'[s].active <=> rows'[s].last_seen >= meta.poll_generation
  <2>0. s \in Subjects /\ rows'[s] # Null
    BY DEF Stored
  <2>1. CASE s \in seen
    <3>1. SightedNow(rows'[s], generation, at)
      BY <1>2, <1>4, <2>0, <2>1, SeenOrInsertedSight
    <3> QED
      BY <1>4, <3>1 DEF SightedNow
  <2>2. CASE s \notin seen
    <3>1. rows'[s] = IF s \in Missing(seen, generation) THEN DeactivatedRow(rows[s])
                     ELSE rows[s]
      BY <1>2, <2>0, <2>2
    <3>2. s \in Stored
      BY <2>0, <3>1 DEF Missing, Stored
    <3>3. /\ rows[s].last_seen_at <= meta.updated_at
          /\ rows[s].last_seen < meta.poll_generation
          /\ rows[s].last_seen \in Nat /\ rows[s].last_seen_at \in Nat
          /\ rows[s] \in Rows
      BY <1>4, <3>2, PollTypes, StoredRow DEF PInv, RowsSeen
    <3>4. /\ rows'[s].active = FALSE
          /\ rows'[s].last_seen = rows[s].last_seen
          /\ rows'[s].last_seen_at = rows[s].last_seen_at
      <4>1. CASE s \in Missing(seen, generation)
        BY <3>1, <3>3, <4>1, DeactivatedRowSight
      <4>2. CASE s \notin Missing(seen, generation)
        <5>1. ~IsMissing(rows[s], generation)
          BY <2>2, <3>2, <4>2 DEF Missing
        <5>2. rows[s].active = FALSE
          BY <1>4, <3>2, <3>3, <5>1, PollTypes DEF IsMissing
        <5> QED
          BY <3>1, <4>2, <5>2
      <4> QED
        BY <4>1, <4>2
    <3> QED
      BY <1>4, <3>3, <3>4
  <2> QED
    BY <2>1, <2>2
<1>8. RowsSeen' /\ ActiveIsSeen'
  BY <1>5, <1>6, <1>7 DEF RowsSeen, ActiveIsSeen
<1> QED
  BY <1>3, <1>8 DEF PInv

LEMMA RecordIncompleteSnapshotKeepsPInv ==
  ASSUME IInv, PInv, NEW p \in Pollers, RecordIncompleteSnapshot(p)
  PROVE  PInv'
<1> DEFINE generation == pollers[p].generation
<1>1. IsCurrent(p) /\ EndPoll(p)
  BY DEF RecordIncompleteSnapshot
<1>2. PICK at \in Terminals(p), seen \in SUBSET Subjects :
        /\ meta' = UnsuccessfulMeta(at)
        /\ \E skip \in BootstrapSkips : \E observed \in [seen -> Observed] :
             rows' = [s \in Subjects |->
               IF s \in seen THEN SeenOrInserted(s, observed[s], skip, generation, at)
               ELSE rows[s]]
  BY DEF RecordIncompleteSnapshot
<1>3. MetaWellFormed' /\ MetaOrdered' /\ PollersKnown'
  BY <1>1, <1>2, ClosingKeepsMeta
<1>4. /\ meta # Null /\ meta \in Metas /\ at \in Nat /\ generation = meta.poll_generation
      /\ meta.poll_generation \in Nat /\ meta.last_complete \in Nat
      /\ at >= meta.updated_at /\ meta.updated_at \in Nat
      /\ meta.last_complete <= meta.poll_generation
  BY <1>1, CurrentIsLast, PollTypes DEF PInv, MetaOrdered
<1>5. /\ meta' # Null /\ meta'.open_poll_generation = Null /\ meta'.updated_at = at
      /\ meta'.poll_generation = meta.poll_generation
  BY <1>1, <1>2, ClosedMetaFields
<1>6. meta'.last_complete = meta.last_complete
  BY <1>2, <1>4, ClosedMetaType DEF UnsuccessfulMeta, ClosedMeta, Metas
<1>7. ASSUME NEW s \in Stored'
      PROVE  /\ rows'[s].last_seen_at <= at
             /\ rows'[s].last_seen <= meta.poll_generation
             /\ rows'[s].active <=> rows'[s].last_seen >= meta.last_complete
  <2>0. s \in Subjects /\ rows'[s] # Null
    BY DEF Stored
  <2>1. CASE s \in seen
    <3>1. SightedNow(rows'[s], generation, at)
      BY <1>2, <1>4, <2>0, <2>1, SeenOrInsertedSight
    <3> QED
      BY <1>4, <3>1 DEF SightedNow
  <2>2. CASE s \notin seen
    <3>1. rows'[s] = rows[s] /\ s \in Stored
      BY <1>2, <2>0, <2>2 DEF Stored
    <3> QED
      BY <1>4, <3>1, PollTypes DEF PInv, RowsSeen, ActiveIsSeen
  <2> QED
    BY <2>1, <2>2
<1>8. RowsSeen' /\ ActiveIsSeen'
  BY <1>5, <1>6, <1>7 DEF RowsSeen, ActiveIsSeen
<1> QED
  BY <1>3, <1>8 DEF PInv

-----------------------------------------------------------------------------

LEMMA InitPInv == Init => PInv
BY DEF Init, PInv, MetaWellFormed, MetaOrdered, PollersKnown, RowsSeen, ActiveIsSeen, Stored

LEMMA NextPInv == IInv /\ PInv /\ [Next]_vars => PInv'
<1> SUFFICES ASSUME IInv, PInv, [Next]_vars
             PROVE  PInv'
  OBVIOUS
<1>1. Grows
  BY NextIInv
<1>2. ASSUME NEW p \in Pollers,
             \/ BeginPoll(p) \/ ApplyCompleteSnapshot(p) \/ RecordIncompleteSnapshot(p)
             \/ RecordPollFailure(p) \/ DropPoll(p)
      PROVE  PInv'
  BY <1>2, BeginPollKeepsPInv, ApplyCompleteSnapshotKeepsPInv,
     RecordIncompleteSnapshotKeepsPInv, RecordPollFailureKeepsPInv, DropPollKeepsPInv
<1> QED
  BY <1>1, <1>2, OthersKeepPInv DEF Next

\* What polls rely on holds, however many of them race and whatever they find.
THEOREM PollInvariance == Spec => []PInv
BY Invariance, InitPInv, NextPInv, PTL DEF Spec

\* No command runs into a CHECK constraint of the account's row, whichever polls race
\* and however the clock moves: the times and the failure count agree with each other.
THEOREM MetaStaysWellFormed == Spec => []MetaWellFormed
<1>1. PInv => MetaWellFormed
  BY DEF PInv
<1> QED
  BY <1>1, PollInvariance, PTL

\* The poller whose token is current can always hand in its result: neither the
\* account nor any row it may merge is newer than the end of its poll.
THEOREM CurrentPollsCanClose == Spec => []CurrentPollCanClose
<1>1. IInv /\ PInv => CurrentPollCanClose
  <2> SUFFICES ASSUME IInv, PInv, NEW p \in Pollers, IsCurrent(p), NEW at \in Terminals(p)
               PROVE  CanClose(at) /\ \A s \in Stored : CanMerge(rows[s], at)
    BY DEF CurrentPollCanClose
  <2>1. /\ meta # Null /\ at \in Nat
        /\ at >= meta.updated_at /\ at >= meta.last_poll_attempt_at
    BY CurrentIsLast
  <2>2. ASSUME NEW s \in Stored
        PROVE  CanMerge(rows[s], at)
    BY <2>1, <2>2, PollTypes DEF PInv, RowsSeen, CanMerge
  <2> QED
    BY <2>1, <2>2 DEF CanClose
<1> QED
  BY <1>1, Invariance, PollInvariance, PTL

\* A subscription is active exactly when the last complete snapshot, or a later
\* incomplete one, contains it: no poll that lost its token says anything of it.
THEOREM ActiveMeansSeen == Spec => []ActiveIsSeen
<1>1. PInv => ActiveIsSeen
  BY DEF PInv
<1> QED
  BY <1>1, PollInvariance, PTL

-----------------------------------------------------------------------------
(* The backoff.  That the recursive function of delays is one, and bounded, *)
(* is shown without induction: of the numbers of failures for which it is   *)
(* not, there would be a least one.                                        *)

\* The delay after n failures, from the one before.
DelayAfter(delay, n) ==
  IF n <= 1 THEN InitialDelay
  ELSE IF 2 * delay < MaxDelay THEN 2 * delay ELSE MaxDelay

\* The delays after up to n failures.
Delays(g, n) ==
  /\ DOMAIN g = 0 .. n
  /\ \A i \in 0 .. n : /\ g[i] \in InitialDelay .. MaxDelay
                       /\ g[i] = DelayAfter(g[i - 1], i)

\* However many failures, there are such delays, and only one for each number.
LEMMA DelaysExist == \A n \in Nat : \E g : Delays(g, n)
<1> DEFINE Without == {n \in Nat : ~\E g : Delays(g, n)}
<1>1. Without = {}
  <2> SUFFICES ASSUME Without # {} PROVE FALSE
    OBVIOUS
  <2>1. PICK m \in Without : \A k \in Without : m <= k
    BY LeastOf
  <2>2. m # 0
    <3>1. Delays([i \in 0 .. 0 |-> InitialDelay], 0)
      BY DelayAssumption DEF Delays, DelayAfter
    <3> QED
      BY <2>1, <3>1
  <2>3. m - 1 \in Nat /\ m - 1 \notin Without
    BY <2>1, <2>2
  <2>4. PICK g : Delays(g, m - 1)
    BY <2>3
  <2> DEFINE h == [i \in 0 .. m |-> IF i = m THEN DelayAfter(g[m - 1], m) ELSE g[i]]
  <2>5. DelayAfter(g[m - 1], m) \in InitialDelay .. MaxDelay
    BY <2>2, <2>3, <2>4, DelayAssumption DEF Delays, DelayAfter
  <2>6. Delays(h, m)
    <3> SUFFICES ASSUME NEW i \in 0 .. m
                 PROVE  h[i] \in InitialDelay .. MaxDelay /\ h[i] = DelayAfter(h[i - 1], i)
      BY DEF Delays
    <3>1. CASE i = m
      <4>1. h[i - 1] = g[m - 1] /\ h[i] = DelayAfter(g[m - 1], m)
        BY <2>2, <2>3, <3>1
      <4> QED
        BY <2>5, <3>1, <4>1
    <3>2. CASE i # m
      <4>1. i \in 0 .. m - 1 /\ h[i] = g[i]
        BY <3>2, <2>3
      <4>2. g[i] \in InitialDelay .. MaxDelay /\ g[i] = DelayAfter(g[i - 1], i)
        BY <2>4, <4>1 DEF Delays
      <4>3. i > 1 => h[i - 1] = g[i - 1]
        BY <3>2, <2>3
      <4> QED
        BY <4>1, <4>2, <4>3 DEF DelayAfter
    <3> QED
      BY <3>1, <3>2
  <2> QED
    BY <2>1, <2>6
<1> QED
  BY <1>1

LEMMA DelaysAgree ==
  ASSUME NEW m \in Nat, NEW n \in Nat, NEW g, NEW h, Delays(g, m), Delays(h, n)
  PROVE  \A i \in Nat : i <= m /\ i <= n => g[i] = h[i]
<1> DEFINE Differ == {i \in Nat : i <= m /\ i <= n /\ g[i] # h[i]}
<1> SUFFICES ASSUME Differ # {} PROVE FALSE
  OBVIOUS
<1>1. PICK i \in Differ : \A k \in Differ : i <= k
  BY LeastOf
<1>2. g[i] = DelayAfter(g[i - 1], i) /\ h[i] = DelayAfter(h[i - 1], i)
  BY <1>1 DEF Delays
<1>3. i > 1 => g[i - 1] = h[i - 1]
  <2>1. i - 1 \notin Differ
    BY <1>1
  <2> QED
    BY <1>1, <2>1
<1> QED
  BY <1>1, <1>2, <1>3 DEF DelayAfter

\* DelaySecs is the function that its definition describes.
LEMMA DelaySecsIs ==
  DelaySecs = [n \in Nat |-> IF n <= 1 THEN InitialDelay
                             ELSE LET doubled == 2 * DelaySecs[n - 1]
                                  IN  IF doubled < MaxDelay THEN doubled ELSE MaxDelay]
<1> DEFINE Body(h) == [n \in Nat |-> IF n <= 1 THEN InitialDelay
                             ELSE LET doubled == 2 * h[n - 1]
                                  IN  IF doubled < MaxDelay THEN doubled ELSE MaxDelay]
           UpTo(n) == CHOOSE g : Delays(g, n)
           f == [n \in Nat |-> UpTo(n)[n]]
<1>1. \A n \in Nat : Delays(UpTo(n), n)
  BY DelaysExist
<1>2. \A n \in Nat : f[n] = UpTo(n)[n]
  OBVIOUS
<1>3. f = [n \in Nat |-> f[n]]
  OBVIOUS
<1> HIDE DEF UpTo, f
<1>4. \A n \in Nat : f[n] = DelayAfter(f[n - 1], n)
  <2> TAKE n \in Nat
  <2>1. f[n] = DelayAfter(UpTo(n)[n - 1], n)
    BY <1>1, <1>2 DEF Delays
  <2>2. CASE n > 1
    <3>1. n - 1 \in Nat /\ Delays(UpTo(n - 1), n - 1) /\ Delays(UpTo(n), n)
      BY <1>1, <2>2
    <3>2. UpTo(n)[n - 1] = UpTo(n - 1)[n - 1]
      BY <2>2, <3>1, DelaysAgree
    <3> QED
      BY <1>2, <2>1, <3>1, <3>2
  <2>3. CASE ~(n > 1)
    BY <2>1, <2>3 DEF DelayAfter
  <2> QED
    BY <2>2, <2>3
<1>5. f = Body(f)
  BY <1>3, <1>4 DEF DelayAfter
<1> QED
  BY <1>5 DEF DelaySecs

\* However many polls have failed, the delay is at least the first one and at most the cap.
LEMMA DelayBounded == \A n \in Nat : DelaySecs[n] \in InitialDelay .. MaxDelay
<1> DEFINE Outside == {n \in Nat : DelaySecs[n] \notin InitialDelay .. MaxDelay}
<1> SUFFICES ASSUME Outside # {} PROVE FALSE
  OBVIOUS
<1>1. PICK m \in Outside : \A k \in Outside : m <= k
  BY LeastOf
<1>2. DelaySecs[m] = IF m <= 1 THEN InitialDelay
                     ELSE IF 2 * DelaySecs[m - 1] < MaxDelay THEN 2 * DelaySecs[m - 1]
                     ELSE MaxDelay
  BY DelaySecsIs
<1>3. m > 1 => DelaySecs[m - 1] \in InitialDelay .. MaxDelay
  BY <1>1
<1> QED
  BY <1>1, <1>2, <1>3, DelayAssumption

-----------------------------------------------------------------------------

\* Only polls touch the account's row.
LEMMA OthersKeepPlan ==
  ASSUME \/ \E e \in Executors :
              \/ ClaimExpired(e) \/ ClaimForced(e) \/ ClaimNormal(e)
              \/ ClaimMetadata(e) \/ ClaimOne(e)
              \/ ExtendLease(e) \/ Finish(e) \/ Fail(e) \/ Release(e) \/ DropAttempt(e)
         \/ \E s \in Subjects : ForceRetry(s)
         \/ \E c \in Clients :
              \/ ReadDetail(c) \/ DropRead(c)
              \/ ConfirmCandidate(c) \/ AddManualCandidates(c) \/ UpdateDetail(c)
         \/ BackfillTitles
         \/ Tick
         \/ UNCHANGED vars
         \/ \E p \in Pollers : DropPoll(p)
  PROVE  meta' = meta /\ next_poll_at' = next_poll_at
<1>1. ASSUME NEW e, NEW s, PersistClaim(e, s)
      PROVE  UNCHANGED poll_vars
  BY <1>1 DEF PersistClaim
<1>2. ASSUME NEW e, \/ ClaimExpired(e) \/ ClaimForced(e) \/ ClaimNormal(e)
                    \/ ClaimMetadata(e) \/ ClaimOne(e)
      PROVE  UNCHANGED poll_vars
  BY <1>1, <1>2 DEF ClaimExpired, ClaimForced, ClaimNormal, ClaimMetadata, ClaimOne
<1>3. ASSUME NEW e, \/ ExtendLease(e) \/ Finish(e) \/ Fail(e) \/ Release(e) \/ DropAttempt(e)
      PROVE  UNCHANGED poll_vars
  BY <1>3 DEF ExtendLease, Finish, Fail, Release, DropAttempt, Settle
<1>4. ASSUME NEW c, \/ ReadDetail(c) \/ DropRead(c)
                    \/ ConfirmCandidate(c) \/ AddManualCandidates(c) \/ UpdateDetail(c)
      PROVE  UNCHANGED poll_vars
  BY <1>4 DEF ReadDetail, DropRead, ConfirmCandidate, AddManualCandidates, UpdateDetail,
     WriteBack
<1>5. (\E s \in Subjects : ForceRetry(s)) \/ BackfillTitles \/ Tick \/ UNCHANGED vars
        => UNCHANGED poll_vars
  BY DEF ForceRetry, BackfillTitles, Tick, vars, poll_vars
<1>6. (\E p \in Pollers : DropPoll(p)) => UNCHANGED <<meta, next_poll_at>>
  BY DEF DropPoll
<1>7. UNCHANGED poll_vars => UNCHANGED <<meta, next_poll_at>>
  BY DEF poll_vars
<1> QED
  BY <1>2, <1>3, <1>4, <1>5, <1>6, <1>7

\* The poll that ends sets the time of the next one, from the time it ends.
LEMMA ClosingKeepsBackoff ==
  ASSUME IInv, PInv, NEW p \in Pollers,
         ApplyCompleteSnapshot(p) \/ RecordIncompleteSnapshot(p) \/ RecordPollFailure(p)
  PROVE  PollBackoffBounded'
<1>1. IsCurrent(p)
  BY DEF ApplyCompleteSnapshot, RecordIncompleteSnapshot, RecordPollFailure
<1>2. PICK at \in Terminals(p) :
        \/ /\ meta' = CompletedMeta(pollers[p].generation, at)
           /\ next_poll_at' = at + PollInterval
        \/ /\ meta' = UnsuccessfulMeta(at)
           /\ next_poll_at' = NextPollAt(at, meta'.poll_failure_count)
  BY DEF ApplyCompleteSnapshot, RecordIncompleteSnapshot, RecordPollFailure
<1>3. at \in Nat /\ meta.poll_failure_count \in Nat
  BY <1>1, PollTypes, CurrentIsLast
<1>4. meta'.updated_at = at /\ meta'.poll_failure_count \in Nat
  BY <1>1, <1>2, <1>3, ClosedMetaFields
<1>5. \E delay \in InitialDelay .. MaxDelay : next_poll_at' = at + delay
  <2>1. MaxDelay \in InitialDelay .. MaxDelay
    BY DelayAssumption
  <2>2. CASE next_poll_at' = at + PollInterval
    BY <2>1, <2>2 DEF PollInterval
  <2>3. CASE next_poll_at' = NextPollAt(at, meta'.poll_failure_count)
    <3>1. DelaySecs[meta'.poll_failure_count] \in InitialDelay .. MaxDelay
      BY <1>4, DelayBounded
    <3> QED
      BY <2>3, <3>1 DEF NextPollAt
  <2> QED
    BY <1>2, <2>2, <2>3
<1> QED
  BY <1>3, <1>4, <1>5, DelayAssumption DEF PollBackoffBounded, PollInterval

\* Between polls the account waits at least a second and at most the interval, however
\* many polls have failed: `next_delay_secs` grows with the failures and no further.
THEOREM BackoffStaysBounded == Spec => []PollBackoffBounded
<1>1. Init => PollBackoffBounded
  BY DEF Init, PollBackoffBounded
<1>2. IInv /\ PInv /\ PollBackoffBounded /\ [Next]_vars => PollBackoffBounded'
  <2> SUFFICES ASSUME IInv, PInv, PollBackoffBounded, [Next]_vars
               PROVE  PollBackoffBounded'
    OBVIOUS
  <2>1. CASE \E p \in Pollers : BeginPoll(p)
    <3>1. PICK p \in Pollers, at \in Recent : meta' = NewMeta(at) \/ (meta # Null /\ meta' = BegunMeta(at))
      BY <2>1 DEF BeginPoll
    <3>2. meta'.open_poll_generation # Null
      <4>1. CASE meta' = NewMeta(at)
        BY <4>1, RowAssumption DEF NewMeta
      <4>2. CASE meta # Null /\ meta' = BegunMeta(at)
        BY <4>2, PollTypes, RowAssumption DEF BegunMeta, Metas
      <4> QED
        BY <3>1, <4>1, <4>2
    <3> QED
      BY <3>2 DEF PollBackoffBounded
  <2>2. CASE \E p \in Pollers : \/ ApplyCompleteSnapshot(p) \/ RecordIncompleteSnapshot(p)
                                \/ RecordPollFailure(p)
    BY <2>2, ClosingKeepsBackoff
  <2>3. ASSUME meta' = meta /\ next_poll_at' = next_poll_at
        PROVE  PollBackoffBounded'
    BY <2>3 DEF PollBackoffBounded
  <2> QED
    BY <2>1, <2>2, <2>3, OthersKeepPlan DEF Next
<1> QED
  BY <1>1, <1>2, Invariance, PollInvariance, PTL DEF Spec

-----------------------------------------------------------------------------
(* The repository implements the lifecycle, for any number of subjects and  *)
(* of actors.  Each form of a step is one step of the lifecycle: a claim    *)
(* grants, an outcome settles, a refused or dead executor vanishes, a user  *)
(* redirects, and a snapshot polls; everything else moves nothing.         *)

(* The stage, the kind and the attempt of a row.                           *)

SameStage(row, new) ==
  new.lifecycle_state = row.lifecycle_state /\ new.media_kind = row.media_kind

LEMMA RevisedStage ==
  ASSUME NEW row \in Rows
  PROVE  /\ Revised(row) \in Rows /\ Revised(row).claim = row.claim
         /\ SameStage(row, Revised(row))
BY RevisedKeeps DEF SameStage

LEMMA ClaimMadeStage ==
  ASSUME NEW row, RowOK(row), NEW new, NEW at, ClaimMade(row, new, at)
  PROVE  /\ row.lifecycle_state # "completed"
         /\ new.lifecycle_state =
              IF row.lifecycle_state = "queued" THEN "meta" ELSE row.lifecycle_state
         /\ new.media_kind = row.media_kind
<1>0. row \in Rows /\ row.lifecycle_state \in Lifecycles
  BY DEF RowOK, Rows
<1>1. row.lifecycle_state # "completed"
  BY DEF ClaimMade, RowOK, RowWellFormed, ExpiredCandidate, Eligible
<1>2. PICK id \in AttemptIds, lease \in Nat :
        \/ new = ClaimedRow(row, id, lease, at)
        \/ ExpiredCandidate(row, at) /\ new = ReclaimedRow(row, id, lease)
  BY DEF ClaimMade
<1>3. CASE new = ClaimedRow(row, id, lease, at)
  <2>1. /\ new.lifecycle_state = IF OperationOf(row.lifecycle_state) = "movie_meta"
                                 THEN "meta" ELSE row.lifecycle_state
        /\ new.media_kind = row.media_kind
    BY <1>0, <1>3, RevisedStage DEF ClaimedRow, SameStage, Rows
  <2> QED
    BY <1>0, <1>1, <2>1 DEF OperationOf, Lifecycles
<1>4. CASE ExpiredCandidate(row, at) /\ new = ReclaimedRow(row, id, lease)
  <2>1. row.claim.operation = OperationOf(row.lifecycle_state)
    BY <1>4 DEF ExpiredCandidate, RowOK, Loadable
  <2>2. /\ new.lifecycle_state = IF row.claim.operation = "movie_meta"
                                 THEN "meta" ELSE row.lifecycle_state
        /\ new.media_kind = row.media_kind
    BY <1>0, <1>4, RevisedStage DEF ReclaimedRow, SameStage, Rows
  <2> QED
    BY <1>0, <1>1, <2>1, <2>2 DEF OperationOf, Lifecycles
<1> QED
  BY <1>1, <1>2, <1>3, <1>4

LEMMA ExtendedStage ==
  ASSUME NEW row \in Rows, NEW new, Extended(row, new)
  PROVE  SameStage(row, new)
BY RevisedStage DEF Extended, ExtendedRow, SameStage, Rows

\* An outcome leads where the pipeline goes, and a failure or a release nowhere.
LEMMA SettledStage ==
  ASSUME NEW row, RowOK(row), row.lifecycle_state # "queued", NEW new, Settled(row, new)
  PROVE  /\ new.lifecycle_state
              \in Lifecycle!Successors(row.media_kind, row.lifecycle_state)
         /\ new.media_kind = row.media_kind
         /\ new.claim = Null
<1>0. row \in Rows /\ Revised(row) \in Rows /\ row.lifecycle_state \in Lifecycles
  BY RevisedStage DEF RowOK, Rows
<1>1. /\ row.claim # Null /\ row.claim.operation = OperationOf(row.lifecycle_state)
      /\ row.lifecycle_state # "completed"
  BY DEF Settled, RowOK, RowWellFormed, Eligible
<1>2. row.lifecycle_state \in Lifecycle!Successors(row.media_kind, row.lifecycle_state)
  BY <1>0, <1>1 DEF Lifecycle!Successors, Lifecycles
<1>3. ASSUME NEW work \in Attempts, NEW o \in FinishOutcomes(work), NEW delay, NEW at,
             work.operation = row.claim.operation, work.media_kind = row.media_kind,
             new = FinishedRow(row, o.disposition, o.delta, delay, at)
      PROVE  /\ new.lifecycle_state
                  \in Lifecycle!Successors(row.media_kind, row.lifecycle_state)
             /\ new.media_kind = row.media_kind /\ new.claim = Null
  <2>1. /\ new.lifecycle_state = NextLifecycle(o.disposition)
        /\ new.media_kind = row.media_kind /\ new.claim = Null
    BY <1>0, <1>3, RevisedStage DEF FinishedRow, SameStage, Rows
  <2>2. NextLifecycle(o.disposition)
          \in Lifecycle!Successors(row.media_kind, row.lifecycle_state)
    <3>1. IsWork(work)
      BY DEF Attempts, IsWork
    <3> QED
      BY <1>0, <1>1, <1>3, <3>1, FinishDispositions
      DEF Lifecycle!Successors, NextLifecycle, Lifecycles, OperationOf,
          ProgressDispositions, LinkDispositions
  <2> QED
    BY <2>1, <2>2
<1>4. ASSUME NEW delta, NEW delay, NEW at, new = FailedRow(row, delta, delay, at)
      PROVE  SameStage(row, new) /\ new.claim = Null
  BY <1>0, <1>4, RevisedStage DEF FailedRow, SameStage, Rows
<1>5. CASE new = ReleasedRow(row)
  BY <1>0, <1>5, <1>2, RevisedStage DEF ReleasedRow, SameStage, Rows
<1> QED
  BY <1>2, <1>3, <1>4, <1>5 DEF Settled, SameStage

LEMMA EditedStage ==
  ASSUME NEW row \in Rows, NEW new, Edited(row, new)
  PROVE  /\ new.media_kind = row.media_kind
         /\ \/ new.lifecycle_state = row.lifecycle_state
            \/ Idle(row) /\ new.lifecycle_state = "searching"
<1>0. Revised(row) \in Rows /\ SameStage(row, Revised(row))
  BY RevisedStage
<1>1. ASSUME NEW at \in Nat, CanForceRetry(row), new = ForceRetriedRow(row, at)
      PROVE  /\ new.media_kind = row.media_kind
             /\ new.lifecycle_state \in {row.lifecycle_state, "searching"} /\ Idle(row)
  BY <1>0, <1>1 DEF ForceRetriedRow, CanForceRetry, SameStage, Rows
<1>2. ASSUME NEW t \in Torrents, NEW replace \in BOOLEAN, NEW at \in Nat,
             CanConfirm(row, t, replace), new = ConfirmedRow(row, t, replace, at)
      PROVE  /\ new.media_kind = row.media_kind
             /\ new.lifecycle_state = "searching" /\ Idle(row)
  BY <1>0, <1>2 DEF ConfirmedRow, CanConfirm, SameStage, Rows
<1>3. ASSUME NEW found \in SUBSET Torrents, new = ManualCandidatesRow(row, found)
      PROVE  SameStage(row, new)
  <2>1. \E payload : new = [Revised(row) EXCEPT !.payload = payload]
    BY <1>0, <1>3 DEF ManualCandidatesRow, Rows
  <2> QED
    BY <1>0, <2>1 DEF SameStage, Rows
<1>4. ASSUME NEW detail, new = DetailRow(row, detail)
      PROVE  SameStage(row, new)
  BY <1>0, <1>4 DEF DetailRow, SameStage, Rows
<1>5. CASE new = TitleRow(row)
  BY <1>0, <1>5 DEF TitleRow, SameStage
<1> QED
  BY <1>1, <1>2, <1>3, <1>4, <1>5 DEF Edited, SameStage

LEMMA SightedStage ==
  ASSUME NEW row \in Rows, NEW new, NEW generation \in Nat, NEW at \in Nat,
         Sighted(row, new, generation, at)
  PROVE  \/ SameStage(row, new) /\ new.claim \in {row.claim, Null}
         \/ /\ row.media_kind = "movie" /\ new.media_kind = "tv"
            /\ new.lifecycle_state = "queued" /\ new.claim = Null
<1> DEFINE seen == RefreshedRow(row, generation, at)
<1>0. seen \in Rows /\ Revised(row) \in Rows
  BY RevisedStage, RefreshedType
<1>1. SameStage(row, seen) /\ seen.claim = row.claim
  BY <1>0, RevisedStage DEF RefreshedRow, SameStage, Rows
<1>2. CASE new = DeactivatedRow(row)
  BY <1>0, <1>2, RevisedStage DEF DeactivatedRow, SameStage, Rows
<1>3. ASSUME NEW observed \in Observations, KindChanged(row, observed),
             new = TvResetRow(row, observed, generation, at)
      PROVE  /\ row.media_kind = "movie" /\ new.media_kind = "tv"
             /\ new.lifecycle_state = "queued" /\ new.claim = Null
  <2>1. row.media_kind = "movie"
    BY <1>3 DEF KindChanged, MergedKind, Rows
  <2>2. new.media_kind = "tv" /\ new.lifecycle_state = "queued" /\ new.claim = Null
    BY <1>0, <1>3 DEF TvResetRow, Rows, seen
  <2> QED
    BY <2>1, <2>2
<1>4. ASSUME NEW observed \in Observations, new = ReactivatedRow(row, observed, generation, at)
      PROVE  SameStage(row, new) /\ new.claim = Null
  BY <1>0, <1>1, <1>4 DEF ReactivatedRow, SameStage, Rows, seen
<1> HIDE DEF seen
<1> QED
  BY <1>1, <1>2, <1>3, <1>4 DEF Sighted, SeenRow, seen

LEMMA InsertedStage ==
  ASSUME NEW new, NEW generation, NEW at, Inserted(new, generation, at)
  PROVE  /\ new.lifecycle_state = "queued" /\ new.media_kind \in {"movie", "tv"}
         /\ new.claim = Null
BY DEF Inserted, InsertedRow, Observations

-----------------------------------------------------------------------------
(* An attempt leaves the queue as it is granted.                           *)

Started == \A s \in Stored : ~Idle(rows[s]) => rows[s].lifecycle_state # "queued"

LEMMA StartedKept ==
  ASSUME IInv, Started, [Next]_vars
  PROVE  Started'
<1> SUFFICES ASSUME NEW s \in Stored', rows'[s].claim # Null
             PROVE  rows'[s].lifecycle_state # "queued"
  BY DEF Started, Idle
<1>0. s \in Subjects /\ rows'[s] # Null
  BY DEF Stored
<1>1. rows[s] # Null => /\ RowOK(rows[s]) /\ rows[s] \in Rows
                        /\ rows[s].claim # Null => rows[s].lifecycle_state # "queued"
  BY <1>0, StoredRow DEF Stored, Started, Idle
<1>2. CASE rows'[s] = rows[s]
  BY <1>0, <1>1, <1>2
<1>3. ASSUME NEW generation \in Nat, NEW at \in Nat, Inserted(rows'[s], generation, at)
      PROVE  rows'[s].lifecycle_state # "queued"
  BY <1>3, InsertedStage
<1>4. ASSUME rows[s] # Null, NEW at \in Nat, ClaimMade(rows[s], rows'[s], at)
      PROVE  rows'[s].lifecycle_state # "queued"
  BY <1>1, <1>4, ClaimMadeStage
<1>5. CASE rows[s] # Null /\ Extended(rows[s], rows'[s])
  BY <1>1, <1>5, ExtendedStage DEF Extended, SameStage
<1>6. CASE rows[s] # Null /\ Settled(rows[s], rows'[s])
  <2>1. rows[s].claim # Null
    BY <1>6 DEF Settled
  <2> QED
    BY <1>1, <1>6, <2>1, SettledStage
<1>7. CASE rows[s] # Null /\ Edited(rows[s], rows'[s])
  BY <1>1, <1>7, EditedStage, EditedClaim DEF Idle
<1>8. ASSUME rows[s] # Null, NEW generation \in Nat, NEW at \in Nat,
             Sighted(rows[s], rows'[s], generation, at)
      PROVE  rows'[s].lifecycle_state # "queued"
  BY <1>1, <1>8, SightedStage DEF SameStage
<1> QED
  BY <1>0, <1>2, <1>3, <1>4, <1>5, <1>6, <1>7, <1>8, RowSteps DEF RowStep

-----------------------------------------------------------------------------
(* What the lifecycle sees of one subject.                                 *)

RowSeen(s) ==
  /\ rows'[s] # Null /\ rows[s] # Null
  /\ SameStage(rows[s], rows'[s])
  /\ Idle(rows'[s]) <=> Idle(rows[s])

OwnersSeen(s) == \A e \in Executors : Holds(e, s)' <=> Holds(e, s)

LEMMA Views ==
  ASSUME NEW s \in Subjects
  PROVE  /\ Stage[s] = IF rows[s] = Null THEN "absent" ELSE rows[s].lifecycle_state
         /\ Kind[s] = IF rows[s] = Null THEN "none" ELSE rows[s].media_kind
         /\ Busy[s] = (rows[s] # Null /\ ~Idle(rows[s]))
         /\ Owner[s] = {e \in Executors : Holds(e, s)}
         /\ Stage'[s] = IF rows'[s] = Null THEN "absent" ELSE rows'[s].lifecycle_state
         /\ Kind'[s] = IF rows'[s] = Null THEN "none" ELSE rows'[s].media_kind
         /\ Busy'[s] = (rows'[s] # Null /\ ~Idle(rows'[s]))
         /\ Owner'[s] = {e \in Executors : Holds(e, s)'}
BY DEF Stage, Kind, Busy, Owner

LEMMA SameViews ==
  ASSUME NEW s \in Subjects, rows'[s] = rows[s] \/ RowSeen(s)
  PROVE  Stage'[s] = Stage[s] /\ Kind'[s] = Kind[s] /\ Busy'[s] = Busy[s]
BY Views DEF RowSeen, SameStage

LEMMA SameOwner ==
  ASSUME NEW s \in Subjects, OwnersSeen(s)
  PROVE  Owner'[s] = Owner[s]
BY Views DEF OwnersSeen

\* A view that differs in one place.
LEMMA ViewsAreFunctions ==
  /\ Stage = [s \in Subjects |-> Stage[s]] /\ Stage' = [s \in Subjects |-> Stage'[s]]
  /\ Kind = [s \in Subjects |-> Kind[s]] /\ Kind' = [s \in Subjects |-> Kind'[s]]
  /\ Busy = [s \in Subjects |-> Busy[s]] /\ Busy' = [s \in Subjects |-> Busy'[s]]
  /\ Owner = [s \in Subjects |-> Owner[s]] /\ Owner' = [s \in Subjects |-> Owner'[s]]
BY DEF Stage, Kind, Busy, Owner

LEMMA AllSeenStutters ==
  ASSUME \A s \in Subjects : rows'[s] = rows[s] \/ RowSeen(s),
         \A s \in Subjects : OwnersSeen(s)
  PROVE  UNCHANGED Lifecycle!vars
<1>1. \A s \in Subjects : /\ Stage'[s] = Stage[s] /\ Kind'[s] = Kind[s]
                          /\ Busy'[s] = Busy[s] /\ Owner'[s] = Owner[s]
  BY SameViews, SameOwner
<1>2. Stage' = Stage /\ Kind' = Kind /\ Busy' = Busy /\ Owner' = Owner
  BY <1>1, ViewsAreFunctions, Zenon
<1> QED
  BY <1>2 DEF Lifecycle!vars

\* Rows and executors that a step leaves alone look the same.
LEMMA OwnerElsewhere ==
  ASSUME NEW e \in Executors, NEW r \in Subjects, OnlyExecutor(e), rows'[r] = rows[r],
         ~Holds(e, r), ~Holds(e, r)'
  PROVE  OwnersSeen(r)
<1> SUFFICES ASSUME NEW d \in Executors
             PROVE  Holds(d, r)' <=> Holds(d, r)
  BY DEF OwnersSeen
<1>1. CASE d = e
  BY <1>1
<1>2. CASE d # e
  BY <1>2 DEF OnlyExecutor, Holds
<1> QED
  BY <1>1, <1>2

-----------------------------------------------------------------------------
(* Each form of a step is a step of the lifecycle.                         *)

LEMMA GrantImplements ==
  ASSUME IInv, Grows, NEW e \in Executors, NEW s \in Stored, GrantStep(e, s)
  PROVE  Lifecycle!Grant(e, s)
<1>0. /\ s \in Subjects /\ rows[s] # Null /\ RowOK(rows[s]) /\ rows'[s] # Null
      /\ ClaimMade(rows[s], rows'[s], now) /\ OnlyRow(s)
      /\ rows'[s].claim # Null
      /\ executors[e] = Null /\ executors'[e] # Null /\ OnlyExecutor(e)
      /\ executors'[e].subject = s
      /\ executors'[e].attempt_id = rows'[s].claim.attempt_id
      /\ \A d \in InFlight : executors[d].attempt_id # rows'[s].claim.attempt_id
  BY StoredRow DEF GrantStep, Stored, Grows
<1>1. /\ rows[s].lifecycle_state # "completed"
      /\ rows[s].lifecycle_state \in Lifecycles
      /\ rows'[s].lifecycle_state =
           IF rows[s].lifecycle_state = "queued" THEN "meta" ELSE rows[s].lifecycle_state
      /\ rows'[s].media_kind = rows[s].media_kind
  BY <1>0, ClaimMadeStage DEF RowOK, Rows
<1>2. Stage[s] \notin {"absent", "completed"}
  BY <1>0, <1>1, Views DEF Lifecycles
<1>3. \A r \in Subjects : ~Holds(e, r)
  BY <1>0 DEF Holds
<1>4. \A r \in Subjects : e \notin Owner[r]
  BY <1>3, Views
<1>5. ASSUME NEW r \in Subjects \ {s}
      PROVE  /\ Stage'[r] = Stage[r] /\ Kind'[r] = Kind[r] /\ Busy'[r] = Busy[r]
             /\ Owner'[r] = Owner[r]
  <2>1. rows'[r] = rows[r] /\ ~Holds(e, r)'
    BY <1>0 DEF OnlyRow, Holds
  <2> QED
    BY <1>0, <1>3, <2>1, SameViews, OwnerElsewhere, SameOwner
<1>6. /\ Stage'[s] = IF Stage[s] = "queued" THEN "meta" ELSE Stage[s]
      /\ Kind'[s] = Kind[s] /\ Busy'[s] = TRUE
  BY <1>0, <1>1, Views DEF Idle
<1>7. Owner'[s] = {e}
  <2>1. Holds(e, s)'
    BY <1>0 DEF Holds
  <2>2. \A d \in Executors \ {e} : ~Holds(d, s)'
    BY <1>0 DEF Holds, OnlyExecutor, InFlight
  <2> QED
    BY <1>0, <2>1, <2>2, Views
<1>8. /\ Stage' = [Stage EXCEPT ![s] = IF @ = "queued" THEN "meta" ELSE @]
      /\ Busy' = [Busy EXCEPT ![s] = TRUE]
      /\ Owner' = [Owner EXCEPT ![s] = {e}]
      /\ Kind' = Kind
  BY <1>0, <1>5, <1>6, <1>7, ViewsAreFunctions
<1> QED
  BY <1>2, <1>4, <1>8 DEF Lifecycle!Grant

LEMMA ExtensionStutters ==
  ASSUME IInv, Grows, NEW e \in Executors, NEW s \in Stored, ExtensionStep(e, s)
  PROVE  UNCHANGED Lifecycle!vars
<1>0. /\ s \in Subjects /\ rows[s] # Null /\ rows[s] \in Rows /\ rows'[s] # Null
      /\ Extended(rows[s], rows'[s]) /\ OnlyRow(s) /\ Holds(e, s)
      /\ rows'[s].claim # Null
      /\ rows'[s].claim.attempt_id = rows[s].claim.attempt_id
      /\ executors'[e] # Null /\ OnlyExecutor(e)
      /\ executors'[e].subject = s
      /\ executors'[e].attempt_id = executors[e].attempt_id
  BY StoredRow DEF ExtensionStep, Stored, Grows
<1>1. RowSeen(s)
  BY <1>0, ExtendedStage DEF RowSeen, Extended, Idle
<1>2. OwnersSeen(s)
  BY <1>0 DEF OwnersSeen, Holds, OnlyExecutor
<1>3. ASSUME NEW r \in Subjects \ {s}
      PROVE  rows'[r] = rows[r] /\ OwnersSeen(r)
  <2>1. rows'[r] = rows[r] /\ ~Holds(e, r) /\ ~Holds(e, r)'
    BY <1>0 DEF OnlyRow, Holds
  <2> QED
    BY <1>0, <2>1, OwnerElsewhere
<1> QED
  BY <1>1, <1>2, <1>3, AllSeenStutters

LEMMA SettleImplements ==
  ASSUME IInv, Grows, Started, NEW e \in Executors, NEW s \in Stored, SettleStepOf(e, s)
  PROVE  Lifecycle!Settle(e, s)
<1>0. /\ s \in Subjects /\ rows[s] # Null /\ RowOK(rows[s]) /\ rows'[s] # Null
      /\ Settled(rows[s], rows'[s]) /\ OnlyRow(s) /\ Holds(e, s)
      /\ executors'[e] = Null /\ OnlyExecutor(e)
  BY StoredRow DEF SettleStepOf, Stored, Grows
<1>1. /\ rows'[s].lifecycle_state
           \in Lifecycle!Successors(rows[s].media_kind, rows[s].lifecycle_state)
      /\ rows'[s].media_kind = rows[s].media_kind
      /\ rows'[s].claim = Null
  <2>1. rows[s].lifecycle_state # "queued"
    BY <1>0 DEF Started, Settled, Idle
  <2> QED
    BY <1>0, <2>1, SettledStage
<1>2. e \in Owner[s]
  BY <1>0, Views
<1>3. /\ Stage'[s] \in Lifecycle!Successors(Kind[s], Stage[s])
      /\ Kind'[s] = Kind[s] /\ Busy'[s] = FALSE /\ Owner'[s] = {}
  BY <1>0, <1>1, Views DEF Idle, Holds
<1>4. ASSUME NEW r \in Subjects \ {s}
      PROVE  /\ Stage'[r] = Stage[r] /\ Kind'[r] = Kind[r] /\ Busy'[r] = Busy[r]
             /\ Owner'[r] = Owner[r]
  <2>1. rows'[r] = rows[r] /\ ~Holds(e, r) /\ ~Holds(e, r)'
    BY <1>0 DEF OnlyRow, Holds
  <2> QED
    BY <1>0, <2>1, SameViews, OwnerElsewhere, SameOwner
<1>5. /\ Stage' = [Stage EXCEPT ![s] = Stage'[s]]
      /\ Busy' = [Busy EXCEPT ![s] = FALSE]
      /\ Owner' = [Owner EXCEPT ![s] = {}]
      /\ Kind' = Kind
  BY <1>0, <1>3, <1>4, ViewsAreFunctions
<1> QED
  BY <1>2, <1>3, <1>5 DEF Lifecycle!Settle

\* Only a user's choice moves a stage here, and only while nothing runs.
LEMMA EditImplements ==
  ASSUME IInv, Grows, EditStep
  PROVE  UNCHANGED Lifecycle!vars \/ \E s \in Subjects : Lifecycle!Redirect(s)
<1>0. ASSUME NEW s \in Subjects
      PROVE  \/ rows'[s] = rows[s]
             \/ /\ rows[s] # Null /\ rows[s] \in Rows /\ rows'[s] # Null
                /\ Edited(rows[s], rows'[s])
  BY StoredRow DEF EditStep, Stored, Grows
<1>1. ASSUME NEW s \in Subjects
      PROVE  OwnersSeen(s)
  <2>1. executors' = executors /\ rows'[s].claim = rows[s].claim
    BY <1>0, EditedClaim DEF EditStep
  <2> QED
    BY <2>1 DEF OwnersSeen, Holds
<1>2. PICK s \in Subjects : \A r \in Subjects \ {s} : rows'[r] \in {rows[r], TitleRow(rows[r])}
  BY DEF EditStep
<1>3. ASSUME NEW r \in Subjects \ {s}
      PROVE  rows'[r] = rows[r] \/ RowSeen(r)
  <2>1. CASE rows'[r] # rows[r]
    <3>1. /\ rows[r] # Null /\ rows[r] \in Rows /\ rows'[r] # Null
          /\ rows'[r] = TitleRow(rows[r])
      BY <1>0, <1>2, <2>1
    <3> QED
      BY <3>1, RevisedStage DEF TitleRow, RowSeen, Idle
  <2> QED
    BY <2>1
<1>4. CASE rows'[s] = rows[s] \/ RowSeen(s)
  BY <1>1, <1>3, <1>4, AllSeenStutters
<1>5. CASE ~(rows'[s] = rows[s] \/ RowSeen(s))
  <2>1. /\ rows[s] # Null /\ rows'[s] # Null /\ rows[s] \in Rows
        /\ rows'[s].claim = rows[s].claim
        /\ rows'[s].media_kind = rows[s].media_kind
        /\ \/ rows'[s].lifecycle_state = rows[s].lifecycle_state
           \/ Idle(rows[s]) /\ rows'[s].lifecycle_state = "searching"
    BY <1>0, <1>5, EditedStage, EditedClaim
  <2>2. Idle(rows[s]) /\ rows'[s].lifecycle_state = "searching"
    BY <1>5, <2>1 DEF RowSeen, SameStage, Idle
  <2>3. /\ Stage[s] # "absent" /\ ~Busy[s] /\ Stage'[s] = "searching"
        /\ Kind'[s] = Kind[s] /\ Busy'[s] = Busy[s] /\ Owner'[s] = Owner[s]
    <3>1. rows[s].lifecycle_state # "absent"
      BY <2>1 DEF Rows, Lifecycles
    <3> QED
      BY <1>1, <2>1, <2>2, <3>1, Views, SameOwner DEF Idle
  <2>4. \A r \in Subjects \ {s} : /\ Stage'[r] = Stage[r] /\ Kind'[r] = Kind[r]
                                  /\ Busy'[r] = Busy[r] /\ Owner'[r] = Owner[r]
    BY <1>1, <1>3, SameViews, SameOwner
  <2>5. /\ Stage' = [Stage EXCEPT ![s] = "searching"]
        /\ Kind' = Kind /\ Busy' = Busy /\ Owner' = Owner
    BY <2>3, <2>4, ViewsAreFunctions
  <2> QED
    BY <2>3, <2>5 DEF Lifecycle!Redirect
<1> QED
  BY <1>4, <1>5

LEMMA SnapshotImplements ==
  ASSUME IInv, IInv', Grows, NEW p \in Pollers, SnapshotStep(p)
  PROVE  Lifecycle!Poll
<1>0. /\ RevokeCleared /\ pollers[p].generation \in Nat
      /\ \A at \in Terminals(p) : at \in Nat
  BY CurrentPoll DEF SnapshotStep, Polls
<1>1. ASSUME NEW s \in Subjects
      PROVE  \/ rows'[s] = rows[s]
             \/ /\ rows[s] = Null /\ rows'[s] # Null
                /\ \E at : Inserted(rows'[s], pollers[p].generation, at)
             \/ /\ rows[s] # Null /\ rows[s] \in Rows /\ rows'[s] # Null
                /\ \E at \in Nat : Sighted(rows[s], rows'[s], pollers[p].generation, at)
  BY <1>0, StoredRow DEF SnapshotStep, Stored, Grows
<1>2. ASSUME NEW e \in Executors
      PROVE  /\ executors'[e] # Null <=> executors[e] # Null
             /\ executors[e] # Null =>
                  /\ executors'[e].subject = executors[e].subject
                  /\ executors'[e].attempt_id = executors[e].attempt_id
  <2>1. executors[e] # Null => executors[e] \in Attempts
    BY DEF IInv, TypeOK
  <2>2. executors'[e] \in {executors[e], [executors[e] EXCEPT !.revoked = TRUE]}
    BY <1>0 DEF RevokeCleared
  <2>3. executors[e] = Null => executors'[e] = Null
    BY <1>0 DEF RevokeCleared
  <2>4. executors[e] # Null => [executors[e] EXCEPT !.revoked = TRUE] \in Attempts
    BY <2>1 DEF Attempts
  <2> QED
    BY <2>1, <2>2, <2>3, <2>4, NullAssumption DEF Attempts
<1>3. ASSUME NEW s \in Subjects, rows'[s].claim = rows[s].claim
      PROVE  OwnersSeen(s)
  BY <1>2, <1>3 DEF OwnersSeen, Holds
<1>4. ASSUME NEW s \in Subjects, rows'[s] # Null, rows'[s].claim = Null
      PROVE  Busy'[s] = FALSE /\ Owner'[s] = {}
  BY <1>4, Views DEF Idle, Holds
<1>5. ASSUME NEW s \in Subjects
      PROVE  \/ Lifecycle!Untouched(s) \/ Lifecycle!Appears(s)
             \/ Lifecycle!Revoked(s) \/ Lifecycle!Reclassified(s)
  <2>1. CASE rows'[s] = rows[s]
    BY <1>3, <2>1, SameViews, SameOwner DEF Lifecycle!Untouched
  <2>2. ASSUME rows[s] = Null, rows'[s] # Null, NEW at,
               Inserted(rows'[s], pollers[p].generation, at)
        PROVE  Lifecycle!Appears(s)
    BY <1>4, <2>2, InsertedStage, Views DEF Lifecycle!Appears, Lifecycle!Idle
  <2>3. ASSUME rows[s] # Null, rows[s] \in Rows, rows'[s] # Null, NEW at \in Nat,
               Sighted(rows[s], rows'[s], pollers[p].generation, at)
        PROVE  \/ Lifecycle!Untouched(s) \/ Lifecycle!Revoked(s) \/ Lifecycle!Reclassified(s)
    <3>1. CASE SameStage(rows[s], rows'[s]) /\ rows'[s].claim = rows[s].claim
      <4>1. RowSeen(s)
        BY <2>3, <3>1 DEF RowSeen, Idle
      <4> QED
        BY <1>3, <3>1, <4>1, SameViews, SameOwner DEF Lifecycle!Untouched
    <3>2. CASE SameStage(rows[s], rows'[s]) /\ rows'[s].claim = Null
      BY <1>4, <2>3, <3>2, Views DEF SameStage, Lifecycle!Revoked, Lifecycle!Idle
    <3>3. CASE /\ rows[s].media_kind = "movie" /\ rows'[s].media_kind = "tv"
               /\ rows'[s].lifecycle_state = "queued" /\ rows'[s].claim = Null
      BY <1>4, <2>3, <3>3, Views DEF Lifecycle!Reclassified, Lifecycle!Idle
    <3> QED
      BY <1>0, <2>3, <3>1, <3>2, <3>3, SightedStage
  <2> QED
    BY <1>1, <2>1, <2>2, <2>3
<1>6. /\ Stage' \in [Subjects -> Lifecycle!Stages]
      /\ Kind' \in [Subjects -> {"none", "movie", "tv"}]
      /\ Busy' \in [Subjects -> BOOLEAN]
      /\ Owner' \in [Subjects -> SUBSET Executors]
  <2>1. ASSUME NEW s \in Subjects
        PROVE  /\ Stage'[s] \in Lifecycle!Stages /\ Kind'[s] \in {"none", "movie", "tv"}
               /\ Busy'[s] \in BOOLEAN /\ Owner'[s] \in SUBSET Executors
    <3>1. rows'[s] # Null => rows'[s] \in Rows
      BY DEF IInv, TypeOK
    <3> QED
      BY <3>1, Views DEF Rows, Lifecycles, Lifecycle!Stages
  <2> QED
    BY <2>1, ViewsAreFunctions
<1> QED
  BY <1>5, <1>6 DEF Lifecycle!Poll

\* An executor that no longer holds its row leaves nobody's sight as it ends.
LEMMA RowlessImplements ==
  ASSUME IInv, RowlessStep
  PROVE  \/ UNCHANGED Lifecycle!vars
         \/ \E e \in Executors, s \in Subjects : Lifecycle!Vanish(e, s)
<1>1. rows' = rows
  BY DEF RowlessStep
<1>2. CASE executors' = executors
  <2>1. \A s \in Subjects : OwnersSeen(s)
    BY <1>1, <1>2 DEF OwnersSeen, Holds
  <2> QED
    BY <1>1, <2>1, AllSeenStutters
<1>3. ASSUME NEW e \in InFlight, executors'[e] = Null, OnlyExecutor(e)
      PROVE  \/ UNCHANGED Lifecycle!vars
             \/ \E s \in Subjects : Lifecycle!Vanish(e, s)
  <2> PICK s \in Subjects : s = executors[e].subject
    BY DEF InFlight, IInv, ReferencesOK, Stored
  <2>0. e \in Executors
    BY DEF InFlight
  <2>1. ASSUME NEW r \in Subjects, ~Holds(e, r)
        PROVE  OwnersSeen(r)
    BY <1>1, <1>3, <2>0, <2>1, OwnerElsewhere DEF Holds
  <2>2. CASE ~Holds(e, s)
    <3>1. \A r \in Subjects : ~Holds(e, r)
      BY <2>2 DEF Holds
    <3> QED
      BY <1>1, <2>1, <3>1, AllSeenStutters
  <2>3. CASE Holds(e, s)
    <3>1. \A r \in Subjects \ {s} : OwnersSeen(r)
      BY <2>1 DEF Holds
    <3>2. \A d \in Executors \ {e} : ~Holds(d, s)
      BY <2>0, <2>3 DEF Holds, InFlight, IInv, OneHolder
    <3>3. \A d \in Executors : ~Holds(d, s)'
      BY <1>1, <1>3, <2>0, <3>2 DEF Holds, OnlyExecutor
    <3>4. e \in Owner[s] /\ Owner'[s] = {}
      BY <2>0, <2>3, <3>3, Views
    <3>5. \A r \in Subjects : /\ Stage'[r] = Stage[r] /\ Kind'[r] = Kind[r]
                              /\ Busy'[r] = Busy[r]
                              /\ r # s => Owner'[r] = Owner[r]
      BY <1>1, <3>1, SameViews, SameOwner
    <3>6. /\ Owner' = [Owner EXCEPT ![s] = {}]
          /\ Stage' = Stage /\ Kind' = Kind /\ Busy' = Busy
      BY <2>0, <3>4, <3>5, ViewsAreFunctions
    <3> QED
      BY <2>0, <3>4, <3>6 DEF Lifecycle!Vanish
  <2> QED
    BY <2>2, <2>3
<1>4. InFlight \subseteq Executors
  BY DEF InFlight
<1> QED
  BY <1>2, <1>3, <1>4 DEF RowlessStep

-----------------------------------------------------------------------------

LEMMA InitImplements == Init => Lifecycle!Init
BY DEF Init, Lifecycle!Init, Stage, Kind, Busy, Owner, Holds

LEMMA NextImplements ==
  IInv /\ Started /\ [Next]_vars => [Lifecycle!Next]_(Lifecycle!vars)
<1> SUFFICES ASSUME IInv, Started, [Next]_vars
             PROVE  Lifecycle!Next \/ UNCHANGED Lifecycle!vars
  OBVIOUS
<1>1. IInv' /\ Grows
  BY NextIInv
<1>2. \A s \in Stored : s \in Subjects
  BY DEF Stored
<1>3. ASSUME NEW e \in Executors, NEW s \in Stored,
             GrantStep(e, s) \/ ExtensionStep(e, s) \/ SettleStepOf(e, s)
      PROVE  Lifecycle!Next \/ UNCHANGED Lifecycle!vars
  BY <1>1, <1>2, <1>3, GrantImplements, ExtensionStutters, SettleImplements
  DEF Lifecycle!Next
<1>4. CASE EditStep
  BY <1>1, <1>4, EditImplements DEF Lifecycle!Next
<1>5. ASSUME NEW p \in Pollers, SnapshotStep(p)
      PROVE  Lifecycle!Next
  BY <1>1, <1>5, SnapshotImplements DEF Lifecycle!Next
<1>6. CASE RowlessStep
  BY <1>6, RowlessImplements DEF Lifecycle!Next
<1> QED
  BY <1>3, <1>4, <1>5, <1>6, StepForms

\* The repository implements the lifecycle: whatever executors, pollers, clients and
\* the clock do, a stage moves only when the one executor that owns the row settles
\* it, when a user redirects an idle row, or when a poll finds something new.
THEOREM RepositoryImplementsLifecycle == Spec => ImplementsLifecycle
<1>1. Init => Started
  BY DEF Init, Started, Stored
<1>2. IInv /\ Started /\ [Next]_vars => Started'
  BY StartedKept
<1>3. Spec => []Started
  BY <1>1, <1>2, Invariance, PTL DEF Spec
<1> QED
  BY <1>3, InitImplements, NextImplements, Invariance, PTL
  DEF Spec, ImplementsLifecycle, Lifecycle!Spec
=============================================================================
