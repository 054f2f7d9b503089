---------------------- MODULE SubscriptionWorkerProofs ----------------------
(***************************************************************************)
(* A change of the configuration takes effect with the next turn.  What a   *)
(* turn may still claim on the configuration it began with is what is left  *)
(* of its two batches, and a batch counts what it claims.                  *)
(***************************************************************************)
EXTENDS SubscriptionWorker, FiniteSetTheorems, TLAPS

WorkerTyped ==
  /\ {"pc", "snapshot", "next", "sleep", "claimed", "drained", "live", "orphans"}
       \subseteq DOMAIN worker
  /\ worker.claimed \in 0 .. Batch
  /\ IsFiniteSet(worker.live) /\ worker.orphans \in Nat
  /\ stale \in Nat

\* The claims that the turn can have made by now.
MostClaims(w) ==
  IF w.pc = "metadata" THEN w.claimed
  ELSE IF w.pc \in {"watch", "fetch"} THEN Batch
  ELSE IF w.pc = "due" THEN Batch + w.claimed
  ELSE 2 * Batch

WorkerInv ==
  /\ WorkerTyped
  /\ ChangesTakeEffect
  /\ worker.snapshot # config => stale <= MostClaims(worker)

\* A step after which no more has been claimed, and the turn can have made as many.
LEMMA NoClaimKeeps ==
  ASSUME WorkerInv,
         {"pc", "snapshot", "next", "sleep", "claimed", "drained", "live", "orphans"}
           \subseteq DOMAIN worker',
         worker'.claimed \in 0 .. Batch, stale' \in {0, stale},
         \/ worker'.live = {} /\ worker'.orphans = 0
         \/ /\ worker'.live \subseteq worker.live
            /\ worker'.orphans \in Nat /\ worker'.orphans <= worker.orphans,
         \/ stale' = 0 \/ worker'.snapshot = config' \/ MostClaims(worker)' = 2 * Batch
         \/ /\ worker'.snapshot = worker.snapshot /\ config' = config
            /\ MostClaims(worker) <= MostClaims(worker)'
  PROVE  WorkerInv'
<1> DEFINE before == Cardinality(worker.live)
           after == Cardinality(worker'.live)
<1>1. Batch \in Nat /\ Concurrency \in Nat
  BY OptionsAssumption
<1>2. before \in Nat /\ before + worker.orphans <= Concurrency
  BY FS_CardinalityType DEF WorkerInv, WorkerTyped, ChangesTakeEffect, Tasks
<1>3. IsFiniteSet(worker'.live) /\ after \in Nat /\ after + worker'.orphans <= Concurrency
      /\ worker'.orphans \in Nat
  <2>1. CASE worker'.live = {} /\ worker'.orphans = 0
    BY <1>1, <2>1, FS_EmptySet
  <2>2. CASE /\ worker'.live \subseteq worker.live
             /\ worker'.orphans \in Nat /\ worker'.orphans <= worker.orphans
    <3>1. IsFiniteSet(worker'.live) /\ after <= before /\ after \in Nat
      BY <2>2, FS_Subset, FS_CardinalityType DEF WorkerInv, WorkerTyped
    <3>2. worker.orphans \in Nat
      BY DEF WorkerInv, WorkerTyped
    <3> HIDE DEF before, after
    <3> QED
      BY <1>1, <1>2, <2>2, <3>1, <3>2 DEF WorkerInv, WorkerTyped
  <2> QED
    BY <2>1, <2>2
<1>4. stale' \in Nat /\ stale' <= 2 * Batch
  BY <1>1 DEF WorkerInv, WorkerTyped, ChangesTakeEffect
<1>5. Tasks(worker)' = after + worker'.orphans
  BY DEF Tasks
<1>6. MostClaims(worker)' \in Nat /\ MostClaims(worker) \in Nat
  BY <1>1 DEF MostClaims, WorkerInv, WorkerTyped
<1>7. worker'.snapshot # config' => stale' <= MostClaims(worker)'
  BY <1>1, <1>4, <1>6 DEF WorkerInv, WorkerTyped
<1> QED
  BY <1>3, <1>4, <1>5, <1>7 DEF WorkerInv, WorkerTyped, ChangesTakeEffect

LEMMA ClaimKeeps ==
  ASSUME WorkerInv, Claim
  PROVE  WorkerInv'
<1>0. /\ Batch \in Nat /\ Concurrency \in Nat /\ UNCHANGED config
      /\ worker.pc \in {"metadata", "due"} /\ worker.claimed < Batch
      /\ Tasks(worker) < Concurrency
  BY OptionsAssumption DEF Claim, outside, InBatch, At, Room
<1>1. PICK r \in Claimable :
        worker' = [worker EXCEPT
                     !.claimed = Minimum(@ + 1, Batch),
                     !.live = @ \cup {r},
                     !.orphans = @ + (IF r \in worker.live THEN 1 ELSE 0)]
  BY DEF Claim
<1>2. /\ DOMAIN worker' = DOMAIN worker /\ worker'.pc = worker.pc
      /\ worker'.snapshot = worker.snapshot
      /\ worker'.claimed = worker.claimed + 1 /\ worker'.live = worker.live \cup {r}
      /\ worker'.orphans = worker.orphans + (IF r \in worker.live THEN 1 ELSE 0)
  BY <1>0, <1>1 DEF WorkerInv, WorkerTyped, Minimum
<1>3. /\ stale' = stale \/ (worker.snapshot # config /\ stale' = stale + 1)
      /\ stale' \in Nat /\ stale' <= 2 * Batch
      /\ worker.snapshot # config => stale' <= MostClaims(worker)'
  <2>1. CASE worker.snapshot = config
    BY <1>0, <2>1 DEF Claim, WorkerInv, WorkerTyped, ChangesTakeEffect
  <2>2. CASE worker.snapshot # config
    <3>1. stale <= MostClaims(worker) /\ stale' = Minimum(stale + 1, 2 * Batch + 1)
      BY <2>2 DEF Claim, WorkerInv
    <3>2. CASE worker.pc = "metadata"
      BY <1>0, <1>2, <2>2, <3>1, <3>2 DEF MostClaims, WorkerInv, WorkerTyped, Minimum
    <3>3. CASE worker.pc = "due"
      BY <1>0, <1>2, <2>2, <3>1, <3>3 DEF MostClaims, WorkerInv, WorkerTyped, Minimum
    <3> QED
      BY <1>0, <3>2, <3>3
  <2> QED
    BY <2>1, <2>2
<1>4. IsFiniteSet(worker'.live) /\ Tasks(worker)' <= Concurrency
  <2> DEFINE live == worker.live
             before == Cardinality(live)
             after == Cardinality(live \cup {r})
  <2>1. IsFiniteSet(live) /\ before \in Nat /\ worker.orphans \in Nat
        /\ before + worker.orphans < Concurrency
    BY <1>0, FS_CardinalityType DEF WorkerInv, WorkerTyped, Tasks
  <2>2. IsFiniteSet(live \cup {r}) /\ after = IF r \in live THEN before ELSE before + 1
    BY <2>1, FS_AddElement
  <2>3. Tasks(worker)' = after + worker'.orphans
    BY <1>2 DEF Tasks
  <2> HIDE DEF live, before, after
  <2>4. after + worker'.orphans <= Concurrency
    BY <1>0, <1>2, <2>1, <2>2 DEF live
  <2> QED
    BY <1>2, <2>2, <2>3, <2>4 DEF live
<1> QED
  BY <1>0, <1>2, <1>3, <1>4 DEF WorkerInv, WorkerTyped, ChangesTakeEffect

\* What a step makes of the worker, and of what it has claimed.
LEMMA NoTasksIs ==
  ASSUME WorkerTyped
  PROVE  /\ DOMAIN NoTasks(worker) = DOMAIN worker
         /\ NoTasks(worker).pc = worker.pc /\ NoTasks(worker).snapshot = worker.snapshot
         /\ NoTasks(worker).next = worker.next
         /\ NoTasks(worker).claimed = 0 /\ NoTasks(worker).live = {}
         /\ NoTasks(worker).orphans = 0
BY DEF NoTasks, WorkerTyped

LEMMA AsleepKeeps ==
  ASSUME WorkerInv, NEW w,
         {"pc", "snapshot", "next", "sleep", "claimed", "drained", "live", "orphans"}
           \subseteq DOMAIN w,
         w.claimed = 0, w.live = {}, w.orphans = 0, NEW seconds,
         worker' = SleepFor(w, seconds), UNCHANGED <<config, stale>>
  PROVE  WorkerInv'
<1>1. /\ DOMAIN worker' = DOMAIN w /\ worker'.pc = "sleep"
      /\ worker'.claimed = 0 /\ worker'.live = {} /\ worker'.orphans = 0
  BY DEF SleepFor
<1>2. MostClaims(worker)' = 2 * Batch
  BY <1>1 DEF MostClaims
<1>3. 0 \in 0 .. Batch
  BY OptionsAssumption
<1> QED
  BY <1>1, <1>2, <1>3, NoClaimKeeps

\* The worker goes on with its turn, or ends it, without a task.
LEMMA TaskFreeKeeps ==
  ASSUME WorkerInv, NEW w, w = NoTasks(worker), NEW pc, NEW next,
         worker' = [w EXCEPT !.pc = pc, !.next = next], UNCHANGED <<config, stale>>,
         \/ worker.pc = "metadata" /\ pc = "watch"
         \/ worker.pc \in {"watch", "fetch"} /\ pc \in {"due", "fetch"}
         \/ pc = "rest"
  PROVE  WorkerInv'
<1>1. /\ DOMAIN worker' = DOMAIN worker /\ worker'.pc = pc
      /\ worker'.snapshot = worker.snapshot
      /\ worker'.claimed = 0 /\ worker'.live = {} /\ worker'.orphans = 0
  BY NoTasksIs DEF WorkerInv, WorkerTyped
<1>2. 0 \in 0 .. Batch /\ Batch \in Nat
  BY OptionsAssumption
<1>3. MostClaims(worker)' = 2 * Batch \/ MostClaims(worker) <= MostClaims(worker)'
  BY <1>1, <1>2 DEF MostClaims, WorkerInv, WorkerTyped
<1> QED
  BY <1>1, <1>2, <1>3, NoClaimKeeps DEF WorkerInv, WorkerTyped

LEMMA WatchKeeps ==
  ASSUME WorkerInv, Watch \/ WatchFails
  PROVE  WorkerInv'
<1> DEFINE w == NoTasks(worker)
           seen == worker.snapshot
<1>0. worker.pc = "watch" /\ UNCHANGED <<config, stale>>
  BY DEF Watch, WatchFails, At, outside
<1>1. /\ {"pc", "snapshot", "next", "sleep", "claimed", "drained", "live", "orphans"}
           \subseteq DOMAIN w
      /\ w.claimed = 0 /\ w.live = {} /\ w.orphans = 0
  BY NoTasksIs DEF WorkerInv, WorkerTyped
<1>2. ASSUME worker' = SleepFor([w EXCEPT !.next = Null], IdleInterval)
      PROVE  WorkerInv'
  <2> DEFINE v == [w EXCEPT !.next = Null]
  <2>1. DOMAIN v = DOMAIN w /\ v.claimed = 0 /\ v.live = {} /\ v.orphans = 0
    BY <1>1
  <2> HIDE DEF v, w
  <2> QED
    BY <1>0, <1>1, <1>2, <2>1, AsleepKeeps DEF v
<1>3. ASSUME worker' = SleepFor(w, RetryInterval)
      PROVE  WorkerInv'
  BY <1>0, <1>1, <1>3, AsleepKeeps
<1>4. ASSUME NEW pc \in {"due", "fetch"}, NEW next, worker' = [w EXCEPT !.pc = pc, !.next = next]
      PROVE  WorkerInv'
  BY <1>0, <1>4, TaskFreeKeeps
<1>5. CASE Watch
  <2>1. \/ worker' = SleepFor([w EXCEPT !.next = Null], IdleInterval)
        \/ worker' = SleepFor(w, RetryInterval)
        \/ worker' = [w EXCEPT !.pc = "due", !.next = Remembered(w)]
        \/ worker' = [w EXCEPT !.pc = "fetch", !.next = Remembered(w)]
    <3>1. CASE seen.watcher = "off"
      BY <1>5, <3>1 DEF Watch
    <3>2. CASE seen.watcher # "off" /\ seen.account = Null
      BY <1>5, <3>2 DEF Watch
    <3>3. CASE seen.watcher # "off" /\ seen.account # Null /\ ~PollDue(Remembered(w))
      BY <1>5, <3>3 DEF Watch
    <3>4. CASE seen.watcher # "off" /\ seen.account # Null /\ PollDue(Remembered(w))
      BY <1>5, <3>4 DEF Watch
    <3> QED
      BY <3>1, <3>2, <3>3, <3>4
  <2> HIDE DEF w
  <2> QED
    BY <1>2, <1>3, <1>4, <2>1
<1>6. CASE WatchFails
  BY <1>3, <1>4, <1>6 DEF WatchFails
<1> QED
  BY <1>5, <1>6

LEMMA EndPollKeeps ==
  ASSUME WorkerInv, EndPoll \/ EndPollFails
  PROVE  WorkerInv'
<1>1. worker.pc = "fetch" /\ UNCHANGED <<config, stale>>
  BY DEF EndPoll, EndPollFails, At, outside
<1>2. \E next : \/ worker' = [[NoTasks(worker) EXCEPT !.pc = "due"] EXCEPT !.next = next]
                \/ worker' = [NoTasks(worker) EXCEPT !.pc = "due", !.next = next]
  BY DEF EndPoll, EndPollFails
<1>3. PICK next : worker' = [NoTasks(worker) EXCEPT !.pc = "due", !.next = next]
  BY <1>2
<1> QED
  BY <1>1, <1>3, TaskFreeKeeps

LEMMA BatchKeeps ==
  ASSUME WorkerInv, \/ ClaimNothing \/ ClaimFails \/ BatchOver \/ OrphanEnds
                    \/ \E r \in Rows : Settle(r) \/ SettlementRefused(r)
  PROVE  WorkerInv'
<1>0. Batch \in Nat /\ UNCHANGED <<config, stale>>
  BY OptionsAssumption
     DEF ClaimNothing, ClaimFails, BatchOver, OrphanEnds, Settle, SettlementRefused, outside
<1>1. ASSUME DOMAIN worker' = DOMAIN worker, worker'.pc = worker.pc,
             worker'.snapshot = worker.snapshot, worker'.claimed = worker.claimed,
             worker'.live \subseteq worker.live, worker'.orphans \in Nat,
             worker'.orphans <= worker.orphans
      PROVE  WorkerInv'
  <2>1. MostClaims(worker) <= MostClaims(worker)'
    BY <1>0, <1>1 DEF MostClaims, WorkerInv, WorkerTyped
  <2> QED
    BY <1>0, <1>1, <2>1, NoClaimKeeps DEF WorkerInv, WorkerTyped
<1>2. CASE ClaimNothing
  BY <1>1, <1>2 DEF ClaimNothing, WorkerInv, WorkerTyped
<1>3. CASE \E r \in Rows : Settle(r) \/ SettlementRefused(r)
  <2>1. PICK r \in Rows : worker' = [worker EXCEPT !.live = @ \ {r}]
    BY <1>3 DEF Settle, SettlementRefused
  <2> QED
    BY <1>1, <2>1 DEF WorkerInv, WorkerTyped
<1>4. CASE OrphanEnds
  BY <1>1, <1>4 DEF OrphanEnds, WorkerInv, WorkerTyped
<1>5. CASE ClaimFails
  <2>1. /\ worker' = [NoTasks(worker) EXCEPT !.pc = After(worker.pc)]
        /\ worker.pc \in {"metadata", "due"}
    BY <1>5 DEF ClaimFails, InBatch, At
  <2>2. /\ DOMAIN worker' = DOMAIN worker /\ worker'.pc = After(worker.pc)
        /\ worker'.snapshot = worker.snapshot
        /\ worker'.claimed = 0 /\ worker'.live = {} /\ worker'.orphans = 0
    BY <2>1, NoTasksIs DEF WorkerInv, WorkerTyped
  <2>3. MostClaims(worker)' = 2 * Batch \/ MostClaims(worker) <= MostClaims(worker)'
    BY <1>0, <2>1, <2>2 DEF MostClaims, After, WorkerInv, WorkerTyped
  <2> QED
    BY <1>0, <2>2, <2>3, NoClaimKeeps DEF WorkerInv, WorkerTyped
<1>6. CASE BatchOver
  <2>1. /\ worker' = [worker EXCEPT !.pc = After(@)] /\ worker.pc \in {"metadata", "due"}
    BY <1>6 DEF BatchOver, InBatch, At
  <2>2. /\ DOMAIN worker' = DOMAIN worker /\ worker'.pc = After(worker.pc)
        /\ worker'.snapshot = worker.snapshot /\ worker'.claimed = worker.claimed
        /\ worker'.live = worker.live /\ worker'.orphans = worker.orphans
    BY <2>1 DEF WorkerInv, WorkerTyped
  <2>3. MostClaims(worker)' = 2 * Batch \/ MostClaims(worker) <= MostClaims(worker)'
    BY <1>0, <2>1, <2>2 DEF MostClaims, After, WorkerInv, WorkerTyped
  <2> QED
    BY <1>0, <2>2, <2>3, NoClaimKeeps DEF WorkerInv, WorkerTyped
<1> QED
  BY <1>2, <1>3, <1>4, <1>5, <1>6

LEMMA LoopKeeps ==
  ASSUME WorkerInv, Turn \/ DryRun \/ Rest \/ Wake
  PROVE  WorkerInv'
<1>0. Batch \in Nat /\ 0 \in 0 .. Batch /\ UNCHANGED <<config, stale>>
  BY OptionsAssumption DEF Turn, DryRun, Rest, Wake, outside
<1>1. CASE Turn
  <2>1. PICK pc : worker' = [NoTasks(worker) EXCEPT !.snapshot = config, !.pc = pc]
    BY <1>1 DEF Turn
  <2>2. /\ DOMAIN worker' = DOMAIN worker /\ worker'.snapshot = config
        /\ worker'.claimed = 0 /\ worker'.live = {} /\ worker'.orphans = 0
    BY <2>1, NoTasksIs DEF WorkerInv, WorkerTyped
  <2> QED
    BY <1>0, <2>2, NoClaimKeeps DEF WorkerInv, WorkerTyped
<1>2. CASE Rest
  <2>1. PICK seconds : worker' = SleepFor(NoTasks(worker), seconds)
    BY <1>2 DEF Rest
  <2> QED
    BY <1>0, <2>1, AsleepKeeps, NoTasksIs DEF WorkerInv, WorkerTyped
<1>3. CASE DryRun \/ Wake
  <2>1. \/ worker' = [worker EXCEPT !.pc = "rest"]
        \/ \E pc \in {"stopped", "turn"} : worker' = [worker EXCEPT !.pc = pc, !.sleep = 0]
    BY <1>3 DEF DryRun, Go, Wake
  <2>2. /\ DOMAIN worker' = DOMAIN worker /\ worker'.pc \in {"rest", "stopped", "turn"}
        /\ worker'.claimed = worker.claimed /\ worker'.live = worker.live
        /\ worker'.orphans = worker.orphans
    BY <2>1 DEF WorkerInv, WorkerTyped
  <2>3. MostClaims(worker)' = 2 * Batch
    BY <2>2 DEF MostClaims
  <2> QED
    BY <1>0, <2>2, <2>3, NoClaimKeeps DEF WorkerInv, WorkerTyped
<1> QED
  BY <1>1, <1>2, <1>3

LEMMA OutsideKeeps ==
  ASSUME WorkerInv, \/ UpdateConfig \/ BeginManualPoll \/ EndManualPoll \/ Cancel \/ Crash
                    \/ Tick \/ UNCHANGED vars
  PROVE  WorkerInv'
<1>0. Batch \in Nat /\ 0 \in 0 .. Batch
  BY OptionsAssumption
<1>1. ASSUME DOMAIN worker' = DOMAIN worker, worker'.pc = worker.pc,
             worker'.snapshot = worker.snapshot, worker'.claimed = worker.claimed,
             worker'.live = worker.live, worker'.orphans = worker.orphans,
             stale' = 0 \/ UNCHANGED <<config, stale>>
      PROVE  WorkerInv'
  <2>1. MostClaims(worker) <= MostClaims(worker)'
    BY <1>0, <1>1 DEF MostClaims, WorkerInv, WorkerTyped
  <2> QED
    BY <1>0, <1>1, <2>1, NoClaimKeeps DEF WorkerInv, WorkerTyped
<1>2. CASE UpdateConfig \/ BeginManualPoll \/ EndManualPoll \/ Cancel \/ UNCHANGED vars
  BY <1>1, <1>2 DEF UpdateConfig, BeginManualPoll, EndManualPoll, Cancel, vars
<1>3. CASE Tick
  <2>1. PICK next, sleep : worker' = [worker EXCEPT !.next = next, !.sleep = sleep]
    BY <1>3 DEF Tick
  <2>2. UNCHANGED <<config, stale>>
    BY <1>3 DEF Tick
  <2> QED
    BY <1>1, <2>1, <2>2 DEF WorkerInv, WorkerTyped
<1>4. CASE Crash
  <2>1. /\ {"pc", "snapshot", "next", "sleep", "claimed", "drained", "live", "orphans"}
             \subseteq DOMAIN worker'
        /\ worker'.pc = "turn" /\ worker'.claimed = 0 /\ worker'.live = {}
        /\ worker'.orphans = 0
    BY <1>4 DEF Crash, NewWorker
  <2>2. UNCHANGED <<config, stale>> /\ MostClaims(worker)' = 2 * Batch
    BY <1>4, <2>1 DEF Crash, MostClaims
  <2> QED
    BY <1>0, <2>1, <2>2, NoClaimKeeps
<1> QED
  BY <1>2, <1>3, <1>4

\* After a change of the configuration, for instance one that turns automation off,
\* `run_loop` claims no more than the two batches of a turn on the one before, and at no
\* time do more attempts run than `run_batch` has slots.
THEOREM ChangesAlwaysTakeEffect == Spec => []ChangesTakeEffect
<1>1. Init => WorkerInv
  <2> SUFFICES ASSUME Init PROVE WorkerInv
    OBVIOUS
  <2>1. /\ {"pc", "snapshot", "next", "sleep", "claimed", "drained", "live", "orphans"}
             \subseteq DOMAIN worker
        /\ worker.pc = "turn" /\ worker.claimed = 0 /\ worker.live = {} /\ worker.orphans = 0
    BY DEF Init, NewWorker
  <2>2. stale = 0 /\ Batch \in Nat /\ Concurrency \in Nat
    BY OptionsAssumption DEF Init
  <2> QED
    BY <2>1, <2>2, FS_EmptySet
       DEF WorkerInv, WorkerTyped, ChangesTakeEffect, Tasks, MostClaims
<1>2. WorkerInv /\ [Next]_vars => WorkerInv'
  BY ClaimKeeps, WatchKeeps, EndPollKeeps, BatchKeeps, LoopKeeps, OutsideKeeps
     DEF Next, Looping
<1>3. WorkerInv => ChangesTakeEffect
  BY DEF WorkerInv
<1> QED
  BY <1>1, <1>2, <1>3, PTL DEF Spec
=============================================================================
