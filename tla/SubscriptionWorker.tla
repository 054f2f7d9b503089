------------------------- MODULE SubscriptionWorker -------------------------
(***************************************************************************)
(* The worker's loop: each turn works on one snapshot of the configuration, *)
(* settles metadata, polls when a poll is due, and runs a batch of due      *)
(* subscriptions.  Its memory (when to poll next) is beside the schedule    *)
(* that is stored, which a manual poll moves as well.                      *)
(*                                                                         *)
(* Times are what is left of them, so no clock grows: a Tick shortens every *)
(* delay, lease and sleep by one.  What an attempt or a poll does to a row  *)
(* is in SubscriptionRepository; here an attempt ends, sooner or later.    *)
(***************************************************************************)
EXTENDS Integers, Sequences, SequencesExt
CONSTANTS Accounts, Rows, Null,
          Configured,         \* the configurations the user changes between
          FirstAccount,       \* the account configured to begin with
          AccountOf,          \* Rows -> Accounts
          Troubled,           \* rows whose attempts never settle in time
          Batch, Concurrency, \* options of the worker
          PollInterval, RetryInterval, IdleInterval, Lease, Delay,
          MaxDoings,          \* bound: what the user does (configure, poll)
          MaxFaults           \* bound: errors of the database, and crashes

\* SubscriptionWorkerOptions::try_new, and the clamping of the delays
ASSUME OptionsAssumption ==
  /\ {Batch, Concurrency, PollInterval, RetryInterval, IdleInterval, Lease, Delay}
       \subseteq Nat \ {0}
  /\ Concurrency <= Batch /\ RetryInterval <= PollInterval
  /\ Null \notin Accounts

\* The watcher is off, polls only (dry_run), or downloads as well.
Configs == [watcher: {"off", "dry", "on"}, account: Accounts \cup {Null}]

ASSUME ConfiguredAssumption == Configured \subseteq Configs

VARIABLES
  config,     \* what the configuration file says of the watcher
  doings,
  stored,     \* Accounts -> the open poll and the time left until the next one
  row,        \* Rows -> waiting for its next attempt or claimed, and the time left
              \* until then, or of the lease
  queue,      \* rows whose next_attempt_at has passed, in its order
  manual,     \* the account a manual poll is reading, or Null
  worker,     \* the worker's own memory
  cancelled,
  stale,      \* claims made since the configuration changed, on the one before
  faults

vars == <<config, doings, stored, row, queue, manual, worker, cancelled, stale, faults>>
outside == <<config, doings, manual, cancelled>>

Minimum(m, n) == IF m < n THEN m ELSE n

\* The tasks of a batch: live ones hold the row's attempt, an orphan's was reclaimed.
NoTasks(w) == [w EXCEPT !.claimed = 0, !.drained = FALSE, !.live = {}, !.orphans = 0]

Tasks(w) == Cardinality(w.live) + w.orphans

At(pc) == worker.pc = pc
Go(pc) == worker' = [worker EXCEPT !.pc = pc]
SleepFor(w, seconds) == [w EXCEPT !.pc = "sleep", !.sleep = seconds, !.snapshot = Null]

Fault == faults < MaxFaults /\ faults' = faults + 1
-----------------------------------------------------------------------------
(* Batches.                                                                 *)

Expired(r) == row[r].state = "claimed" /\ row[r].left = 0
IsDue(r) == row[r].state = "waiting" /\ row[r].left = 0

InLine(rows) == SelectSeq(queue, LAMBDA r : r \in rows)

\* Mutant: a lease that ran out is not looked for.
WithoutExpired(account) ==
  LET due == InLine({r \in Rows : AccountOf[r] = account /\ IsDue(r)}) IN
  IF due = <<>> THEN {} ELSE {Head(due)}

\* claim_due: a lease that ran out before a row that is due, the oldest of these.
Candidates(account) ==
  LET expired == {r \in Rows : AccountOf[r] = account /\ Expired(r)}
      due == InLine({r \in Rows : AccountOf[r] = account /\ IsDue(r)})
  IN  IF expired # {} THEN expired ELSE IF due = <<>> THEN {} ELSE {Head(due)}

\* ... of only the rows that lack metadata, by age alone.
MetadataCandidates(account) ==
  LET found == InLine({r \in Rows : /\ AccountOf[r] = account /\ row[r].meta
                                     /\ (IsDue(r) \/ Expired(r))})
  IN  IF found = <<>> THEN {} ELSE {Head(found)}

Claimable ==
  IF At("metadata") THEN MetadataCandidates(worker.snapshot.account)
  ELSE Candidates(worker.snapshot.account)

InBatch == At("metadata") \/ (At("due") /\ worker.snapshot.watcher = "on")

\* Mutant: only the free slots bound a batch.
RoomInSlots == Tasks(worker) < Concurrency

Room == worker.claimed < Batch /\ Tasks(worker) < Concurrency

\* run_batch fills the free slots; a row reclaimed from a task of its own orphans it.
Claim ==
  /\ InBatch /\ Room /\ ~worker.drained
  /\ \E r \in Claimable :
       /\ row' = [row EXCEPT ![r].state = "claimed", ![r].left = Lease]
       /\ worker' = [worker EXCEPT
                       !.claimed = Minimum(@ + 1, Batch),
                       !.live = @ \cup {r},
                       !.orphans = @ + (IF r \in worker.live THEN 1 ELSE 0)]
  /\ stale' = IF worker.snapshot = config THEN stale ELSE Minimum(stale + 1, 2 * Batch + 1)
  /\ UNCHANGED <<stored, queue, faults, outside>>

\* Once nothing is found, this batch claims no more.
ClaimNothing ==
  /\ InBatch /\ Room /\ ~worker.drained
  /\ Claimable = {}
  /\ worker' = [worker EXCEPT !.drained = TRUE]
  /\ UNCHANGED <<stored, row, queue, stale, faults, outside>>

After(pc) == IF pc = "metadata" THEN "watch" ELSE "rest"

\* An error of a claim ends the batch and aborts its tasks; their rows stay leased.
ClaimFails ==
  /\ InBatch /\ Room /\ ~worker.drained
  /\ Fault
  /\ worker' = [NoTasks(worker) EXCEPT !.pc = After(worker.pc)]
  /\ UNCHANGED <<stored, row, queue, stale, outside>>

Others(r) == SelectSeq(queue, LAMBDA q : q # r)

\* execute_claimed ends within the lease: the row's next attempt is due, now or later.
Settle(r) ==
  /\ r \in worker.live /\ r \notin Troubled /\ row[r].left > 0
  /\ \E meta \in {FALSE, row[r].meta}, left \in {0, Delay} :
       /\ row' = [row EXCEPT ![r] = [state |-> "waiting", left |-> left, meta |-> meta]]
       /\ queue' = Others(r) \o (IF left = 0 THEN <<r>> ELSE <<>>)
  /\ worker' = [worker EXCEPT !.live = @ \ {r}]
  /\ UNCHANGED <<stored, stale, faults, outside>>

\* Its result is refused: the row stays claimed until its lease runs out.
SettlementRefused(r) ==
  /\ r \in worker.live /\ r \in Troubled
  /\ worker' = [worker EXCEPT !.live = @ \ {r}]
  /\ UNCHANGED <<stored, row, queue, stale, faults, outside>>

OrphanEnds ==
  /\ worker.orphans > 0
  /\ worker' = [worker EXCEPT !.orphans = @ - 1]
  /\ UNCHANGED <<stored, row, queue, stale, faults, outside>>

BatchOver ==
  /\ InBatch /\ Tasks(worker) = 0
  /\ worker.claimed = Batch \/ worker.drained
  /\ worker' = [worker EXCEPT !.pc = After(@)]
  /\ UNCHANGED <<stored, row, queue, stale, faults, outside>>
-----------------------------------------------------------------------------
(* One turn of the loop.                                                    *)

\* The snapshot of the configuration that the whole turn works on.
Turn ==
  /\ At("turn")
  /\ worker' = [NoTasks(worker) EXCEPT
                  !.snapshot = config,
                  !.pc = CASE cancelled                               -> "stopped"
                           [] ~cancelled /\ config.account # Null     -> "metadata"
                           [] OTHER                                   -> "watch"]
  /\ UNCHANGED <<stored, row, queue, stale, faults, outside>>

\* Mutant: without a time to poll at there is nothing to poll.
PollIfKnown(next) == next = 0

PollDue(next) == next \in {Null, 0}

Remembered(w) == IF w.next = Null THEN stored[w.snapshot.account].next ELSE w.next

\* The worker's memory of the schedule is loaded when it has none.
Watch ==
  /\ At("watch")
  /\ LET w == NoTasks(worker)
         seen == worker.snapshot
     IN  CASE seen.watcher = "off" ->
                /\ worker' = SleepFor([w EXCEPT !.next = Null], IdleInterval)
                /\ UNCHANGED stored
           [] seen.watcher # "off" /\ seen.account = Null ->
                worker' = SleepFor(w, RetryInterval) /\ UNCHANGED stored
           [] seen.watcher # "off" /\ seen.account # Null /\ ~PollDue(Remembered(w)) ->
                worker' = [w EXCEPT !.pc = "due", !.next = Remembered(w)] /\ UNCHANGED stored
           [] OTHER ->
                /\ worker' = [w EXCEPT !.pc = "fetch", !.next = Remembered(w)]
                /\ stored' = [stored EXCEPT
                     ![seen.account].open = "worker",
                     ![seen.account].next = IF @ = Null THEN 0 ELSE @]
  /\ UNCHANGED <<row, queue, stale, faults, outside>>

\* The schedule cannot be loaded: a sleep, and another turn. Or the poll that is due
\* cannot be begun: the batch comes first.
WatchFails ==
  /\ At("watch") /\ worker.snapshot.watcher # "off" /\ worker.snapshot.account # Null
  /\ Fault
  /\ \/ /\ worker.next = Null
        /\ worker' = SleepFor(NoTasks(worker), RetryInterval)
     \/ /\ PollDue(Remembered(worker))
        /\ worker' = [NoTasks(worker) EXCEPT !.pc = "due", !.next = RetryInterval]
  /\ UNCHANGED <<stored, row, queue, stale, outside>>

Closed(a, next) == [stored EXCEPT ![a] = [open |-> Null, next |-> next]]

\* A poll that was superseded is an error without a schedule of its own.
EndPoll ==
  /\ At("fetch")
  /\ LET a == worker.snapshot.account
         w == [NoTasks(worker) EXCEPT !.pc = "due"]
     IN  IF stored[a].open = "worker"
         THEN \E next \in RetryInterval .. PollInterval :
                worker' = [w EXCEPT !.next = next] /\ stored' = Closed(a, next)
         ELSE worker' = [w EXCEPT !.next = RetryInterval] /\ UNCHANGED stored
  /\ UNCHANGED <<row, queue, stale, faults, outside>>

EndPollFails ==
  /\ At("fetch")
  /\ Fault
  /\ worker' = [NoTasks(worker) EXCEPT !.pc = "due", !.next = RetryInterval]
  /\ UNCHANGED <<stored, row, queue, stale, outside>>

DryRun ==
  /\ At("due") /\ worker.snapshot.watcher = "dry"
  /\ Go("rest")
  /\ UNCHANGED <<stored, row, queue, stale, faults, outside>>

\* The turn ends with a sleep until the poll, or a short one after a full batch.
Rest ==
  /\ At("rest")
  /\ LET busy == worker.claimed = Batch
         untilPoll == IF worker.next = Null THEN PollInterval ELSE worker.next
         delay == Minimum(untilPoll, IF busy THEN 1 ELSE IdleInterval)
     IN  worker' = SleepFor(NoTasks(worker), IF delay = 0 THEN 1 ELSE delay)
  /\ UNCHANGED <<stored, row, queue, stale, faults, outside>>

\* wait_or_cancel
Wake ==
  /\ At("sleep") /\ (cancelled \/ worker.sleep = 0)
  /\ worker' = [worker EXCEPT !.pc = IF cancelled THEN "stopped" ELSE "turn", !.sleep = 0]
  /\ UNCHANGED <<stored, row, queue, stale, faults, outside>>
-----------------------------------------------------------------------------
(* Around the worker.                                                       *)

Running == ~At("stopped")

Do == doings < MaxDoings /\ doings' = doings + 1

UpdateConfig ==
  /\ Running
  /\ Do
  /\ config' \in Configured \ {config}
  /\ stale' = 0
  /\ UNCHANGED <<stored, row, queue, manual, worker, cancelled, faults>>

BeginManualPoll ==
  /\ Running /\ Do
  /\ manual = Null /\ config.account # Null
  /\ manual' = config.account
  /\ stored' = [stored EXCEPT ![config.account].open = "manual",
                              ![config.account].next = IF @ = Null THEN 0 ELSE @]
  /\ UNCHANGED <<config, row, queue, worker, cancelled, stale, faults>>

EndManualPoll ==
  /\ Running /\ manual # Null
  /\ IF stored[manual].open = "manual"
     THEN \E next \in RetryInterval .. PollInterval : stored' = Closed(manual, next)
     ELSE UNCHANGED stored
  /\ manual' = Null
  /\ UNCHANGED <<config, doings, row, queue, worker, cancelled, stale, faults>>

Cancel ==
  /\ ~cancelled
  /\ cancelled' = TRUE
  /\ UNCHANGED <<config, doings, stored, row, queue, manual, worker, stale, faults>>

NewWorker ==
  [pc |-> "turn", snapshot |-> Null, next |-> Null, sleep |-> 0,
   claimed |-> 0, drained |-> FALSE, live |-> {}, orphans |-> 0]

\* The process dies and is started again.
Crash ==
  /\ Running
  /\ Fault
  /\ worker' = NewWorker
  /\ manual' = Null
  /\ UNCHANGED <<config, doings, stored, row, queue, cancelled, stale>>

Shorter(left) == IF left = 0 THEN 0 ELSE left - 1

\* An attempt that is not troubled ends before its lease does.
InTime == \A r \in worker.live \ Troubled : row[r].left > 1

\* Time passes while the worker sleeps or waits for Douban or for its attempts; its
\* own steps and those of the database take none.
Waiting ==
  \/ At("sleep") \/ At("fetch")
  \/ InBatch /\ Tasks(worker) > 0 /\ (worker.drained \/ ~Room)

\* Rows whose turn comes with this tick line up behind the others.
Tick ==
  /\ Waiting /\ InTime
  /\ stored' = [a \in Accounts |->
                  [stored[a] EXCEPT !.next = IF @ = Null THEN @ ELSE Shorter(@)]]
  /\ row' = [r \in Rows |-> [row[r] EXCEPT !.left = Shorter(@)]]
  /\ \E order \in SetToSeqs({r \in Rows : row[r].state = "waiting" /\ row[r].left = 1}) :
       queue' = queue \o order
  /\ worker' = [worker EXCEPT !.next = IF @ = Null THEN @ ELSE Shorter(@),
                              !.sleep = Shorter(@)]
  /\ UNCHANGED <<config, doings, manual, cancelled, stale, faults>>

Init ==
  /\ config \in {c \in Configured : c.account = FirstAccount}
  /\ doings = 0
  /\ stored = [a \in Accounts |-> [open |-> Null, next |-> Null]]
  /\ row = [r \in Rows |-> [state |-> "waiting", left |-> 0, meta |-> TRUE]]
  /\ queue \in SetToSeqs(Rows)
  /\ manual = Null
  /\ worker = NewWorker
  /\ cancelled = FALSE
  /\ stale = 0 /\ faults = 0

Looping ==
  \/ Turn \/ Watch \/ EndPoll \/ DryRun \/ Rest \/ Wake
  \/ Claim \/ ClaimNothing \/ BatchOver

Next ==
  \/ Looping \/ OrphanEnds
  \/ \E r \in Rows : Settle(r) \/ SettlementRefused(r)
  \/ ClaimFails \/ WatchFails \/ EndPollFails \/ Crash
  \/ UpdateConfig \/ BeginManualPoll \/ EndManualPoll \/ Cancel \/ Tick

\* The loop runs on, every call an attempt makes has a timeout, and time passes.
Fairness ==
  /\ WF_vars(Looping) /\ WF_vars(OrphanEnds) /\ WF_vars(Tick)
  /\ \A r \in Rows : WF_vars(Settle(r)) /\ WF_vars(SettlementRefused(r))

Spec == Init /\ [][Next]_vars /\ Fairness
-----------------------------------------------------------------------------
(* Properties.                                                              *)

\* A turn works on the configuration it began with: after a change, for instance
\* one that turns automation off, no more than its two batches are still claimed,
\* and whatever a batch reclaims, no more run at a time than it has slots.
ChangesTakeEffect == stale <= 2 * Batch /\ Tasks(worker) <= Concurrency

\* An account that stays configured, with the watcher on, is polled again and again,
\* whatever its schedule was when the account was chosen, whoever else polls it, and
\* whichever polls fail.
PollsGoOn ==
  \A a \in Accounts :
    <>[](config.watcher # "off" /\ config.account = a /\ ~cancelled) =>
      []<>(At("fetch") /\ worker.snapshot.account = a)

\* Every subscription of that account gets its attempts, also one whose attempt was
\* aborted or lost with the process, and although others never settle.
AttemptsGoOn ==
  \A r \in Rows :
    <>[](/\ config.watcher = "on" /\ config.account = AccountOf[r]
         /\ ~cancelled) =>
      []<>(r \in worker.live)

\* Whatever it is doing, the worker stops when it is told to.
StopEnds == cancelled ~> At("stopped")
=============================================================================
