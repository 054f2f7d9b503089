------------------------ MODULE StorageServiceProofs ------------------------
(***************************************************************************)
(* What the configuration file and the database of a directory keep,       *)
(* through the deaths of the services that write them.                     *)
(*                                                                         *)
(* The lock makes one process of the directory the only one past "down",   *)
(* so that its memory alone is to be compared with the file (Remembers).   *)
(* A database is only ever missing when nobody has it open and nothing was *)
(* committed in it, and the one that a journal may take back lacks at most *)
(* what was committed last (DatabaseInv).  A page that carries the revision of its *)
(* process shows what that process published last (PageInv).  And what is  *)
(* on its way to the file is in normal form before it gets there           *)
(* (ConfigInv).                                                            *)
(***************************************************************************)
EXTENDS StorageService, FiniteOrders

\* Between the file and the database.
Starting ==
  {"configured", "creating", "built", "migrating", "outdated", "upgrading", "opened",
   "checked", "ready"}

\* A save, before and after the file has the new contents.
Ahead(job) == job.stage = "temporary"

IsJob(job) == DOMAIN job = {"value", "stage", "attached"} /\ job.attached \in BOOLEAN

Idle(memory) == memory.job = Null /\ memory.call = Null /\ ~memory.astray

\* Of a process that has read nothing yet.
RemembersNothing(memory) == memory.pc \in {"down", "locked"} /\ Idle(memory)

\* Of a start that puts the file in order.
RemembersSaving(memory, contents) ==
  /\ memory.pc = "saving" /\ memory.call = Null /\ ~memory.astray
  /\ IsJob(memory.job) /\ memory.job.attached /\ memory.job.value = memory.value
  /\ ~Ahead(memory.job) => contents = memory.value

\* Of a start that goes on to the database.
RemembersStarting(memory, contents) ==
  memory.pc \in Starting /\ Idle(memory) /\ contents = memory.value

\* Of a service: until a save has its file in place, the file is what was published
\* last, unless the file is of a save that nobody publishes.
RemembersServing(memory, contents) ==
  /\ memory.pc = "serving"
  /\ memory.job # Null => IsJob(memory.job)
  /\ memory.job = Null \/ Ahead(memory.job) => memory.astray \/ contents = memory.value
  /\ memory.job # Null /\ ~Ahead(memory.job) =>
       contents = memory.job.value /\ (memory.job.attached \/ memory.astray)

IsMemory(memory) == DOMAIN memory = DOMAIN Down /\ memory.astray \in BOOLEAN

Remembers(memory, contents) ==
  /\ IsMemory(memory)
  /\ \/ RemembersNothing(memory) \/ RemembersSaving(memory, contents)
     \/ RemembersStarting(memory, contents) \/ RemembersServing(memory, contents)

\* A process of another directory has no configuration to save here.
Elsewhere(memory) ==
  IsMemory(memory) /\ Idle(memory) /\ memory.pc \notin {"locked", "saving", "configured"}

FileInv ==
  /\ DOMAIN process = Processes
  /\ DOMAIN file = {"now", "kept"}
  /\ \A p \in Local : Remembers(process[p], file.now)
  /\ \A p \in Local : ~At(p, "down") => lock = p
  /\ \A p \in Processes \ Local : Elsewhere(process[p])

\* Those who have the database open.
Opened == {"outdated", "upgrading", "opened", "checked", "ready", "serving"}

DatabaseStates ==
  [file : DatabaseFiles \cup {Null}, journal : {Null, "hot"} \cup Processes, durable : BOOLEAN,
   removed : DatabaseFiles \cup {Null}]

Histories == [count : Nat, cut : SUBSET Nat]

\* What has to be in the database, and what in the one a journal may take it back to.
Owed == (1..committed.count) \ committed.cut
OwedBefore == Owed \ {committed.count}

DatabaseKeeps ==
  /\ db \in DatabaseStates
  /\ committed \in Histories
  /\ db.file = Null => db.journal = Null /\ db.removed = Null
  /\ committed.count # 0 => db.durable /\ db.file # Null
  /\ db.removed # Null => OwedBefore \subseteq db.removed.rows
  /\ Owed \subseteq Rows(db.file)

DatabaseInv ==
  /\ DOMAIN process = Processes /\ \A p \in Processes : "pc" \in DOMAIN process[p]
  /\ DatabaseKeeps
  /\ db.file = Null => \A p \in Processes : process[p].pc \notin Opened

\* What a page shows of a process that still runs: what was published with the
\* revision it carries.
IsPage(shown) == DOMAIN shown = {"revision", "value", "of"} /\ shown.revision \in Nat

PagesAreKnown ==
  \A e \in Editors, p \in Processes :
    page[e] # Null /\ page[e].of = p =>
      /\ Serving(p)
      /\ page[e].revision <= process[p].revision
      /\ page[e].revision = process[p].revision => page[e].value = process[p].value

PageInv ==
  /\ DOMAIN process = Processes
  /\ \A p \in Processes : DOMAIN process[p] = DOMAIN Down /\ process[p].revision \in Nat
  /\ DOMAIN page = Editors
  /\ \A e \in Editors : page[e] # Null => IsPage(page[e])
  /\ PagesAreKnown
-----------------------------------------------------------------------------
(* The file: one process moves, and the others are as they were.           *)

LEMMA DownIsIdle ==
  /\ IsMemory(Down) /\ RemembersNothing(Down) /\ Elsewhere(Down) /\ Down.pc = "down"
BY DEF Down, IsMemory, RemembersNothing, Idle, Elsewhere

LEMMA LocalMoves ==
  ASSUME FileInv, NEW p \in Local, NEW memory,
         process' = [process EXCEPT ![p] = memory],
         DOMAIN file' = {"now", "kept"}, Remembers(memory, file'.now),
         file'.now = file.now \/ lock = p,
         memory.pc # "down" => lock' = p,
         lock' = lock \/ lock = p \/ lock = Null
  PROVE  FileInv'
<1>1. p \in Processes /\ DOMAIN process = Processes
  BY DEF FileInv, Local
<1>2. process'[p] = memory /\ DOMAIN process' = Processes
  BY <1>1
<1>3. ASSUME NEW q \in Local, q # p PROVE Remembers(process'[q], file'.now)
  <2>1. process'[q] = process[q] /\ Remembers(process[q], file.now)
    BY <1>1, <1>3 DEF FileInv
  <2>2. CASE At(q, "down")
    <3>1. process[q].pc = "down"
      BY <2>2 DEF At
    <3>2. IsMemory(process[q]) /\ RemembersNothing(process[q])
      BY <2>1, <3>1 DEF Remembers, RemembersNothing, RemembersSaving, RemembersStarting,
                        RemembersServing, Starting
    <3> QED BY <2>1, <3>2 DEF Remembers
  <2>3. CASE ~At(q, "down")
    <3>1. file'.now = file.now
      BY <2>3, <1>3 DEF FileInv
    <3> QED BY <2>1, <3>1
  <2> QED BY <2>2, <2>3
<1>4. ASSUME NEW q \in Local, q # p, ~At(q, "down")' PROVE lock' = q
  <2>1. process'[q] = process[q]
    BY <1>1, <1>4
  <2>2. lock = q
    BY <2>1, <1>4 DEF FileInv, At
  <2> QED BY <2>2, <1>4, NamesAssumption DEF Local
<1>5. ASSUME NEW q \in Processes \ Local PROVE Elsewhere(process'[q])
  <2>1. process'[q] = process[q] /\ Elsewhere(process[q])
    BY <1>1, <1>5 DEF FileInv
  <2> QED BY <2>1
<1>6. Remembers(process'[p], file'.now) /\ (~At(p, "down")' => lock' = p)
  BY <1>2 DEF At
<1> QED BY <1>2, <1>3, <1>4, <1>5, <1>6 DEF FileInv

LEMMA StrangerMoves ==
  ASSUME FileInv, NEW p \in Processes \ Local, NEW memory,
         process' = [process EXCEPT ![p] = memory],
         Elsewhere(memory), file' = file, lock' = lock \/ lock = p
  PROVE  FileInv'
<1>1. DOMAIN process = Processes /\ DOMAIN process' = Processes /\ process'[p] = memory
  BY DEF FileInv
<1>2. ASSUME NEW q \in Processes, q # p PROVE process'[q] = process[q]
  BY <1>1, <1>2
<1>3. \A q \in Local : process'[q] = process[q] /\ q # p
  BY <1>2 DEF Local
<1>4. \A q \in Local : ~At(q, "down")' => lock' = q
  BY <1>3 DEF FileInv, At
<1>5. \A q \in Processes \ Local : Elsewhere(process'[q])
  BY <1>1, <1>2 DEF FileInv
<1> QED BY <1>1, <1>3, <1>4, <1>5 DEF FileInv

LEMMA Exits ==
  ASSUME FileInv, NEW p \in Processes, Exit(p), UNCHANGED file
  PROVE  FileInv'
<1>1. process' = [process EXCEPT ![p] = Down] /\ (lock' = lock \/ lock = p)
  BY DEF Exit
<1>2. CASE p \in Local
  <2>1. Remembers(Down, file'.now) /\ Down.pc = "down"
    BY DownIsIdle DEF Remembers
  <2>2. DOMAIN file' = {"now", "kept"}
    BY DEF FileInv
  <2> QED BY <1>1, <1>2, <2>1, <2>2, LocalMoves
<1>3. CASE p \notin Local
  BY <1>1, <1>3, DownIsIdle, StrangerMoves
<1> QED BY <1>2, <1>3

LEMMA StartGoesOn ==
  ASSUME FileInv, NEW p \in Processes, NEW pc \in Starting \ {"configured"}, Go(p, pc),
         process[p].pc \in Starting \/ p \notin Local, UNCHANGED <<file, lock>>
  PROVE  FileInv'
<1> DEFINE memory == [process[p] EXCEPT !.pc = pc]
<1>1. process' = [process EXCEPT ![p] = memory]
  BY DEF Go
<1>2. CASE p \in Local
  <2>1. RemembersStarting(process[p], file.now) /\ IsMemory(process[p])
    BY <1>2 DEF FileInv, Remembers, RemembersNothing, RemembersSaving, RemembersStarting,
                RemembersServing, Starting
  <2>2. RemembersStarting(memory, file.now) /\ IsMemory(memory)
    BY <2>1 DEF RemembersStarting, Idle, IsMemory, Down
  <2>3. lock = p /\ DOMAIN file' = {"now", "kept"}
    BY <1>2 DEF FileInv, At, Starting
  <2>4. Remembers(memory, file'.now)
    BY <2>2 DEF Remembers
  <2> QED BY <1>1, <1>2, <2>3, <2>4, LocalMoves
<1>3. CASE p \notin Local
  <2>1. Elsewhere(process[p])
    BY <1>3 DEF FileInv
  <2>2. Elsewhere(memory)
    BY <2>1 DEF Elsewhere, Idle, IsMemory, Down, Starting
  <2> QED BY <1>1, <1>3, <2>2, StrangerMoves
<1> QED BY <1>2, <1>3
-----------------------------------------------------------------------------
(* The start of a service.                                                 *)

\* The memory of a local process, by what it is doing.
LEMMA LocalMemory ==
  ASSUME FileInv, NEW p \in Local
  PROVE  /\ p \in Processes /\ IsMemory(process[p]) /\ DOMAIN file = {"now", "kept"}
         /\ ~At(p, "down") => lock = p
         /\ At(p, "down") \/ At(p, "locked") => Idle(process[p])
         /\ At(p, "saving") => RemembersSaving(process[p], file.now)
         /\ process[p].pc \in Starting => RemembersStarting(process[p], file.now)
         /\ At(p, "serving") => RemembersServing(process[p], file.now)
         /\ process[p].job # Null \/ process[p].call # Null =>
              At(p, "saving") \/ At(p, "serving")
<1>1. p \in Processes /\ Remembers(process[p], file.now)
      /\ DOMAIN file = {"now", "kept"} /\ (~At(p, "down") => lock = p)
  BY DEF FileInv, Local
<1> QED BY <1>1 DEF Remembers, RemembersNothing, RemembersSaving, RemembersStarting,
                    RemembersServing, Starting, At, Idle

LEMMA StrangerMemory ==
  ASSUME FileInv, NEW p \in Processes \ Local
  PROVE  /\ IsMemory(process[p]) /\ process[p].job = Null /\ process[p].call = Null
         /\ ~At(p, "locked") /\ ~At(p, "saving") /\ ~At(p, "configured")
BY DEF FileInv, Elsewhere, Idle, At

LEMMA LockKeepsFile ==
  ASSUME FileInv, NEW p \in Processes, Lock(p)
  PROVE  FileInv'
<1> DEFINE memory == [process[p] EXCEPT !.pc = "locked"]
<1>1. p \in Local /\ At(p, "down") /\ lock = Null /\ lock' = p /\ file' = file
      /\ process' = [process EXCEPT ![p] = memory]
  BY DEF Lock, Go, disk
<1>2. Idle(process[p]) /\ IsMemory(process[p]) /\ DOMAIN file = {"now", "kept"}
  BY <1>1, LocalMemory
<1>3. Remembers(memory, file'.now)
  BY <1>2 DEF Remembers, RemembersNothing, Idle, IsMemory, Down
<1> QED BY <1>1, <1>2, <1>3, LocalMoves

\* A save of a start: of the normal form, or of the default.
LEMMA StartSaves ==
  ASSUME FileInv, NEW p \in Processes, NEW value, At(p, "locked"),
         process' = [process EXCEPT ![p].pc = "saving", ![p].value = value,
                       ![p].job = [value |-> value, stage |-> "temporary", attached |-> TRUE]],
         UNCHANGED <<file, lock>>
  PROVE  FileInv'
<1> DEFINE job == [value |-> value, stage |-> "temporary", attached |-> TRUE]
           memory == [process[p] EXCEPT !.pc = "saving", !.value = value, !.job = job]
<1>1. p \in Local
  BY StrangerMemory
<1>2. Idle(process[p]) /\ IsMemory(process[p]) /\ lock = p /\ DOMAIN file = {"now", "kept"}
  BY <1>1, LocalMemory DEF At
<1>3. process' = [process EXCEPT ![p] = memory]
  BY <1>1, <1>2 DEF FileInv, Local
<1>4. IsJob(job) /\ job.attached /\ job.value = value /\ Ahead(job)
  BY DEF IsJob, Ahead
<1>5. IsMemory(memory) /\ memory.pc = "saving" /\ memory.job = job /\ memory.value = value
      /\ memory.call = process[p].call /\ memory.astray = process[p].astray
  BY <1>2 DEF IsMemory, Down
<1>6. Remembers(memory, file'.now)
  BY <1>2, <1>4, <1>5 DEF Remembers, RemembersSaving, Idle
<1> QED BY <1>1, <1>2, <1>3, <1>6, LocalMoves

LEMMA LoadKeepsFile ==
  ASSUME FileInv, NEW p \in Processes, LoadConfig(p)
  PROVE  FileInv'
<1>1. At(p, "locked") /\ UNCHANGED file /\ p \in Local
  BY StrangerMemory DEF LoadConfig
<1>2. CASE Exit(p)
  BY <1>1, <1>2, Exits
<1>3. CASE process' = [process EXCEPT ![p].pc = "configured", ![p].value = file.now]
           /\ lock' = lock
  <2> DEFINE memory == [process[p] EXCEPT !.pc = "configured", !.value = file.now]
  <2>1. Idle(process[p]) /\ IsMemory(process[p]) /\ lock = p /\ DOMAIN file = {"now", "kept"}
    BY <1>1, LocalMemory DEF At
  <2>2. process' = [process EXCEPT ![p] = memory]
    BY <1>3
  <2>3. Remembers(memory, file'.now)
    BY <1>1, <2>1 DEF Remembers, RemembersStarting, Starting, Idle, IsMemory, Down
  <2> QED BY <1>1, <1>3, <2>1, <2>2, <2>3, LocalMoves
<1>4. CASE /\ process' = [process EXCEPT ![p].pc = "saving", ![p].value = Normal(file.now),
                             ![p].job = [value |-> Normal(file.now), stage |-> "temporary",
                                         attached |-> TRUE]]
           /\ lock' = lock
  BY <1>1, <1>4, StartSaves
<1> QED BY <1>2, <1>3, <1>4 DEF LoadConfig

LEMMA CreateKeepsFile ==
  ASSUME FileInv, NEW p \in Processes, CreateConfig(p)
  PROVE  FileInv'
BY StartSaves DEF CreateConfig, disk

LEMMA SavedKeepsFile ==
  ASSUME FileInv, NEW p \in Processes, ConfigSaved(p)
  PROVE  FileInv'
<1> DEFINE memory == [process[p] EXCEPT !.pc = "configured", !.job = Null]
<1>1. p \in Local /\ At(p, "saving") /\ process[p].job.stage = "written"
      /\ UNCHANGED <<file, lock>>
  BY StrangerMemory DEF ConfigSaved, disk
<1>2. RemembersSaving(process[p], file.now) /\ IsMemory(process[p]) /\ lock = p
      /\ DOMAIN file = {"now", "kept"}
  BY <1>1, LocalMemory DEF At
<1>3. process' = [process EXCEPT ![p] = memory]
  BY DEF ConfigSaved
<1>4. file.now = process[p].value
  BY <1>1, <1>2 DEF RemembersSaving, Ahead
<1>5. Remembers(memory, file'.now)
  BY <1>1, <1>2, <1>4
     DEF Remembers, RemembersStarting, RemembersSaving, Starting, Idle, IsMemory, Down
<1> QED BY <1>1, <1>2, <1>3, <1>5, LocalMoves

LEMMA OpeningKeepsFile ==
  ASSUME FileInv, NEW p \in Processes,
         \/ OpenDatabase(p) \/ BuildDatabase(p) \/ CreateDatabase(p) \/ Migrate(p)
         \/ Upgrade(p) \/ Upgraded(p) \/ Preflight(p) \/ Backfill(p)
  PROVE  FileInv'
<1>1. UNCHANGED file
  BY DEF OpenDatabase, BuildDatabase, CreateDatabase, Migrate, Upgrade, Upgraded, Preflight,
         Backfill, disk
<1>2. process[p].pc \in Starting \/ p \notin Local
  BY DEF OpenDatabase, BuildDatabase, CreateDatabase, Migrate, Upgrade, Upgraded, Preflight,
         Backfill, Configured, At, Starting, Local
<1>3. CASE Exit(p)
  BY <1>1, <1>3, Exits
<1>4. CASE \E pc \in Starting \ {"configured"} : Go(p, pc) /\ lock' = lock
  BY <1>1, <1>2, <1>4, StartGoesOn
<1>5. Exit(p) \/ \E pc \in Starting \ {"configured"} : Go(p, pc) /\ lock' = lock
  <2>1. ASSUME OpenDatabase(p) PROVE \E pc \in Starting \ {"configured"} : Go(p, pc) /\ lock' = lock
    BY <2>1 DEF OpenDatabase, Starting
  <2>2. ASSUME BuildDatabase(p) \/ Upgrade(p) \/ Upgraded(p) \/ Backfill(p) PROVE \E pc \in Starting \ {"configured"} : Go(p, pc) /\ lock' = lock
    BY <2>2 DEF BuildDatabase, Upgrade, Upgraded, Backfill, Starting
  <2>3. CASE CreateDatabase(p) \/ Preflight(p)
    BY <2>3 DEF CreateDatabase, Preflight, Starting
  <2>4. CASE Migrate(p)
    BY <2>4 DEF Migrate, Starting
  <2> QED BY <2>1, <2>2, <2>3, <2>4
<1> QED BY <1>3, <1>4, <1>5

LEMMA ServeKeepsFile ==
  ASSUME FileInv, NEW p \in Processes, Serve(p)
  PROVE  FileInv'
<1> DEFINE memory == [process[p] EXCEPT !.pc = "serving", !.revision = 1]
<1>1. At(p, "ready") /\ UNCHANGED <<file, lock>>
      /\ process' = [process EXCEPT ![p] = memory]
  BY DEF Serve, disk
<1>2. CASE p \in Local
  <2>1. RemembersStarting(process[p], file.now) /\ IsMemory(process[p]) /\ lock = p
        /\ DOMAIN file = {"now", "kept"}
    BY <1>1, <1>2, LocalMemory DEF At, Starting
  <2>2. Remembers(memory, file'.now)
    BY <1>1, <2>1 DEF Remembers, RemembersStarting, RemembersServing, Idle, IsMemory, Down
  <2> QED BY <1>1, <1>2, <2>1, <2>2, LocalMoves
<1>3. CASE p \notin Local
  <2>1. Elsewhere(memory)
    BY <1>3 DEF FileInv, Elsewhere, Idle, IsMemory, Down
  <2> QED BY <1>1, <1>3, <2>1, StrangerMoves
<1> QED BY <1>2, <1>3

LEMMA StartKeepsFile ==
  ASSUME FileInv, NEW p \in Processes, Start(p)
  PROVE  FileInv'
BY LockKeepsFile, LoadKeepsFile, CreateKeepsFile, SavedKeepsFile, OpeningKeepsFile,
   ServeKeepsFile DEF Start
-----------------------------------------------------------------------------
(* Saves, and who asks for them.                                           *)

\* Only who holds the lock has a call or a job.
LEMMA BusyIsLocal ==
  ASSUME FileInv, NEW p \in Processes, Writing(p) \/ InFlight(p)
  PROVE  /\ p \in Local /\ lock = p /\ IsMemory(process[p]) /\ DOMAIN file = {"now", "kept"}
         /\ \/ At(p, "saving") /\ RemembersSaving(process[p], file.now)
            \/ At(p, "serving") /\ RemembersServing(process[p], file.now)
<1>1. p \in Local
  BY StrangerMemory DEF Writing, InFlight
<1> QED BY <1>1, LocalMemory DEF Writing, InFlight, At

LEMMA RenameKeepsFile ==
  ASSUME FileInv, NEW p \in Processes, JobRenames(p), ~IsJob(Null)
  PROVE  FileInv'
<1> DEFINE job == [process[p].job EXCEPT !.stage = "named"]
           memory == [process[p] EXCEPT !.job = job,
                                        !.astray = @ \/ ~process[p].job.attached]
<1>1. /\ p \in Local /\ lock = p /\ lock' = lock /\ Writing(p)
      /\ IsMemory(process[p]) /\ DOMAIN file = {"now", "kept"}
      /\ \/ RemembersSaving(process[p], file.now) \/ RemembersServing(process[p], file.now)
  BY BusyIsLocal DEF JobRenames
<1>2. process' = [process EXCEPT ![p] = memory]
  BY <1>1 DEF JobRenames, FileInv, Local, IsMemory, Down
<1>3. DOMAIN file' = {"now", "kept"} /\ file'.now = process[p].job.value
  BY DEF JobRenames, Renamed
<1>4. IsJob(process[p].job)
  BY <1>1 DEF RemembersSaving, RemembersServing, Writing
<1>5. /\ IsJob(job) /\ job.value = process[p].job.value /\ ~Ahead(job)
      /\ job.attached = process[p].job.attached
  BY <1>4 DEF IsJob, Ahead
<1>6. /\ IsMemory(memory) /\ memory.pc = process[p].pc /\ memory.job = job
      /\ memory.call = process[p].call /\ memory.value = process[p].value
      /\ memory.astray = (process[p].astray \/ ~process[p].job.attached)
  BY <1>1 DEF IsMemory, Down
<1>7. Remembers(memory, file'.now)
  <2>1. CASE RemembersSaving(process[p], file.now)
    <3>1. RemembersSaving(memory, file'.now)
      BY <2>1, <1>3, <1>5, <1>6 DEF RemembersSaving
    <3> QED BY <3>1, <1>6 DEF Remembers
  <2>2. CASE RemembersServing(process[p], file.now)
    <3>1. memory.job # Null => job.attached \/ memory.astray
      BY <1>4, <1>5, <1>6 DEF IsJob
    <3>2. memory.job # Null
      BY <1>5, <1>6
    <3>3. RemembersServing(memory, file'.now)
      BY <2>2, <1>3, <1>5, <1>6, <3>1, <3>2 DEF RemembersServing
    <3> QED BY <3>3, <1>6 DEF Remembers
  <2> QED BY <1>1, <2>1, <2>2
<1> QED BY <1>1, <1>2, <1>3, <1>7, LocalMoves

\* What a local service remembers after a step that leaves the file alone.
LEMMA ServingMoves ==
  ASSUME FileInv, NEW p \in Local, NEW memory, At(p, "serving"),
         process' = [process EXCEPT ![p] = memory], UNCHANGED <<file, lock>>,
         IsMemory(memory), RemembersServing(memory, file.now)
  PROVE  FileInv'
<1>1. lock = p /\ DOMAIN file = {"now", "kept"}
  BY LocalMemory DEF At
<1>2. Remembers(memory, file'.now)
  BY DEF Remembers
<1> QED BY <1>1, <1>2, LocalMoves

LEMMA SyncKeepsFile ==
  ASSUME FileInv, NEW p \in Processes, JobSyncs(p), ~IsJob(Null)
  PROVE  FileInv'
<1> DEFINE job == [process[p].job EXCEPT !.stage = "written"]
           memory == [process[p] EXCEPT !.job = job]
<1>1. /\ p \in Local /\ lock = p /\ lock' = lock /\ Writing(p)
      /\ process[p].job.stage = "named"
      /\ IsMemory(process[p]) /\ DOMAIN file = {"now", "kept"}
      /\ \/ RemembersSaving(process[p], file.now) \/ RemembersServing(process[p], file.now)
  BY BusyIsLocal DEF JobSyncs
<1>2. process' = [process EXCEPT ![p] = memory]
  BY DEF JobSyncs
<1>3. DOMAIN file' = {"now", "kept"} /\ file'.now = file.now
  BY <1>1 DEF JobSyncs, Synced
<1>4. IsJob(process[p].job) /\ ~Ahead(process[p].job)
  BY <1>1 DEF RemembersSaving, RemembersServing, Writing, Ahead
<1>5. /\ IsJob(job) /\ job.value = process[p].job.value /\ ~Ahead(job)
      /\ job.attached = process[p].job.attached /\ job # Null
  BY <1>4 DEF IsJob, Ahead
<1>6. /\ IsMemory(memory) /\ memory.pc = process[p].pc /\ memory.job = job
      /\ memory.call = process[p].call /\ memory.value = process[p].value
      /\ memory.astray = process[p].astray
  BY <1>1 DEF IsMemory, Down
<1>7. Remembers(memory, file'.now)
  <2>1. CASE RemembersSaving(process[p], file.now)
    BY <2>1, <1>3, <1>4, <1>5, <1>6 DEF RemembersSaving, Remembers
  <2>2. CASE RemembersServing(process[p], file.now)
    BY <2>2, <1>1, <1>3, <1>4, <1>5, <1>6 DEF RemembersServing, Remembers, Writing
  <2> QED BY <1>1, <2>1, <2>2
<1> QED BY <1>1, <1>2, <1>3, <1>7, LocalMoves

LEMMA FailKeepsFile ==
  ASSUME FileInv, NEW p \in Processes, JobFails(p)
  PROVE  FileInv'
<1>1. CASE Exit(p)
  BY <1>1, Exits DEF JobFails, disk
<1>2. CASE Serving(p) /\ process' = [process EXCEPT ![p] = AfterFailure(@)] /\ lock' = lock
  <2> DEFINE memory == AfterFailure(process[p])
  <2>1. /\ p \in Local /\ IsMemory(process[p]) /\ RemembersServing(process[p], file.now)
        /\ Writing(p) /\ Ahead(process[p].job) /\ At(p, "serving") /\ file' = file
    BY <1>2, BusyIsLocal DEF JobFails, Serving, At, Ahead, disk, RemembersSaving
  <2>2. /\ IsMemory(memory) /\ memory.pc = "serving" /\ memory.job = Null
        /\ memory.value = process[p].value /\ memory.astray = process[p].astray
    BY <2>1 DEF AfterFailure, IsMemory, Down, RemembersServing
  <2>3. RemembersServing(memory, file.now)
    BY <2>1, <2>2 DEF RemembersServing
  <2> QED BY <1>2, <2>1, <2>2, <2>3, ServingMoves
<1> QED BY <1>1, <1>2 DEF JobFails

LEMMA PublishKeepsFile ==
  ASSUME FileInv, NEW p \in Processes, Publish(p)
  PROVE  FileInv'
<1> DEFINE memory == [process[p] EXCEPT !.value = process[p].job.value, !.revision = @ + 1,
                                        !.job = Null, !.call = Null, !.astray = FALSE]
<1>1. /\ p \in Local /\ IsMemory(process[p]) /\ RemembersServing(process[p], file.now)
      /\ process[p].job # Null /\ ~Ahead(process[p].job) /\ At(p, "serving")
      /\ UNCHANGED <<file, lock>>
  BY BusyIsLocal DEF Publish, Serving, At, Ahead, disk, RemembersSaving, Writing
<1>2. process' = [process EXCEPT ![p] = memory]
  BY DEF Publish
<1>3. /\ IsMemory(memory) /\ memory.pc = "serving" /\ memory.job = Null
      /\ memory.value = process[p].job.value
  BY <1>1 DEF IsMemory, Down, RemembersServing
<1>4. RemembersServing(memory, file.now)
  BY <1>1, <1>3 DEF RemembersServing
<1> QED BY <1>1, <1>2, <1>3, <1>4, ServingMoves

LEMMA DetachedKeepsFile ==
  ASSUME FileInv, NEW p \in Processes, DetachedEnds(p)
  PROVE  FileInv'
<1> DEFINE memory == [process[p] EXCEPT !.job = Null]
<1>1. /\ p \in Local /\ IsMemory(process[p]) /\ RemembersServing(process[p], file.now)
      /\ process[p].job # Null /\ ~Ahead(process[p].job) /\ At(p, "serving")
      /\ ~process[p].job.attached /\ UNCHANGED <<file, lock>>
  BY BusyIsLocal DEF DetachedEnds, Serving, At, Ahead, disk, RemembersSaving, Writing
<1>2. process' = [process EXCEPT ![p] = memory]
  BY DEF DetachedEnds
<1>3. /\ IsMemory(memory) /\ memory.pc = "serving" /\ memory.job = Null
      /\ memory.astray = process[p].astray
  BY <1>1 DEF IsMemory, Down, RemembersServing
<1>4. process[p].astray
  BY <1>1 DEF RemembersServing
<1>5. RemembersServing(memory, file.now)
  BY <1>3, <1>4 DEF RemembersServing
<1> QED BY <1>1, <1>2, <1>3, <1>5, ServingMoves

LEMMA JobStartKeepsFile ==
  ASSUME FileInv, NEW p \in Processes, JobStarts(p)
  PROVE  FileInv'
<1> DEFINE job == [value |-> process[p].call.value, stage |-> "temporary", attached |-> TRUE]
           memory == [process[p] EXCEPT !.job = job]
<1>1. /\ p \in Local /\ IsMemory(process[p]) /\ RemembersServing(process[p], file.now)
      /\ process[p].job = Null /\ At(p, "serving") /\ UNCHANGED <<file, lock>>
  BY BusyIsLocal DEF JobStarts, InFlight, Writing, disk, RemembersSaving
<1>2. process' = [process EXCEPT ![p] = memory]
  BY DEF JobStarts
<1>3. IsJob(job) /\ Ahead(job)
  BY DEF IsJob, Ahead
<1>4. /\ IsMemory(memory) /\ memory.pc = "serving" /\ memory.job = job
      /\ memory.value = process[p].value /\ memory.astray = process[p].astray
  BY <1>1 DEF IsMemory, Down, RemembersServing
<1>5. RemembersServing(memory, file.now)
  BY <1>1, <1>3, <1>4 DEF RemembersServing
<1> QED BY <1>1, <1>2, <1>4, <1>5, ServingMoves

LEMMA DropKeepsFile ==
  ASSUME FileInv, NEW p \in Local, Dropped(p), ~IsJob(Null)
  PROVE  FileInv'
<1> DEFINE old == process[p].job
           job == IF old = Null THEN Null ELSE [old EXCEPT !.attached = FALSE]
           astray == process[p].astray \/ (Writing(p) /\ old.stage # "temporary")
           memory == [process[p] EXCEPT !.call = Null, !.job = job, !.astray = astray]
<1>1. InFlight(p) /\ p \in Processes /\ UNCHANGED <<file, lock>>
  BY LocalMemory DEF Dropped, disk
<1>2. /\ IsMemory(process[p]) /\ RemembersServing(process[p], file.now) /\ At(p, "serving")
  BY <1>1, BusyIsLocal DEF InFlight, RemembersSaving
<1>3. process' = [process EXCEPT ![p] = memory]
  BY DEF Dropped
<1>4. astray \in BOOLEAN /\ (process[p].astray => astray)
  OBVIOUS
<1>5. /\ IsMemory(memory) /\ memory.pc = "serving" /\ memory.job = job
      /\ memory.value = process[p].value /\ memory.astray = astray
  BY <1>2, <1>4 DEF IsMemory, Down, RemembersServing
<1>6. CASE old = Null
  <2>1. job = Null
    BY <1>6
  <2> HIDE DEF memory, job, astray
  <2>2. RemembersServing(memory, file.now)
    BY <1>2, <1>4, <1>5, <1>6, <2>1 DEF RemembersServing
  <2> QED BY <1>1, <1>2, <1>3, <1>5, <2>2, ServingMoves
<1>7. CASE old # Null
  <2>1. IsJob(old)
    BY <1>2, <1>7 DEF RemembersServing
  <2>2. IsJob(job) /\ job.value = old.value /\ (Ahead(job) <=> Ahead(old)) /\ job # Null
    BY <1>7, <2>1 DEF IsJob, Ahead
  <2>3. ~Ahead(job) => astray
    BY <1>7, <2>2 DEF Ahead, Writing
  <2> HIDE DEF memory, job, astray
  <2>4. RemembersServing(memory, file.now)
    BY <1>2, <1>4, <1>5, <1>7, <2>2, <2>3 DEF RemembersServing
  <2> QED BY <1>1, <1>2, <1>3, <1>5, <2>4, ServingMoves
<1> QED BY <1>6, <1>7

\* A call that begins leaves the file, the value and the job alone.
LEMMA BeginKeepsFile ==
  ASSUME FileInv, NEW p \in Local, NEW who, NEW next, Serving(p), Begin(p, who, next)
  PROVE  FileInv'
<1> DEFINE memory == [process[p] EXCEPT !.call = [who |-> who, value |-> next]]
<1>1. /\ IsMemory(process[p]) /\ RemembersServing(process[p], file.now) /\ At(p, "serving")
      /\ UNCHANGED <<file, lock>>
  BY LocalMemory DEF Serving, Begin, disk
<1>2. process' = [process EXCEPT ![p] = memory]
  BY DEF Begin
<1>3. /\ IsMemory(memory) /\ memory.pc = "serving" /\ memory.job = process[p].job
      /\ memory.value = process[p].value /\ memory.astray = process[p].astray
  BY <1>1 DEF IsMemory, Down, RemembersServing
<1>4. RemembersServing(memory, file.now)
  BY <1>1, <1>3 DEF RemembersServing
<1> QED BY <1>1, <1>2, <1>3, <1>4, ServingMoves

LEMMA StutterKeepsFile ==
  ASSUME FileInv, UNCHANGED <<file, lock, process>>
  PROVE  FileInv'
BY DEF FileInv, At

LEMMA UsersKeepFile ==
  ASSUME FileInv, NEW p \in Local, Users(p), ~IsJob(Null)
  PROVE  FileInv'
<1>1. ASSUME NEW e \in Editors, View(e, p) \/ SaveStale(e, p) PROVE FileInv'
  BY <1>1, StutterKeepsFile DEF View, SaveStale, disk
<1>2. ASSUME NEW e \in Editors, NEW patch \in Patches, Save(e, p, patch) PROVE FileInv'
  <2>1. CASE UNCHANGED <<disk, lock, process, bounds>>
    BY <2>1, StutterKeepsFile DEF disk
  <2>2. CASE Begin(p, e, Merged(process[p].value, patch.fields))
    BY <1>2, <2>2, BeginKeepsFile DEF Save
  <2> QED BY <1>2, <2>1, <2>2 DEF Save
<1>3. ASSUME NEW cookie \in Cookies, LoggedIn(p, cookie) PROVE FileInv'
  BY <1>3, BeginKeepsFile DEF LoggedIn
<1>4. CASE Dropped(p)
  BY <1>4, DropKeepsFile
<1> QED BY <1>1, <1>2, <1>3, <1>4 DEF Users

LEMMA CrashKeepsFile ==
  ASSUME FileInv, NEW p \in Processes, Crash(p)
  PROVE  FileInv'
<1>1. Exit(p)
  BY NamesAssumption DEF Crash, LockAfter, Exit
<1> QED BY <1>1, Exits DEF Crash

LEMMA PowerLossKeepsFile ==
  ASSUME FileInv, PowerLoss
  PROVE  FileInv'
<1>1. DOMAIN file' = {"now", "kept"}
  BY DEF PowerLoss
<1>2. \A p \in Processes : process'[p] = Down
  BY DEF PowerLoss
<1>3. DOMAIN process' = Processes
  BY DEF PowerLoss
<1> QED BY <1>1, <1>2, <1>3, DownIsIdle DEF FileInv, Remembers, At, Local

LEMMA InitFileInv == Init => FileInv
<1> SUFFICES ASSUME Init PROVE FileInv
  OBVIOUS
<1>1. DOMAIN file = {"now", "kept"} /\ process = [p \in Processes |-> Down]
  BY DEF Init
<1> QED BY <1>1, DownIsIdle DEF FileInv, Remembers, At, Local

LEMMA NextFileInv == ~IsJob(Null) => (FileInv /\ [Next]_vars => FileInv')
<1> SUFFICES ASSUME ~IsJob(Null), FileInv, [Next]_vars PROVE FileInv'
  OBVIOUS
<1>1. ASSUME NEW p \in Processes, Start(p) PROVE FileInv'
  BY <1>1, StartKeepsFile
<1>2. ASSUME NEW p \in Processes, Job(p) PROVE FileInv'
  BY <1>2, JobStartKeepsFile, RenameKeepsFile, SyncKeepsFile, PublishKeepsFile,
     DetachedKeepsFile DEF Job
<1>3. ASSUME NEW p \in Processes, JobFails(p) PROVE FileInv'
  BY <1>3, FailKeepsFile
<1>4. ASSUME NEW p \in Processes, Transactions(p) PROVE FileInv'
  BY <1>4, StutterKeepsFile DEF Transactions, BeginWrite, CommitWrite
<1>5. ASSUME NEW p \in Processes, Crash(p) PROVE FileInv'
  BY <1>5, CrashKeepsFile
<1>6. ASSUME NEW p \in Local, Users(p) PROVE FileInv'
  BY <1>6, UsersKeepFile
<1>7. CASE PowerLoss
  BY <1>7, PowerLossKeepsFile
<1>8. CASE UNCHANGED vars
  BY <1>8, StutterKeepsFile DEF vars
<1> QED BY <1>1, <1>2, <1>3, <1>4, <1>5, <1>6, <1>7, <1>8 DEF Next

\* The lock leaves one process that may write, and whatever becomes of a save - its
\* caller goes away before or after the rename, the write fails, the process dies - the
\* file is what this process shows unless the save was left behind by its caller.  (Null
\* is not a job.)
THEOREM FileStaysMemory == ~IsJob(Null) => (Spec => []FileIsMemory)
<1> SUFFICES ASSUME ~IsJob(Null) PROVE Spec => []FileIsMemory
  OBVIOUS
<1>1. FileInv => FileIsMemory
  <2> SUFFICES ASSUME FileInv, NEW p \in Local, Serving(p), ~Writing(p), ~process[p].astray
               PROVE  file.now = process[p].value
    BY DEF FileIsMemory
  <2>1. RemembersServing(process[p], file.now)
    BY LocalMemory DEF Serving
  <2> QED BY <2>1 DEF RemembersServing, Writing
<1>2. FileInv /\ [Next]_vars => FileInv'
  BY NextFileInv
<1> QED BY <1>1, <1>2, InitFileInv, PTL DEF Spec
-----------------------------------------------------------------------------
(* The database: one process moves, and it may change the file.            *)

Moves(p) ==
  /\ DOMAIN process' = Processes /\ "pc" \in DOMAIN process'[p]
  /\ \A q \in Processes : q # p => process'[q] = process[q]

LEMMA OpenerMoves ==
  ASSUME DatabaseInv, NEW p \in Processes, Moves(p), DatabaseKeeps',
         db.file # Null => db'.file # Null,
         db'.file = Null => process'[p].pc \notin Opened
  PROVE  DatabaseInv'
<1>1. \A q \in Processes : "pc" \in DOMAIN process'[q]
  BY DEF DatabaseInv, Moves
<1>2. db'.file = Null => \A q \in Processes : process'[q].pc \notin Opened
  BY DEF DatabaseInv, Moves
<1> QED BY <1>1, <1>2 DEF DatabaseInv, Moves

LEMMA SameDatabaseKeeps ==
  ASSUME DatabaseKeeps, UNCHANGED <<db, committed>>
  PROVE  DatabaseKeeps'
BY DEF DatabaseKeeps, Owed, OwedBefore

\* Of a step that leaves the database alone.
LEMMA OtherMoves ==
  ASSUME DatabaseInv, NEW p \in Processes, Moves(p), UNCHANGED <<db, committed>>,
         process'[p].pc \in Opened => process[p].pc \in Opened
  PROVE  DatabaseInv'
BY OpenerMoves, SameDatabaseKeeps DEF DatabaseInv

LEMMA GoMoves ==
  ASSUME DatabaseInv, NEW p \in Processes, NEW pc, Go(p, pc)
  PROVE  Moves(p) /\ process'[p].pc = pc
BY DEF DatabaseInv, Go, Moves

\* A process that ends has nothing open.
LEMMA DownHasNothingOpen == "pc" \in DOMAIN Down /\ Down.pc \notin Opened
BY DEF Down, Opened

LEMMA ExitMoves ==
  ASSUME DatabaseInv, NEW p \in Processes, process' = [process EXCEPT ![p] = Down]
  PROVE  Moves(p) /\ process'[p].pc = "down" /\ process'[p].pc \notin Opened
BY DEF DatabaseInv, Moves, Down, Opened

\* A step that saves the configuration moves a process, which stays where it was ...
LEMMA SavingMoves ==
  ASSUME DatabaseInv, NEW p \in Processes,
         \/ JobRenames(p) \/ JobSyncs(p) \/ Publish(p) \/ DetachedEnds(p) \/ JobStarts(p)
         \/ Dropped(p) \/ (\E who, next : Begin(p, who, next))
  PROVE  Moves(p) /\ process'[p].pc = process[p].pc
<1>0. DOMAIN process = Processes /\ "pc" \in DOMAIN process[p]
  BY DEF DatabaseInv
<1>1. CASE JobRenames(p)
  BY <1>0, <1>1 DEF JobRenames, Moves
<1>2. CASE JobSyncs(p)
  BY <1>0, <1>2 DEF JobSyncs, Moves
<1>3. CASE Publish(p)
  BY <1>0, <1>3 DEF Publish, Moves
<1>4. CASE DetachedEnds(p)
  BY <1>0, <1>4 DEF DetachedEnds, Moves
<1>5. CASE JobStarts(p)
  BY <1>0, <1>5 DEF JobStarts, Moves
<1>6. CASE Dropped(p)
  BY <1>0, <1>6 DEF Dropped, Moves
<1>7. ASSUME NEW who, NEW next, Begin(p, who, next)
      PROVE  Moves(p) /\ process'[p].pc = process[p].pc
  BY <1>0, <1>7 DEF Begin, Moves
<1> QED BY <1>1, <1>2, <1>3, <1>4, <1>5, <1>6, <1>7

LEMMA LockingKeepsDatabase ==
  ASSUME DatabaseInv, NEW p \in Processes,
         Lock(p) \/ LoadConfig(p) \/ CreateConfig(p) \/ ConfigSaved(p)
  PROVE  DatabaseInv'
<1>1. UNCHANGED <<db, committed>> /\ "pc" \in DOMAIN process[p] /\ DOMAIN process = Processes
  BY DEF Lock, LoadConfig, CreateConfig, ConfigSaved, disk, DatabaseInv
<1>2. CASE Exit(p)
  BY <1>1, <1>2, ExitMoves, OtherMoves DEF Exit
<1>3. CASE Lock(p)
  BY <1>1, <1>3, GoMoves, OtherMoves DEF Lock, Opened
<1>4. CASE LoadConfig(p) /\ ~Exit(p)
  <2>1. Moves(p) /\ process'[p].pc \in {"configured", "saving"}
    BY <1>1, <1>4 DEF LoadConfig, Moves
  <2> QED BY <1>1, <2>1, OtherMoves DEF Opened
<1>5. CASE CreateConfig(p)
  <2>1. Moves(p) /\ process'[p].pc = "saving"
    BY <1>1, <1>5 DEF CreateConfig, Moves
  <2> QED BY <1>1, <2>1, OtherMoves DEF Opened
<1>6. CASE ConfigSaved(p)
  <2>1. Moves(p) /\ process'[p].pc = "configured"
    BY <1>1, <1>6 DEF ConfigSaved, Moves
  <2> QED BY <1>1, <2>1, OtherMoves DEF Opened
<1> QED BY <1>2, <1>3, <1>4, <1>5, <1>6

LEMMA JobsKeepDatabase ==
  ASSUME DatabaseInv, NEW p \in Processes, Job(p) \/ JobFails(p) \/ Dropped(p)
  PROVE  DatabaseInv'
<1>1. UNCHANGED <<db, committed>>
  BY DEF Job, JobFails, JobRenames, JobSyncs, Publish, DetachedEnds, JobStarts, Dropped, disk
<1>2. CASE Job(p) \/ Dropped(p)
  BY <1>1, <1>2, SavingMoves, OtherMoves DEF Job
<1>3. CASE JobFails(p) /\ Exit(p)
  BY <1>1, <1>3, ExitMoves, OtherMoves DEF Exit
<1>4. CASE JobFails(p) /\ process' = [process EXCEPT ![p] = AfterFailure(@)]
  <2>1. DOMAIN process = Processes /\ "pc" \in DOMAIN process[p]
    BY DEF DatabaseInv
  <2>2. Moves(p) /\ process'[p].pc = process[p].pc
    BY <1>4, <2>1 DEF AfterFailure, Moves
  <2> QED BY <1>1, <2>2, OtherMoves
<1> QED BY <1>2, <1>3, <1>4 DEF JobFails

LEMMA StutterKeepsDatabase ==
  ASSUME DatabaseInv, UNCHANGED <<db, committed, process>>
  PROVE  DatabaseInv'
BY SameDatabaseKeeps DEF DatabaseInv

LEMMA UsersKeepDatabase ==
  ASSUME DatabaseInv, NEW p \in Local, Users(p)
  PROVE  DatabaseInv'
<1>0. p \in Processes
  BY DEF Local
<1>1. ASSUME NEW who, NEW next, Begin(p, who, next) PROVE DatabaseInv'
  BY <1>0, <1>1, SavingMoves, OtherMoves DEF Begin, disk
<1>2. ASSUME NEW e \in Editors, View(e, p) \/ SaveStale(e, p) PROVE DatabaseInv'
  BY <1>2, StutterKeepsDatabase DEF View, SaveStale, disk
<1>3. ASSUME NEW e \in Editors, NEW patch \in Patches, Save(e, p, patch) PROVE DatabaseInv'
  <2>1. CASE UNCHANGED <<disk, lock, process, bounds>>
    BY <2>1, StutterKeepsDatabase DEF disk
  <2>2. CASE Begin(p, e, Merged(process[p].value, patch.fields))
    BY <1>1, <2>2
  <2> QED BY <1>3, <2>1, <2>2 DEF Save
<1>4. ASSUME NEW cookie \in Cookies, LoggedIn(p, cookie) PROVE DatabaseInv'
  BY <1>1, <1>4 DEF LoggedIn
<1> QED BY <1>0, <1>2, <1>3, <1>4, JobsKeepDatabase DEF Users
-----------------------------------------------------------------------------
(* The database is opened, migrated, checked and written.                  *)

LEMMA FreshIsDatabase == Fresh \in DatabaseFiles
BY DEF Fresh, DatabaseFiles, Objects

\* Nothing is owed before something is committed.
LEMMA NothingOwed ==
  ASSUME committed \in Histories, committed.count = 0
  PROVE  Owed = {} /\ OwedBefore = {}
BY DEF Owed, OwedBefore, Histories

LEMMA CreateKeepsDatabase ==
  ASSUME DatabaseInv, NEW p \in Processes, CreateDatabase(p)
  PROVE  DatabaseInv'
<1>1. CASE Exit(p) /\ UNCHANGED db
  BY <1>1, ExitMoves, OtherMoves DEF Exit, CreateDatabase
<1>2. CASE /\ Published(db.file, Fresh) = Fresh /\ Fresh # db.file
           /\ db' = [db EXCEPT !.file = Fresh, !.durable = FALSE] /\ Go(p, "opened")
  <2>1. db.file = Null /\ db \in DatabaseStates /\ committed \in Histories
    BY <1>2 DEF Published, DatabaseInv, DatabaseKeeps
  <2>2. committed.count = 0 /\ committed' = committed /\ db.removed = Null
    BY <2>1 DEF DatabaseInv, DatabaseKeeps, CreateDatabase
  <2>3. db' \in DatabaseStates /\ db'.file # Null /\ db'.removed = Null
    BY <1>2, <2>1, <2>2, FreshIsDatabase, NamesAssumption DEF DatabaseStates
  <2>4. Owed' = {}
    BY <2>1, <2>2, NothingOwed DEF Owed
  <2>5. DatabaseKeeps'
    BY <2>1, <2>2, <2>3, <2>4 DEF DatabaseKeeps
  <2> QED BY <1>2, <2>3, <2>5, GoMoves, OpenerMoves
<1> QED BY <1>1, <1>2 DEF CreateDatabase

\* A step that only touches the journal of a database that is there.
LEMMA JournalMoves ==
  ASSUME DatabaseInv, NEW p \in Processes, Moves(p), db.file # Null,
         NEW journal \in {Null, "hot"} \cup Processes, NEW durable \in {db.durable, TRUE},
         NEW removed \in {db.removed, db.file}, committed' = committed,
         db' = [file |-> db.file, journal |-> journal, durable |-> durable, removed |-> removed]
  PROVE  DatabaseInv'
<1>1. /\ db \in DatabaseStates /\ db.file \in DatabaseFiles
      /\ db'.file = db.file /\ db'.durable = durable /\ db'.removed = removed
  BY DEF DatabaseInv, DatabaseKeeps, DatabaseStates
<1>2. db' \in DatabaseStates
  BY <1>1 DEF DatabaseStates
<1>3. Owed' = Owed /\ OwedBefore' = OwedBefore /\ OwedBefore \subseteq Owed
  BY DEF Owed, OwedBefore
<1>4. removed # Null => OwedBefore \subseteq removed.rows
  BY <1>3 DEF DatabaseInv, DatabaseKeeps, Rows
<1>5. DatabaseKeeps'
  BY <1>1, <1>2, <1>3, <1>4 DEF DatabaseInv, DatabaseKeeps
<1> QED BY <1>1, <1>5, OpenerMoves

\* A step that rolls a journal back.
LEMMA RecoveredMoves ==
  ASSUME DatabaseInv, NEW p \in Processes, Moves(p), db.file # Null,
         db' = Recovered(db), committed' = committed
  PROVE  DatabaseInv'
<1>1. db \in DatabaseStates
  BY DEF DatabaseInv, DatabaseKeeps
<1>2. CASE db.journal = "hot"
  <2> DEFINE removed == IF db.removed = Null THEN db.file ELSE db.removed
  <2>1. db' = [file |-> db.file, journal |-> Null, durable |-> db.durable, removed |-> removed]
    BY <1>1, <1>2 DEF Recovered, DatabaseStates
  <2> QED BY <2>1, JournalMoves
<1>3. CASE db.journal # "hot"
  <2>1. db' = [file |-> db.file, journal |-> db.journal, durable |-> db.durable,
               removed |-> db.removed]
    BY <1>1, <1>3 DEF Recovered, DatabaseStates
  <2> QED BY <1>1, <2>1, JournalMoves DEF DatabaseStates
<1> QED BY <1>2, <1>3

\* A step that commits: what it replaces lacks at most what it adds.
LEMMA ReplacingMoves ==
  ASSUME DatabaseInv, NEW p \in Processes, Moves(p), db.file # Null,
         NEW now \in DatabaseFiles, db' = Replacing(now), committed' \in Histories,
         Owed' \subseteq now.rows, OwedBefore' \subseteq db.file.rows
  PROVE  DatabaseInv'
<1>1. db \in DatabaseStates /\ now # Null
  BY NamesAssumption DEF DatabaseInv, DatabaseKeeps
<1>2. /\ db' \in DatabaseStates /\ db'.file = now /\ db'.durable
      /\ db'.removed = db.file
  BY <1>1 DEF Replacing, DatabaseStates
<1>3. Owed' \subseteq Rows(db'.file)
  BY <1>1, <1>2 DEF Rows
<1>4. DatabaseKeeps'
  BY <1>1, <1>2, <1>3 DEF DatabaseKeeps
<1> QED BY <1>1, <1>2, <1>4, OpenerMoves

LEMMA MigrateKeepsDatabase ==
  ASSUME DatabaseInv, NEW p \in Processes, Migrate(p)
  PROVE  DatabaseInv'
<1>1. db.file # Null /\ db' = Recovered(db) /\ committed' = committed
  BY DEF Migrate
<1>2. Moves(p)
  BY ExitMoves, GoMoves DEF Migrate, Exit
<1> QED BY <1>1, <1>2, RecoveredMoves

LEMMA UpgradesKeepDatabase ==
  ASSUME DatabaseInv, NEW p \in Processes, Upgrade(p) \/ Upgraded(p)
  PROVE  DatabaseInv'
<1>1. /\ db.file # Null /\ committed' = committed /\ db \in DatabaseStates
      /\ committed \in Histories
  BY DEF DatabaseInv, DatabaseKeeps, Upgrade, Upgraded, At, Opened
<1>2. Moves(p)
  BY GoMoves DEF Upgrade, Upgraded
<1>3. CASE Upgrade(p)
  <2>1. db' = [file |-> db.file, journal |-> p, durable |-> db.durable, removed |-> db.removed]
    BY <1>1, <1>3 DEF Upgrade, DatabaseStates
  <2> QED BY <1>1, <1>2, <2>1, JournalMoves
<1>4. CASE Upgraded(p)
  <2> DEFINE now == [db.file EXCEPT !.version = 6, !.objects = @ \cup {"tables", "indexes"}]
  <2>1. db' = Replacing(now)
    BY <1>4 DEF Upgraded
  <2>2. db.file \in DatabaseFiles
    BY <1>1 DEF DatabaseStates
  <2>3. now \in DatabaseFiles /\ now.rows = db.file.rows
    BY <2>2 DEF DatabaseFiles, Objects
  <2>4. Owed' \subseteq now.rows /\ OwedBefore' \subseteq db.file.rows
    BY <1>1, <2>3 DEF DatabaseInv, DatabaseKeeps, Owed, OwedBefore, Rows
  <2> HIDE DEF now
  <2> QED BY <1>1, <1>2, <2>1, <2>3, <2>4, ReplacingMoves
<1> QED BY <1>3, <1>4

LEMMA OpeningKeepsDatabase ==
  ASSUME DatabaseInv, NEW p \in Processes,
         \/ OpenDatabase(p) \/ BuildDatabase(p) \/ Preflight(p) \/ Backfill(p) \/ Serve(p)
  PROVE  DatabaseInv'
<1>1. CASE OpenDatabase(p) \/ BuildDatabase(p)
  BY <1>1, GoMoves, OtherMoves DEF OpenDatabase, BuildDatabase, disk, Opened
<1>2. CASE Preflight(p)
  BY <1>2, GoMoves, ExitMoves, OtherMoves DEF Preflight, Exit, disk, Opened, At
<1>3. CASE Backfill(p)
  <2>1. db.file # Null /\ committed' = committed /\ Moves(p)
    BY <1>3, GoMoves DEF Backfill, DatabaseInv, At, Opened
  <2>2. CASE db' = Replacing(db.file)
    <3>1. db' = [file |-> db.file, journal |-> Null, durable |-> TRUE, removed |-> db.file]
      BY <2>2 DEF Replacing
    <3> QED BY <2>1, <3>1, JournalMoves
  <2>3. CASE db' = Recovered(db)
    BY <2>1, <2>3, RecoveredMoves
  <2> QED BY <1>3, <2>2, <2>3 DEF Backfill
<1>4. CASE Serve(p)
  <2>1. Moves(p) /\ process[p].pc \in Opened
    BY <1>4 DEF Serve, Moves, DatabaseInv, At, Opened
  <2> QED BY <1>4, <2>1, OtherMoves DEF Serve, disk
<1> QED BY <1>1, <1>2, <1>3, <1>4

LEMMA StayMoves ==
  ASSUME DatabaseInv, NEW p \in Processes, UNCHANGED process
  PROVE  Moves(p)
BY DEF DatabaseInv, Moves

LEMMA TransactionsKeepDatabase ==
  ASSUME DatabaseInv, NEW p \in Processes, Transactions(p)
  PROVE  DatabaseInv'
<1>0. /\ db \in DatabaseStates /\ committed \in Histories
  BY DEF DatabaseInv, DatabaseKeeps
<1>1. CASE BeginWrite(p)
  <2>1. db.file # Null /\ committed' = committed /\ Moves(p)
    BY <1>1, StayMoves DEF BeginWrite, OpensToWrite
  <2>2. db' = [file |-> db.file, journal |-> p, durable |-> db.durable, removed |-> db.removed]
    BY <1>0, <1>1 DEF BeginWrite, DatabaseStates
  <2> QED BY <2>1, <2>2, JournalMoves
<1>2. CASE CommitWrite(p)
  <2> DEFINE new == committed.count + 1
             now == [db.file EXCEPT !.rows = @ \cup {new}]
  <2>1. db.file # Null /\ Moves(p) /\ committed' = [committed EXCEPT !.count = @ + 1]
        /\ db' = Replacing(now)
    BY <1>2, StayMoves DEF CommitWrite, DatabaseInv, Serving, At, Opened
  <2>2. /\ committed' \in Histories /\ committed'.count = new /\ committed'.cut = committed.cut
        /\ committed.count \in Nat
    BY <1>0, <2>1 DEF Histories
  <2>3. db.file \in DatabaseFiles
    BY <1>0, <2>1 DEF DatabaseStates
  <2>4. now \in DatabaseFiles /\ now.rows = db.file.rows \cup {new}
    BY <2>2, <2>3 DEF DatabaseFiles
  <2>5. Owed \subseteq db.file.rows
    BY <2>1 DEF DatabaseInv, DatabaseKeeps, Rows
  <2>6. Owed' \subseteq Owed \cup {new} /\ OwedBefore' \subseteq Owed
    BY <2>2 DEF Owed, OwedBefore
  <2> HIDE DEF now, new
  <2> QED BY <2>1, <2>2, <2>4, <2>5, <2>6, ReplacingMoves
<1> QED BY <1>1, <1>2 DEF Transactions

LEMMA CrashKeepsDatabase ==
  ASSUME DatabaseInv, NEW p \in Processes, Crash(p)
  PROVE  DatabaseInv'
<1> DEFINE journal == Dead(db.journal, {p})
<1>0. db \in DatabaseStates
  BY DEF DatabaseInv, DatabaseKeeps
<1>1. Moves(p) /\ process'[p].pc \notin Opened /\ committed' = committed
  BY ExitMoves DEF Crash
<1>2. journal \in {Null, "hot"} \cup Processes
  BY <1>0 DEF Dead, DatabaseStates
<1>3. db' = [file |-> db.file, journal |-> journal, durable |-> db.durable, removed |-> db.removed]
  BY <1>0 DEF Crash, DatabaseStates
<1>4. CASE db.file # Null
  BY <1>1, <1>2, <1>3, <1>4, JournalMoves
<1>5. CASE db.file = Null
  <2>1. db.journal = Null /\ journal = Null
    BY <1>5, NamesAssumption DEF DatabaseInv, DatabaseKeeps, Dead
  <2>2. db' = db
    BY <1>0, <1>3, <2>1 DEF DatabaseStates
  <2> QED BY <1>1, <2>2, OtherMoves
<1> QED BY <1>4, <1>5

\* A loss of power leaves the database as it is, none in which nothing was committed, or
\* the one before the last transaction, which is then cut off.
LEMMA PowerLossKeepsDatabase ==
  ASSUME DatabaseInv, PowerLoss
  PROVE  DatabaseInv'
<1>0. /\ db \in DatabaseStates /\ committed \in Histories
      /\ db.file = Null => db.removed = Null
  BY DEF DatabaseInv, DatabaseKeeps
<1>1. /\ committed' = [committed EXCEPT !.cut = @ \cup {committed.count}]
      /\ committed' \in Histories /\ committed'.count = committed.count
  BY <1>0 DEF PowerLoss, Histories
<1>2. Owed' = OwedBefore /\ OwedBefore \subseteq Owed
  BY <1>0, <1>1 DEF Owed, OwedBefore, Histories
<1>3. PICK found \in DatabaseFiles \cup {Null}, journal \in {Null, "hot"} \cup Processes :
        /\ db' = Left(found, journal)
        /\ found = Null => journal = Null
        /\ committed.count # 0 => found # Null
        /\ OwedBefore \subseteq Rows(found)
  <2>1. CASE db' = Left(db.file, Dead(db.journal, Processes))
    <3>1. Dead(db.journal, Processes) \in {Null, "hot"} \cup Processes
          /\ (db.file = Null => Dead(db.journal, Processes) = Null)
      BY <1>0, NamesAssumption DEF Dead, DatabaseStates, DatabaseInv, DatabaseKeeps
    <3>2. db.file \in DatabaseFiles \cup {Null} /\ (committed.count # 0 => db.file # Null)
          /\ OwedBefore \subseteq Rows(db.file)
      BY <1>0, <1>2 DEF DatabaseStates, DatabaseInv, DatabaseKeeps
    <3> QED BY <2>1, <3>1, <3>2
  <2>2. CASE ~db.durable /\ db' = Left(Null, Null)
    <3>1. committed.count = 0
      BY <2>2 DEF DatabaseInv, DatabaseKeeps
    <3>2. OwedBefore = {}
      BY <1>0, <3>1, NothingOwed
    <3> QED BY <2>2, <3>1, <3>2
  <2>3. CASE db.removed # Null /\ db' = Left(db.removed, "hot")
    <3>1. db.removed \in DatabaseFiles \cup {Null} /\ OwedBefore \subseteq Rows(db.removed)
      BY <1>0, <2>3 DEF DatabaseStates, DatabaseInv, DatabaseKeeps, Rows
    <3> QED BY <2>3, <3>1
  <2> QED BY <2>1, <2>2, <2>3 DEF PowerLoss, Remains
<1>4. db' \in DatabaseStates /\ db'.file = found /\ db'.journal = journal
      /\ db'.durable /\ db'.removed = Null
  BY <1>3 DEF Left, DatabaseStates
<1>5. DatabaseKeeps'
  BY <1>1, <1>2, <1>3, <1>4 DEF DatabaseKeeps
<1>6. \A p \in Processes : "pc" \in DOMAIN process'[p] /\ process'[p].pc \notin Opened
  BY DownHasNothingOpen DEF PowerLoss
<1>7. DOMAIN process' = Processes
  BY DEF PowerLoss
<1> QED BY <1>5, <1>6, <1>7 DEF DatabaseInv

LEMMA InitDatabaseInv == Init => DatabaseInv
<1> SUFFICES ASSUME Init PROVE DatabaseInv
  OBVIOUS
<1>1. process = [p \in Processes |-> Down] /\ committed = [count |-> 0, cut |-> {}]
  BY DEF Init
<1>2. PICK found \in FirstDatabases : db = Left(found, Null)
  BY DEF Init
<1>3. db \in DatabaseStates /\ db.journal = Null /\ db.removed = Null
  BY <1>2, DatabasesAssumption DEF DatabaseStates, Left
<1>4. committed \in Histories /\ committed.count = 0
  BY <1>1 DEF Histories
<1>5. Owed = {}
  BY <1>4, NothingOwed
<1>6. DatabaseKeeps
  BY <1>3, <1>4, <1>5 DEF DatabaseKeeps
<1> QED BY <1>1, <1>6, DownHasNothingOpen DEF DatabaseInv

LEMMA NextDatabaseInv == DatabaseInv /\ [Next]_vars => DatabaseInv'
<1> SUFFICES ASSUME DatabaseInv, [Next]_vars PROVE DatabaseInv'
  OBVIOUS
<1>1. ASSUME NEW p \in Processes, Start(p) PROVE DatabaseInv'
  BY <1>1, LockingKeepsDatabase, OpeningKeepsDatabase, CreateKeepsDatabase,
     MigrateKeepsDatabase, UpgradesKeepDatabase DEF Start
<1>2. ASSUME NEW p \in Processes, Job(p) \/ JobFails(p) PROVE DatabaseInv'
  BY <1>2, JobsKeepDatabase
<1>3. ASSUME NEW p \in Processes, Transactions(p) \/ Crash(p) PROVE DatabaseInv'
  BY <1>3, TransactionsKeepDatabase, CrashKeepsDatabase
<1>4. ASSUME NEW p \in Local, Users(p) PROVE DatabaseInv'
  BY <1>4, UsersKeepDatabase
<1>5. CASE PowerLoss
  BY <1>5, PowerLossKeepsDatabase
<1>6. CASE UNCHANGED vars
  BY <1>6, StutterKeepsDatabase DEF vars
<1> QED BY <1>1, <1>2, <1>3, <1>4, <1>5, <1>6 DEF Next

\* Two services that create the database at once, one that migrates it while another
\* writes, journals of the dead: what was reported as committed stays in the database.
\* Each loss of power may take the transaction that was reported last by then, and none
\* that another one followed, however many losses, crashes and starts there are.
THEOREM CommittedStays == Spec => []CommittedIsKept
<1>1. DatabaseInv => CommittedIsKept
  BY DEF DatabaseInv, DatabaseKeeps, Owed, CommittedIsKept
<1> QED BY <1>1, InitDatabaseInv, NextDatabaseInv, PTL DEF Spec
-----------------------------------------------------------------------------
(* The pages: what a process has published does not change under its        *)
(* revision.                                                               *)

\* A step of p that publishes nothing.
Quiet(p) ==
  /\ DOMAIN process' = Processes
  /\ \A q \in Processes : q # p => process'[q] = process[q]
  /\ DOMAIN process'[p] = DOMAIN Down /\ process'[p].revision \in Nat
  /\ Serving(p) =>
       /\ process'[p].pc = "serving" /\ process'[p].value = process[p].value
       /\ process'[p].revision = process[p].revision

\* ... and begins no call.
CallsNothing(p) == process'[p].call = process[p].call \/ process'[p].call = Null

LEMMA QuietKeepsPages ==
  ASSUME PageInv, NEW p \in Processes, Quiet(p), page' = page
  PROVE  PageInv'
<1>1. ASSUME NEW e \in Editors, NEW q \in Processes, page'[e] # Null, page'[e].of = q
      PROVE  /\ process'[q].pc = "serving" /\ page'[e].revision <= process'[q].revision
             /\ page'[e].revision = process'[q].revision => page'[e].value = process'[q].value
  <2>1. Serving(q) /\ page[e].revision <= process[q].revision
        /\ (page[e].revision = process[q].revision => page[e].value = process[q].value)
    BY <1>1 DEF PageInv, PagesAreKnown
  <2>2. process'[q].pc = "serving" /\ process'[q].value = process[q].value
        /\ process'[q].revision = process[q].revision
    BY <2>1 DEF Quiet, Serving, At
  <2> QED BY <2>1, <2>2
<1>2. PagesAreKnown'
  BY <1>1 DEF PagesAreKnown, Serving, At
<1>3. \A q \in Processes : DOMAIN process'[q] = DOMAIN Down /\ process'[q].revision \in Nat
  BY DEF PageInv, Quiet
<1> QED BY <1>2, <1>3 DEF PageInv, Quiet

LEMMA StartsAreQuiet ==
  ASSUME PageInv, NEW p \in Processes, Start(p)
  PROVE  Quiet(p) /\ CallsNothing(p) /\ page' = page
<1>0. DOMAIN process = Processes /\ DOMAIN process[p] = DOMAIN Down
      /\ process[p].revision \in Nat
      /\ DOMAIN Down = {"pc", "value", "revision", "call", "job", "astray"}
  BY DEF PageInv, Down
<1>1. ~Serving(p) /\ page' = page
  BY DEF Start, Lock, LoadConfig, CreateConfig, ConfigSaved, OpenDatabase, BuildDatabase,
         CreateDatabase, Migrate, Upgrade, Upgraded, Preflight, Backfill, Serve, Serving, At,
         Configured
<1>2. ASSUME NEW pc, Go(p, pc) PROVE Quiet(p) /\ CallsNothing(p)
  BY <1>0, <1>1, <1>2 DEF Go, Quiet, CallsNothing
<1>3. ASSUME Exit(p) PROVE Quiet(p) /\ CallsNothing(p)
  BY <1>0, <1>1, <1>3 DEF Exit, Quiet, CallsNothing, Down
<1>4. CASE LoadConfig(p) /\ ~Exit(p)
  BY <1>0, <1>1, <1>4 DEF LoadConfig, Quiet, CallsNothing
<1>5. CASE CreateConfig(p)
  BY <1>0, <1>1, <1>5 DEF CreateConfig, Quiet, CallsNothing
<1>6. CASE ConfigSaved(p)
  BY <1>0, <1>1, <1>6 DEF ConfigSaved, Quiet, CallsNothing
<1>7. CASE Serve(p)
  BY <1>0, <1>1, <1>7 DEF Serve, Quiet, CallsNothing
<1>8. CASE Lock(p) \/ OpenDatabase(p) \/ BuildDatabase(p) \/ Upgrade(p) \/ Upgraded(p)
           \/ Backfill(p)
  BY <1>1, <1>2, <1>8 DEF Lock, OpenDatabase, BuildDatabase, Upgrade, Upgraded, Backfill
<1>9. CASE CreateDatabase(p) \/ Migrate(p) \/ Preflight(p)
  BY <1>1, <1>2, <1>3, <1>9 DEF CreateDatabase, Migrate, Preflight
<1> QED BY <1>1, <1>3, <1>4, <1>5, <1>6, <1>7, <1>8, <1>9 DEF Start

LEMMA SavesAreQuiet ==
  ASSUME PageInv, NEW p \in Processes,
         \/ JobStarts(p) \/ JobRenames(p) \/ JobSyncs(p) \/ DetachedEnds(p) \/ JobFails(p)
         \/ Dropped(p)
  PROVE  Quiet(p) /\ CallsNothing(p) /\ page' = page
<1>0. DOMAIN process = Processes /\ DOMAIN process[p] = DOMAIN Down
      /\ process[p].revision \in Nat
      /\ DOMAIN Down = {"pc", "value", "revision", "call", "job", "astray"}
  BY DEF PageInv, Down
<1>1. page' = page
  BY DEF JobStarts, JobRenames, JobSyncs, DetachedEnds, JobFails, Dropped
<1>2. CASE JobStarts(p)
  BY <1>0, <1>2 DEF JobStarts, Quiet, CallsNothing, Serving, At
<1>3. CASE JobRenames(p)
  BY <1>0, <1>3 DEF JobRenames, Quiet, CallsNothing, Serving, At
<1>4. CASE JobSyncs(p) \/ DetachedEnds(p)
  BY <1>0, <1>4 DEF JobSyncs, DetachedEnds, Quiet, CallsNothing, Serving, At
<1>5. CASE JobFails(p) /\ Exit(p) /\ ~Serving(p)
  BY <1>0, <1>1, <1>5 DEF Exit, Quiet, CallsNothing, Down
<1>6. CASE process' = [process EXCEPT ![p] = AfterFailure(@)]
  BY <1>0, <1>1, <1>6 DEF AfterFailure, Quiet, CallsNothing, Serving, At
<1>7. CASE Dropped(p)
  BY <1>0, <1>7 DEF Dropped, Quiet, CallsNothing, Serving, At
<1> QED BY <1>1, <1>2, <1>3, <1>4, <1>5, <1>6, <1>7 DEF JobFails, Serving, At

LEMMA BeginIsQuiet ==
  ASSUME PageInv, NEW p \in Processes, NEW who, NEW next, Begin(p, who, next)
  PROVE  Quiet(p) /\ process'[p].call.who = who
<1>1. Quiet(p) /\ process'[p].call = [who |-> who, value |-> next]
  BY DEF PageInv, Begin, Quiet, Serving, At, Down
<1> QED BY <1>1

\* What was published last has a revision that no page had of this process.
LEMMA PublishKeepsPages ==
  ASSUME PageInv, NEW p \in Processes, Publish(p)
  PROVE  PageInv' /\ CallsNothing(p)
<1>0. DOMAIN process = Processes /\ DOMAIN process[p] = DOMAIN Down
      /\ process[p].revision \in Nat /\ DOMAIN page = Editors
      /\ DOMAIN Down = {"pc", "value", "revision", "call", "job", "astray"}
  BY DEF PageInv, Down
<1> DEFINE shown == [revision |-> process[p].revision + 1, value |-> process[p].job.value,
                     of |-> p]
<1>1. /\ DOMAIN process' = Processes /\ \A q \in Processes : q # p => process'[q] = process[q]
      /\ DOMAIN process'[p] = DOMAIN Down /\ process'[p].pc = "serving"
      /\ process'[p].revision = process[p].revision + 1 /\ process'[p].call = Null
      /\ process'[p].value = process[p].job.value
  BY <1>0 DEF Publish, Serving, At
<1>2. DOMAIN page' = Editors /\ \A e \in Editors : page'[e] = page[e] \/ page'[e] = shown
  BY <1>0 DEF Publish
<1>3. \A e \in Editors : page'[e] # Null => IsPage(page'[e])
  BY <1>0, <1>2 DEF PageInv, IsPage
<1>4. ASSUME NEW e \in Editors, NEW q \in Processes, page'[e] # Null, page'[e].of = q
      PROVE  /\ process'[q].pc = "serving" /\ page'[e].revision <= process'[q].revision
             /\ page'[e].revision = process'[q].revision => page'[e].value = process'[q].value
  <2>1. CASE page'[e] = shown
    BY <2>1, <1>0, <1>1, <1>4
  <2>2. CASE page'[e] = page[e]
    <3>1. Serving(q) /\ page[e].revision <= process[q].revision /\ page[e].revision \in Nat
          /\ (page[e].revision = process[q].revision => page[e].value = process[q].value)
      BY <2>2, <1>4 DEF PageInv, PagesAreKnown, IsPage
    <3>2. CASE q = p
      BY <3>1, <3>2, <2>2, <1>0, <1>1
    <3>3. CASE q # p
      BY <3>1, <3>3, <2>2, <1>1 DEF Serving, At
    <3> QED BY <3>2, <3>3
  <2> QED BY <1>2, <2>1, <2>2
<1>5. PagesAreKnown'
  BY <1>4 DEF PagesAreKnown, Serving, At
<1>6. \A q \in Processes : DOMAIN process'[q] = DOMAIN Down /\ process'[q].revision \in Nat
  BY <1>0, <1>1 DEF PageInv
<1> QED BY <1>1, <1>2, <1>3, <1>5, <1>6 DEF PageInv, CallsNothing

\* A page that shows what the process has now.
LEMMA ShowsKeepsPages ==
  ASSUME PageInv, NEW e \in Editors, NEW p \in Processes, NEW shown, Serving(p),
         page' = [page EXCEPT ![e] = shown], UNCHANGED process,
         shown # Null => /\ IsPage(shown)
                         /\ shown.of = p => /\ shown.revision = process[p].revision
                                            /\ shown.value = process[p].value
                         /\ shown.of \in Processes => shown.of = p
  PROVE  PageInv'
<1>1. /\ DOMAIN page' = Editors /\ page'[e] = shown
      /\ \A d \in Editors : d # e => page'[d] = page[d]
  BY DEF PageInv
<1>2. \A d \in Editors : page'[d] # Null => IsPage(page'[d])
  BY <1>1 DEF PageInv
<1>3. ASSUME NEW d \in Editors, NEW q \in Processes, page'[d] # Null, page'[d].of = q
      PROVE  /\ Serving(q) /\ page'[d].revision <= process[q].revision
             /\ page'[d].revision = process[q].revision => page'[d].value = process[q].value
  <2>1. CASE d = e
    BY <2>1, <1>1, <1>3 DEF PageInv
  <2>2. CASE d # e
    BY <2>2, <1>1, <1>3 DEF PageInv, PagesAreKnown
  <2> QED BY <2>1, <2>2
<1>4. PagesAreKnown'
  BY <1>3 DEF PagesAreKnown, Serving, At
<1> QED BY <1>1, <1>2, <1>4 DEF PageInv

LEMMA UsersKeepPages ==
  ASSUME PageInv, NEW p \in Local, Users(p)
  PROVE  PageInv'
<1>0. p \in Processes /\ process[p].revision \in Nat
  BY DEF Local, PageInv
<1>1. ASSUME NEW e \in Editors, View(e, p) PROVE PageInv'
  <2> DEFINE shown == [revision |-> process[p].revision, value |-> process[p].value, of |-> p]
  <2>1. IsPage(shown) /\ shown.of = p /\ shown.revision = process[p].revision
        /\ shown.value = process[p].value
    BY <1>0 DEF IsPage
  <2>2. Serving(p) /\ page' = [page EXCEPT ![e] = shown] /\ UNCHANGED process
    BY <1>1 DEF View
  <2> HIDE DEF shown
  <2> QED BY <1>0, <2>1, <2>2, ShowsKeepsPages
<1>2. ASSUME NEW e \in Editors, SaveStale(e, p) PROVE PageInv'
  <2>1. Serving(p) /\ page' = [page EXCEPT ![e] = Null] /\ UNCHANGED process
    BY <1>2 DEF SaveStale
  <2> QED BY <1>0, <2>1, ShowsKeepsPages
<1>3. ASSUME NEW e \in Editors, NEW patch \in Patches, Save(e, p, patch) PROVE PageInv'
  <2> DEFINE next == Merged(process[p].value, patch.fields)
  <2>1. /\ Serving(p) /\ page[e] # Null /\ ~Stale(page[e].revision, process[p].revision)
        /\ \/ /\ next = process[p].value /\ UNCHANGED process
              /\ page' = [page EXCEPT ![e] = [@ EXCEPT !.value = next, !.of = p]]
           \/ Begin(p, e, next) /\ page' = page
    BY <1>3 DEF Save
  <2>2. CASE Begin(p, e, next) /\ page' = page
    BY <1>0, <2>2, BeginIsQuiet, QuietKeepsPages
  <2>3. CASE /\ next = process[p].value /\ UNCHANGED process
             /\ page' = [page EXCEPT ![e] = [@ EXCEPT !.value = next, !.of = p]]
    <3> DEFINE shown == [page[e] EXCEPT !.value = process[p].value, !.of = p]
    <3>1. IsPage(page[e]) /\ page[e].revision = process[p].revision
      BY <2>1 DEF PageInv, Stale
    <3>2. IsPage(shown) /\ shown.of = p /\ shown.revision = process[p].revision
          /\ shown.value = process[p].value
      BY <3>1 DEF IsPage
    <3>3. page' = [page EXCEPT ![e] = shown]
      BY <2>3
    <3> HIDE DEF shown
    <3> QED BY <1>0, <2>1, <2>3, <3>2, <3>3, ShowsKeepsPages
  <2> QED BY <2>1, <2>2, <2>3
<1>4. ASSUME NEW cookie \in Cookies, LoggedIn(p, cookie) PROVE PageInv'
  BY <1>0, <1>4, BeginIsQuiet, QuietKeepsPages DEF LoggedIn
<1>5. CASE Dropped(p)
  BY <1>0, <1>5, SavesAreQuiet, QuietKeepsPages
<1> QED BY <1>1, <1>2, <1>3, <1>4, <1>5 DEF Users

\* The pages of a process that dies are orphans.
LEMMA OrphansKeepPages ==
  ASSUME PageInv, NEW gone \in SUBSET Processes, page' = Orphaned(page, gone),
         DOMAIN process' = Processes,
         \A p \in Processes : process'[p] = IF p \in gone THEN Down ELSE process[p]
  PROVE  PageInv'
<1>1. \A p \in Processes : DOMAIN process'[p] = DOMAIN Down /\ process'[p].revision \in Nat
  BY DEF PageInv, Down
<1>2. DOMAIN page' = Editors
  BY DEF Orphaned
<1>3. ASSUME NEW e \in Editors, page'[e] # Null
      PROVE  IsPage(page'[e]) /\ (page'[e] = page[e] \/ page'[e].of = Null)
  BY <1>3 DEF PageInv, IsPage, Orphaned
<1>4. ASSUME NEW e \in Editors, NEW p \in Processes, page'[e] # Null, page'[e].of = p
      PROVE  /\ process'[p].pc = "serving" /\ page'[e].revision <= process'[p].revision
             /\ page'[e].revision = process'[p].revision => page'[e].value = process'[p].value
  <2>1. page'[e] = page[e]
    BY <1>3, <1>4, NamesAssumption
  <2>2. p \notin gone
    BY <2>1, <1>4, NamesAssumption DEF PageInv, IsPage, Orphaned
  <2> QED BY <2>1, <2>2, <1>4 DEF PageInv, PagesAreKnown, Serving, At
<1>5. PagesAreKnown'
  BY <1>4 DEF PagesAreKnown, Serving, At
<1> QED BY <1>1, <1>2, <1>3, <1>5 DEF PageInv

LEMMA StutterKeepsPages ==
  ASSUME PageInv, UNCHANGED <<process, page>>
  PROVE  PageInv'
BY DEF PageInv, PagesAreKnown, Serving, At

LEMMA InitPageInv == Init => PageInv
BY DEF Init, PageInv, PagesAreKnown, Down

LEMMA NextPageInv == PageInv /\ [Next]_vars => PageInv'
<1> SUFFICES ASSUME PageInv, [Next]_vars PROVE PageInv'
  OBVIOUS
<1>1. ASSUME NEW p \in Processes, Start(p) PROVE PageInv'
  BY <1>1, StartsAreQuiet, QuietKeepsPages
<1>2. ASSUME NEW p \in Processes, Job(p) \/ JobFails(p) PROVE PageInv'
  BY <1>2, SavesAreQuiet, QuietKeepsPages, PublishKeepsPages DEF Job
<1>3. ASSUME NEW p \in Processes, Transactions(p) PROVE PageInv'
  BY <1>3, StutterKeepsPages DEF Transactions, BeginWrite, CommitWrite
<1>4. ASSUME NEW p \in Processes, Crash(p) PROVE PageInv'
  <2>1. page' = Orphaned(page, {p}) /\ process' = [process EXCEPT ![p] = Down]
    BY <1>4 DEF Crash
  <2> QED BY <2>1, OrphansKeepPages DEF PageInv
<1>5. ASSUME NEW p \in Local, Users(p) PROVE PageInv'
  BY <1>5, UsersKeepPages
<1>6. CASE PowerLoss
  BY <1>6, OrphansKeepPages DEF PowerLoss
<1>7. CASE UNCHANGED vars
  BY <1>7, StutterKeepsPages DEF vars
<1> QED BY <1>1, <1>2, <1>3, <1>4, <1>5, <1>6, <1>7 DEF Next

\* Only a page that saves, or a login, begins a call.
LEMMA WhoCalls ==
  ASSUME PageInv, [Next]_vars, NEW p \in Local, ~InFlight(p), process'[p].call # Null
  PROVE  \/ \E e \in Editors, patch \in Patches :
              /\ Save(e, p, patch)
              /\ Begin(p, e, Merged(process[p].value, patch.fields))
         \/ process'[p].call.who = "login"
<1>0. p \in Processes /\ process[p].call = Null /\ Down.call = Null
  BY DEF Local, InFlight, Down
<1>1. ASSUME NEW q \in Processes, Start(q) \/ Job(q) \/ JobFails(q) PROVE FALSE
  <2>1. q = p => CallsNothing(p)
    BY <1>0, <1>1, StartsAreQuiet, SavesAreQuiet, PublishKeepsPages DEF Job
  <2>2. q # p => process'[p] = process[p]
    <3>1. CASE Publish(q)
      BY <1>0, <3>1 DEF Publish, PageInv
    <3>2. CASE ~Publish(q)
      BY <1>0, <1>1, <3>2, StartsAreQuiet, SavesAreQuiet DEF Job, Quiet
    <3> QED BY <3>1, <3>2
  <2> QED BY <1>0, <2>1, <2>2 DEF CallsNothing
<1>2. ASSUME NEW q \in Processes, Transactions(q) PROVE FALSE
  BY <1>0, <1>2 DEF Transactions, BeginWrite, CommitWrite
<1>3. ASSUME NEW q \in Processes, Crash(q) PROVE FALSE
  BY <1>0, <1>3 DEF Crash, PageInv
<1>4. CASE PowerLoss
  BY <1>0, <1>4 DEF PowerLoss
<1>5. CASE UNCHANGED vars
  BY <1>0, <1>5 DEF vars
<1>6. ASSUME NEW q \in Local, NEW who, NEW next, Begin(q, who, next)
      PROVE  q = p /\ process'[p].call.who = who
  <2>1. q \in Processes
    BY DEF Local
  <2>2. q = p
    BY <1>0, <1>6, <2>1, BeginIsQuiet DEF Quiet
  <2>3. process'[q].call.who = who
    BY <1>6, <2>1, BeginIsQuiet
  <2> QED BY <2>2, <2>3
<1>7. ASSUME NEW q \in Local, Users(q)
      PROVE  \/ \E e \in Editors, patch \in Patches :
                  /\ Save(e, p, patch)
                  /\ Begin(p, e, Merged(process[p].value, patch.fields))
             \/ process'[p].call.who = "login"
  <2>1. ASSUME NEW e \in Editors, View(e, q) \/ SaveStale(e, q) PROVE FALSE
    BY <1>0, <2>1 DEF View, SaveStale
  <2>2. ASSUME NEW e \in Editors, NEW patch \in Patches, Save(e, q, patch)
        PROVE  Save(e, p, patch) /\ Begin(p, e, Merged(process[p].value, patch.fields))
    <3>1. Begin(q, e, Merged(process[q].value, patch.fields)) \/ UNCHANGED process
      BY <2>2 DEF Save
    <3>2. Begin(q, e, Merged(process[q].value, patch.fields))
      BY <1>0, <3>1
    <3>3. q = p
      BY <1>6, <3>2
    <3> QED BY <2>2, <3>2, <3>3
  <2>3. ASSUME NEW cookie \in Cookies, LoggedIn(q, cookie)
        PROVE  process'[p].call.who = "login"
    BY <1>6, <2>3 DEF LoggedIn
  <2>4. CASE Dropped(q)
    <3>1. q \in Processes
      BY DEF Local
    <3> QED BY <1>0, <2>4, <3>1, SavesAreQuiet DEF Quiet, CallsNothing
  <2> QED BY <1>7, <2>1, <2>2, <2>3, <2>4 DEF Users
<1> QED BY <1>1, <1>2, <1>3, <1>4, <1>5, <1>7 DEF Next

\* The gate and the revision make a page save over exactly what it shows, whatever
\* other pages and logins published since it was loaded, and whatever was left behind by
\* callers that went away.
THEOREM PagesSaveOverSeen == Spec => SavesOverSeen
<1>1. PageInv /\ [Next]_vars =>
        \A p \in Local, e \in Editors :
          ~InFlight(p) /\ process'[p].call # Null /\ process'[p].call.who = e
            /\ page[e].of = p => page[e].value = process[p].value
  <2> SUFFICES ASSUME PageInv, [Next]_vars, NEW p \in Local, NEW e \in Editors,
                      ~InFlight(p), process'[p].call # Null, process'[p].call.who = e,
                      page[e].of = p
               PROVE  page[e].value = process[p].value
    OBVIOUS
  <2>1. PICK d \in Editors, patch \in Patches :
          Save(d, p, patch) /\ Begin(p, d, Merged(process[p].value, patch.fields))
    BY WhoCalls, NamesAssumption
  <2>2. p \in Processes /\ d = e
    <3>1. p \in Processes
      BY DEF Local
    <3>2. process'[p].call.who = d
      BY <2>1, <3>1, BeginIsQuiet
    <3> QED BY <3>1, <3>2
  <2>3. page[e] # Null /\ page[e].revision = process[p].revision
    BY <2>1, <2>2 DEF Save, Stale
  <2> QED BY <2>2, <2>3 DEF PageInv, PagesAreKnown
<1> QED BY <1>1, InitPageInv, NextPageInv, PTL DEF Spec, SavesOverSeen
-----------------------------------------------------------------------------
(* The normal form of a configuration is not changed by being put into it   *)
(* again.                                                                  *)

LEMMA UniqueIdIs ==
  ASSUME NEW base \in Texts, NEW used, IsFiniteSet(used)
  PROVE  /\ UniqueId(base, used) \in Texts
         /\ UniqueId(base, used) \notin used
         /\ base \notin used => UniqueId(base, used) = base
<1> DEFINE last == Cardinality(used) + 2
           free == {n \in 2 .. last : Append(base, n) \notin used}
           first == CHOOSE n \in free : \A m \in free : n <= m
<1>1. last \in Nat /\ last = Cardinality(used) + 2 /\ Cardinality(used) \in Nat
  BY FS_CardinalityType
<1>2. free # {}
  <2> SUFFICES ASSUME free = {} PROVE FALSE
    OBVIOUS
  <2> DEFINE f == [n \in 2 .. last |-> Append(base, n)]
  <2>1. f \in [2 .. last -> used]
    OBVIOUS
  <2>2. ASSUME NEW n \in 2 .. last, NEW m \in 2 .. last, f[n] = f[m]
        PROVE  n = m
    <3>1. Append(base, n) = Append(base, m) /\ n \in STRING \cup Nat /\ m \in STRING \cup Nat
      BY <1>1, <2>2
    <3>2. base \in Seq(STRING \cup Nat) /\ Len(base) \in Nat
      BY LenProperties DEF Texts
    <3> DEFINE Parts == STRING \cup Nat
    <3>3. \A k \in Parts : Append(base, k)[Len(base) + 1] = k
      <4>1. base \in Seq(Parts)
        BY <3>2
      <4> HIDE DEF Parts
      <4> QED BY <4>1, AppendProperties
    <3> QED BY <3>1, <3>3
  <2> HIDE DEF f
  <2>3. f \in Injection(2 .. last, used)
    BY <2>1, <2>2 DEF Injection, IsInjective
  <2>4. Cardinality(2 .. last) = last - 1
    BY <1>1, FS_Interval
  <2>5. Cardinality(2 .. last) <= Cardinality(used)
    BY <2>3, FS_Injection
  <2> QED BY <1>1, <2>4, <2>5
<1>3. first \in free
  <2>1. free \in SUBSET Nat
    BY <1>1
  <2>2. \E n \in free : \A m \in free : n <= m
    BY <1>2, <2>1, LeastOf
  <2> HIDE DEF free
  <2> QED BY <2>2
<1>4. UniqueId(base, used) = IF base \notin used THEN base ELSE Append(base, first)
  BY DEF UniqueId
<1> HIDE DEF first
<1>5. first \in Nat /\ Append(base, first) \notin used
  BY <1>1, <1>3
<1>6. Append(base, first) \in Texts
  BY <1>5, AppendProperties DEF Texts
<1> QED BY <1>4, <1>5, <1>6

\* Ids for the first n servers.
IdsFor(servers, n, ids) ==
  ids = [i \in 1 .. n |-> UniqueId(IdBase(servers[i]), {ids[j] : j \in 1 .. i - 1})]

LEMMA IdsExist ==
  ASSUME NEW servers
  PROVE  \A n \in Nat : \E ids : IdsFor(servers, n, ids)
<1> DEFINE Without == {n \in Nat : ~\E ids : IdsFor(servers, n, ids)}
<1> SUFFICES ASSUME Without # {} PROVE FALSE
  OBVIOUS
<1>1. PICK n \in Without : \A m \in Without : n <= m
  BY LeastOf
<1>2. n # 0
  <2> DEFINE none == [i \in 1 .. 0 |-> 0]
  <2>1. none = [i \in 1 .. 0 |-> UniqueId(IdBase(servers[i]), {none[j] : j \in 1 .. i - 1})]
    OBVIOUS
  <2> HIDE DEF none
  <2>2. IdsFor(servers, 0, none)
    BY <2>1 DEF IdsFor
  <2> QED BY <1>1, <2>2
<1>3. n - 1 \in Nat /\ n - 1 \notin Without
  BY <1>1, <1>2
<1>4. PICK ids : IdsFor(servers, n - 1, ids)
  BY <1>3
<1> DEFINE next == UniqueId(IdBase(servers[n]), {ids[j] : j \in 1 .. n - 1})
           more == [i \in 1 .. n |-> IF i = n THEN next ELSE ids[i]]
<1>5. ASSUME NEW i \in 1 .. n
      PROVE  more[i] = UniqueId(IdBase(servers[i]), {more[j] : j \in 1 .. i - 1})
  <2>1. \A j \in 1 .. i - 1 : more[j] = ids[j]
    BY <1>3
  <2>2. {more[j] : j \in 1 .. i - 1} = {ids[j] : j \in 1 .. i - 1}
    BY <2>1
  <2>3. more[i] = UniqueId(IdBase(servers[i]), {ids[j] : j \in 1 .. i - 1})
    <3>1. CASE i = n
      BY <3>1
    <3>2. CASE i # n
      <4>1. i \in 1 .. n - 1 /\ more[i] = ids[i]
        BY <1>3, <3>2
      <4> QED BY <1>4, <4>1 DEF IdsFor
    <3> QED BY <3>1, <3>2
  <2> QED BY <2>2, <2>3
<1>6. more = [i \in 1 .. n |-> more[i]]
  OBVIOUS
<1> HIDE DEF more
<1>7. IdsFor(servers, n, more)
  BY <1>5, <1>6 DEF IdsFor
<1> QED BY <1>1, <1>7

LEMMA NormalIdsAre ==
  ASSUME NEW servers \in Seq(Servers)
  PROVE  /\ IdsFor(servers, Len(servers), NormalIds(servers))
         /\ \A i \in DOMAIN servers :
              /\ NormalIds(servers)[i] \in Texts
              /\ NormalIds(servers)[i] \notin {NormalIds(servers)[j] : j \in 1 .. i - 1}
              /\ IdBase(servers[i]) \in Texts
<1>1. Len(servers) \in Nat /\ DOMAIN servers = 1 .. Len(servers)
  BY LenProperties
<1>2. PICK g : IdsFor(servers, Len(servers), g)
  BY <1>1, IdsExist
<1> DEFINE Is(ids) == ids = [i \in DOMAIN servers |->
                               UniqueId(IdBase(servers[i]), {ids[j] : j \in 1 .. i - 1})]
<1>3. NormalIds(servers) = CHOOSE ids : Is(ids)
  BY DEF NormalIds
<1>4. Is(g)
  BY <1>1, <1>2 DEF IdsFor
<1> HIDE DEF Is
<1>5. Is(NormalIds(servers))
  BY <1>3, <1>4
<1> DEFINE ids == NormalIds(servers)
<1>6. IdsFor(servers, Len(servers), ids)
  BY <1>1, <1>5 DEF IdsFor, Is
<1> HIDE DEF ids
<1>7. ASSUME NEW i \in DOMAIN servers
      PROVE  /\ ids[i] \in Texts /\ ids[i] \notin {ids[j] : j \in 1 .. i - 1}
             /\ IdBase(servers[i]) \in Texts
  <2>1. servers[i] \in Servers /\ i \in 1 .. Len(servers)
    BY <1>1, ElementOfSeq
  <2>2. IdBase(servers[i]) \in Texts
    BY <2>1 DEF IdBase, Servers
  <2> DEFINE used == {ids[j] : j \in 1 .. i - 1}
  <2>3. IsFiniteSet(used)
    <3>1. IsFiniteSet(1 .. i - 1)
      BY <1>1, <2>1, FS_Interval
    <3> DEFINE f == [j \in 1 .. i - 1 |-> ids[j]]
    <3>2. f \in Surjection(1 .. i - 1, used)
      BY DEF Surjection
    <3> HIDE DEF f, used
    <3> QED BY <3>1, <3>2, FS_Surjection
  <2>4. ids[i] = UniqueId(IdBase(servers[i]), used)
    BY <1>6, <2>1 DEF IdsFor
  <2> HIDE DEF used
  <2>5. ids[i] \in Texts /\ ids[i] \notin used
    BY <2>2, <2>3, <2>4, UniqueIdIs
  <2> QED BY <2>2, <2>5 DEF used
<1> QED BY <1>6, <1>7 DEF ids

\* Servers in the normal form have ids of their own, which they keep.
LEMMA NormalServersStay ==
  ASSUME NEW servers \in Seq(Servers)
  PROVE  /\ NormalServers(servers) \in Seq(Servers)
         /\ NormalServers(NormalServers(servers)) = NormalServers(servers)
<1> DEFINE normal == NormalServers(servers)
           n == Len(servers)
           ids == NormalIds(servers)
           again == NormalIds(normal)
<1>1. n \in Nat /\ DOMAIN servers = 1 .. n /\ \A i \in 1 .. n : servers[i] \in Servers
  BY LenProperties, ElementOfSeq
<1>2. \A i \in 1 .. n :
        /\ ids[i] = UniqueId(IdBase(servers[i]), {ids[j] : j \in 1 .. i - 1})
        /\ ids[i] \in Texts /\ ids[i] \notin {ids[j] : j \in 1 .. i - 1}
  BY <1>1, NormalIdsAre DEF IdsFor
<1>3. normal = [i \in 1 .. n |-> [servers[i] EXCEPT !.id = ids[i]]]
  BY <1>1 DEF NormalServers
<1>4. normal \in [1 .. n -> Servers]
  BY <1>1, <1>2, <1>3 DEF Servers
<1> HIDE DEF normal
<1>5. normal \in Seq(Servers) /\ Len(normal) = n /\ DOMAIN normal = 1 .. n
  BY <1>1, <1>4, FunctionIsSequence
<1>6. \A i \in 1 .. n :
        /\ again[i] = UniqueId(IdBase(normal[i]), {again[j] : j \in 1 .. i - 1})
        /\ again[i] \in Texts
  BY <1>5, NormalIdsAre DEF IdsFor
<1>7. ASSUME NEW i \in 1 .. n
      PROVE  normal[i].id = ids[i] /\ IdBase(normal[i]) = ids[i]
  <2>1. /\ normal[i].id = ids[i] /\ normal[i].name = servers[i].name
        /\ normal[i].url = servers[i].url
    BY <1>1, <1>3 DEF Servers
  <2>2. CASE ~IsBlank(ids[i])
    BY <2>1, <2>2 DEF IdBase
  <2>3. CASE IsBlank(ids[i])
    <3> DEFINE used == {ids[j] : j \in 1 .. i - 1}
    <3>1. ids[i] = UniqueId(IdBase(servers[i]), used) /\ ids[i] = Blank
      BY <1>2, <2>3 DEF IsBlank
    <3>2. IdBase(servers[i]) = Blank
      <4>1. IdBase(servers[i]) \in Texts
        BY <1>1, NormalIdsAre
      <4>2. \A k : Append(IdBase(servers[i]), k) # Blank
        BY <4>1 DEF Texts, Blank
      <4>3. ids[i] = IdBase(servers[i]) \/ \E k : ids[i] = Append(IdBase(servers[i]), k)
        BY <3>1 DEF UniqueId
      <4> QED BY <3>1, <4>2, <4>3
    <3>3. IsBlank(servers[i].name) /\ IsBlank(servers[i].url)
      BY <3>2 DEF IdBase, IsBlank
    <3> QED BY <2>1, <2>3, <3>1, <3>3 DEF IdBase, IsBlank
  <2> QED BY <2>2, <2>3
<1> HIDE DEF n, ids, again
<1> DEFINE Moved == {i \in 1 .. n : again[i] # ids[i]}
<1>8. Moved = {}
  <2> SUFFICES ASSUME Moved # {} PROVE FALSE
    OBVIOUS
  <2>1. PICK i \in Moved : \A j \in Moved : i <= j
    <3>1. Moved \in SUBSET Nat
      BY <1>1
    <3> HIDE DEF Moved
    <3> QED BY <3>1, LeastOf
  <2>2. i \in 1 .. n /\ \A j \in 1 .. i - 1 : again[j] = ids[j]
    BY <1>1, <2>1
  <2>3. {again[j] : j \in 1 .. i - 1} = {ids[j] : j \in 1 .. i - 1}
    BY <2>2
  <2> DEFINE used == {ids[j] : j \in 1 .. i - 1}
  <2>4. again[i] = UniqueId(ids[i], used)
    BY <1>6, <1>7, <2>2, <2>3
  <2>5. ids[i] \in Texts /\ ids[i] \notin used
    BY <1>2, <2>2
  <2> HIDE DEF used
  <2>6. UniqueId(ids[i], used) = ids[i]
    BY <2>5 DEF UniqueId
  <2> QED BY <2>1, <2>4, <2>6
<1>9. NormalServers(normal) = normal
  <2>1. NormalServers(normal) = [i \in 1 .. n |-> [normal[i] EXCEPT !.id = again[i]]]
    BY <1>5 DEF NormalServers, again
  <2>2. \A i \in 1 .. n : [normal[i] EXCEPT !.id = again[i]] = normal[i]
    BY <1>4, <1>7, <1>8 DEF Servers
  <2> QED BY <1>4, <2>1, <2>2
<1> QED BY <1>5, <1>9 DEF normal

\* Where the keywords come first, and the list of these places in order.
FirstPlaces(words) ==
  {i \in DOMAIN words : ~IsBlank(words[i]) /\ \A j \in 1 .. i - 1 : words[j] # words[i]}

Lists(at, n, places) ==
  /\ at \in [1 .. n -> places]
  /\ \A k, l \in 1 .. n : k < l <=> at[k] < at[l]
  /\ \A i \in places : \E k \in 1 .. n : at[k] = i

\* The k-th of some places.
PlaceOf(k, places) == CHOOSE i \in places : Cardinality({j \in places : j < i}) = k - 1

LEMMA KeywordsListed ==
  ASSUME NEW words, NEW places, places = FirstPlaces(words)
  PROVE  NormalKeywords(words) = [k \in 1 .. Cardinality(places) |-> words[PlaceOf(k, places)]]
<1>1. NormalKeywords(words)
        = [k \in 1 .. Cardinality(FirstPlaces(words)) |-> words[PlaceOf(k, FirstPlaces(words))]]
  BY DEF NormalKeywords, Arranged, FirstPlaces, PlaceOf
<1> QED BY <1>1

LEMMA KeywordsAre ==
  ASSUME NEW words \in Seq(Texts)
  PROVE  /\ Len(words) \in Nat /\ DOMAIN words = 1 .. Len(words)
         /\ FirstPlaces(words) \in SUBSET (1 .. Len(words))
         /\ \E n \in Nat : \E at \in [1 .. n -> FirstPlaces(words)] :
              /\ n = Cardinality(FirstPlaces(words)) /\ Lists(at, n, FirstPlaces(words))
              /\ NormalKeywords(words) = [k \in 1 .. n |-> words[at[k]]]
<1> DEFINE places == FirstPlaces(words)
           R == {q \in places \X places : q[1] < q[2]}
           n == Cardinality(places)
           at == Ranked(places, R)
<1>1. Len(words) \in Nat /\ DOMAIN words = 1 .. Len(words) /\ places \in SUBSET (1 .. Len(words))
  BY LenProperties DEF FirstPlaces
<1>2. IsFiniteSet(places) /\ n \in Nat
  <2>1. IsFiniteSet(1 .. Len(words))
    BY <1>1, FS_Interval
  <2> HIDE DEF places
  <2> QED BY <1>1, <2>1, FS_Subset, FS_CardinalityType
<1>3. NormalKeywords(words) =
        [k \in 1 .. n |-> words[PlaceOf(k, places)]]
  BY KeywordsListed
<1> HIDE DEF places
<1>4. Orders(R, places) /\ \A i, j \in places : <<i, j>> \in R <=> i < j
  BY <1>1 DEF Orders
<1>5. \A i \in places : RankBy(i, places, R) = Cardinality({j \in places : j < i})
  <2> TAKE i \in places
  <2>1. Before(i, places, R) = {j \in places : j < i}
    BY <1>4 DEF Before
  <2> QED BY <2>1 DEF RankBy
<1> HIDE DEF R
<1>6. ASSUME NEW k \in 1 .. n
      PROVE  PlaceOf(k, places) = at[k]
  <2>1. at[k] = CHOOSE i \in places : RankBy(i, places, R) = k - 1
    BY DEF Ranked
  <2>2. (CHOOSE i \in places : RankBy(i, places, R) = k - 1)
        = PlaceOf(k, places)
    BY <1>5 DEF PlaceOf
  <2> QED BY <2>1, <2>2
<1>7. /\ DOMAIN at = 1 .. n
      /\ \A k \in 1 .. n : at[k] \in places /\ RankBy(at[k], places, R) = k - 1
      /\ \A i \in places : /\ RankBy(i, places, R) + 1 \in 1 .. n
                           /\ at[RankBy(i, places, R) + 1] = i
  BY <1>2, <1>4, RankedIsS
<1>8. at = [k \in 1 .. n |-> at[k]]
  BY DEF Ranked
<1> HIDE DEF n, at
<1>9. at \in [1 .. n -> places]
  BY <1>7, <1>8
<1>10. \A k, l \in 1 .. n : k < l <=> at[k] < at[l]
  <2> TAKE k, l \in 1 .. n
  <2>1. at[k] < at[l] <=> RankBy(at[k], places, R) < RankBy(at[l], places, R)
    BY <1>2, <1>4, <1>7, RankFollowsOrder
  <2> QED BY <1>2, <1>7, <2>1
<1>11. NormalKeywords(words) = [k \in 1 .. n |-> words[at[k]]]
  BY <1>3, <1>6
<1>12. Lists(at, n, places)
  BY <1>7, <1>9, <1>10 DEF Lists
<1>13. n = Cardinality(places)
  BY DEF n
<1> QED BY <1>1, <1>2, <1>9, <1>11, <1>12, <1>13 DEF places

\* In a whole interval, the place of a number is the number.
LEMMA PlaceInInterval ==
  ASSUME NEW n \in Nat, NEW k \in 1 .. n
  PROVE  PlaceOf(k, 1 .. n) = k
<1>1. ASSUME NEW i \in 1 .. n
      PROVE  Cardinality({j \in 1 .. n : j < i}) = i - 1
  <2>1. {j \in 1 .. n : j < i} = 1 .. i - 1
    OBVIOUS
  <2>2. Cardinality(1 .. i - 1) = i - 1
    BY FS_Interval
  <2> QED BY <2>1, <2>2
<1>2. \A i \in 1 .. n : Cardinality({j \in 1 .. n : j < i}) = k - 1 <=> i = k
  BY <1>1
<1> QED BY <1>2 DEF PlaceOf

LEMMA KeywordsStay ==
  ASSUME NEW words \in Seq(Texts)
  PROVE  /\ NormalKeywords(words) \in Seq(Texts)
         /\ NormalKeywords(NormalKeywords(words)) = NormalKeywords(words)
<1> DEFINE normal == NormalKeywords(words)
<1>1. PICK n \in Nat : \E at \in [1 .. n -> FirstPlaces(words)] :
                         /\ Lists(at, n, FirstPlaces(words))
                         /\ normal = [k \in 1 .. n |-> words[at[k]]]
  BY KeywordsAre
<1>2. PICK at \in [1 .. n -> FirstPlaces(words)] :
             /\ Lists(at, n, FirstPlaces(words))
             /\ normal = [k \in 1 .. n |-> words[at[k]]]
  BY <1>1
<1>3. \A k \in 1 .. n : at[k] \in FirstPlaces(words) /\ at[k] \in 1 .. Len(words)
                        /\ words[at[k]] \in Texts
  <2>1. FirstPlaces(words) \in SUBSET (1 .. Len(words))
    BY KeywordsAre
  <2> QED BY <1>2, <2>1, ElementOfSeq
<1>4. normal \in [1 .. n -> Texts]
  BY <1>2, <1>3
<1> HIDE DEF normal
<1>5. normal \in Seq(Texts) /\ Len(normal) = n /\ DOMAIN normal = 1 .. n
  BY <1>4, FunctionIsSequence
<1>6. ASSUME NEW k \in 1 .. n
      PROVE  ~IsBlank(normal[k]) /\ \A l \in 1 .. k - 1 : normal[l] # normal[k]
  <2>1. ~IsBlank(words[at[k]]) /\ \A j \in 1 .. at[k] - 1 : words[j] # words[at[k]]
    BY <1>3 DEF FirstPlaces
  <2>2. ASSUME NEW l \in 1 .. k - 1
        PROVE  normal[l] # normal[k]
    <3>1. l \in 1 .. n /\ l < k
      OBVIOUS
    <3>2. at[l] < at[k]
      BY <1>2, <3>1 DEF Lists
    <3>3. at[l] \in 1 .. at[k] - 1
      BY <1>3, <3>1, <3>2
    <3> QED BY <1>2, <2>1, <3>1, <3>3
  <2> QED BY <1>2, <2>1, <2>2
<1> DEFINE all == 1 .. n
<1>7. all = FirstPlaces(normal)
  BY <1>5, <1>6 DEF FirstPlaces
<1>8. Cardinality(all) = n
  BY FS_Interval
<1> HIDE DEF all
<1>9. NormalKeywords(normal) =
        [k \in 1 .. n |-> normal[PlaceOf(k, all)]]
  <2>1. NormalKeywords(normal) =
          [k \in 1 .. Cardinality(all) |-> normal[PlaceOf(k, all)]]
    BY <1>7, KeywordsListed
  <2> QED BY <1>8, <2>1
<1>10. \A k \in 1 .. n :
         PlaceOf(k, all) = k
  BY PlaceInInterval DEF all
<1>11. NormalKeywords(normal) = normal
  BY <1>4, <1>9, <1>10
<1> QED BY <1>5, <1>11 DEF normal

\* The rules with the keywords of each in the normal form.
Tidied(rules) == [i \in DOMAIN rules |-> [rules[i] EXCEPT !.keywords = NormalKeywords(@)]]

\* The k-th of some rules in the order in which they are tried.
RuleOf(k, rules) ==
  CHOOSE i \in DOMAIN rules :
    Cardinality({j \in DOMAIN rules : RuleBefore(rules, j, i)}) = k - 1

LEMMA RulesListed ==
  ASSUME NEW rules, NEW tidied, tidied = Tidied(rules)
  PROVE  NormalRules(rules)
           = [k \in 1 .. Cardinality(DOMAIN tidied) |-> tidied[RuleOf(k, tidied)]]
<1>1. NormalRules(rules)
        = [k \in 1 .. Cardinality(DOMAIN Tidied(rules)) |->
             Tidied(rules)[RuleOf(k, Tidied(rules))]]
  BY DEF NormalRules, Arranged, RuleOf, Tidied
<1> QED BY <1>1

LEMMA TidiedRules ==
  ASSUME NEW rules \in Seq(Rules)
  PROVE  /\ Tidied(rules) \in Seq(Rules)
         /\ Len(Tidied(rules)) = Len(rules) /\ Len(rules) \in Nat
         /\ DOMAIN Tidied(rules) = 1 .. Len(rules)
         /\ \A i \in 1 .. Len(rules) :
              /\ Tidied(rules)[i] \in Rules
              /\ NormalKeywords(Tidied(rules)[i].keywords) = Tidied(rules)[i].keywords
<1> DEFINE n == Len(rules)
<1>1. n \in Nat /\ DOMAIN rules = 1 .. n /\ \A i \in 1 .. n : rules[i] \in Rules
  BY LenProperties, ElementOfSeq
<1>2. \A i \in 1 .. n : /\ NormalKeywords(rules[i].keywords) \in Seq(Texts)
                        /\ NormalKeywords(NormalKeywords(rules[i].keywords))
                             = NormalKeywords(rules[i].keywords)
  BY <1>1, KeywordsStay DEF Rules
<1>3. ASSUME NEW i \in 1 .. n
      PROVE  /\ [rules[i] EXCEPT !.keywords = NormalKeywords(@)] \in Rules
             /\ [rules[i] EXCEPT !.keywords = NormalKeywords(@)].keywords
                  = NormalKeywords(rules[i].keywords)
  BY <1>1, <1>2 DEF Rules
<1>4. Tidied(rules) = [i \in 1 .. n |-> [rules[i] EXCEPT !.keywords = NormalKeywords(@)]]
  BY <1>1 DEF Tidied
<1>5. Tidied(rules) \in [1 .. n -> Rules]
  BY <1>3, <1>4
<1>6. Tidied(rules) \in Seq(Rules) /\ Len(Tidied(rules)) = n
  BY <1>1, <1>5, FunctionIsSequence
<1>7. \A i \in 1 .. n : Tidied(rules)[i].keywords = NormalKeywords(rules[i].keywords)
  BY <1>3, <1>4
<1> QED BY <1>1, <1>2, <1>5, <1>6, <1>7

LEMMA OrderOfNames ==
  ASSUME NEW name \in RuleNames
  PROVE  NameOrder(name) \in Int
<1>1. CASE name = Blank
  BY <1>1 DEF NameOrder, IsBlank
<1>2. CASE name # Blank
  <2>1. name \in Seq(Nat) /\ Len(name) \in Nat /\ Len(name) # 0
    BY <1>2, LenProperties, EmptySeq DEF Blank, RuleNames
  <2>2. name[1] \in Nat
    BY <2>1, ElementOfSeq
  <2> QED BY <1>2, <2>2 DEF NameOrder, IsBlank
<1> QED BY <1>1, <1>2

LEMMA RulesOrdered ==
  ASSUME NEW rules \in Seq(Rules), NEW R,
         R = {q \in (1 .. Len(rules)) \X (1 .. Len(rules)) : RuleBefore(rules, q[1], q[2])}
  PROVE  /\ Orders(R, 1 .. Len(rules))
         /\ \A i, j \in 1 .. Len(rules) : <<i, j>> \in R <=> RuleBefore(rules, i, j)
<1> DEFINE n == Len(rules)
           Name(i) == NameOrder(rules[i].name)
           Priority(i) == rules[i].priority
<1>1. n \in Nat /\ \A i \in 1 .. n : rules[i] \in Rules
  BY LenProperties, ElementOfSeq
<1>2. \A i \in 1 .. n : Name(i) \in Int /\ Priority(i) \in Int
  BY <1>1, OrderOfNames DEF Rules
<1>3. \A i, j \in 1 .. n : <<i, j>> \in R <=> RuleBefore(rules, i, j)
  OBVIOUS
<1>4. \A i, j \in 1 .. n :
        RuleBefore(rules, i, j) <=>
          \/ Priority(i) > Priority(j)
          \/ Priority(i) = Priority(j) /\ Name(i) < Name(j)
          \/ Priority(i) = Priority(j) /\ Name(i) = Name(j) /\ i < j
  BY DEF RuleBefore
<1> HIDE DEF n, Name, Priority
<1>5. \A i \in 1 .. n : i \in Int
  BY <1>1
<1>6. \A i, j \in 1 .. n : /\ ~RuleBefore(rules, i, i)
                           /\ i = j \/ RuleBefore(rules, i, j) \/ RuleBefore(rules, j, i)
  BY <1>2, <1>4, <1>5
<1>7. \A i, j, k \in 1 .. n :
        RuleBefore(rules, i, j) /\ RuleBefore(rules, j, k) => RuleBefore(rules, i, k)
  BY <1>2, <1>4, <1>5
<1>8. Orders(R, 1 .. n)
  BY <1>3, <1>6, <1>7 DEF Orders
<1> QED BY <1>3, <1>8 DEF n

\* Where the rules stand, in the order in which they are tried.
LEMMA RulesAre ==
  ASSUME NEW rules \in Seq(Rules), NEW n, n = Len(rules), NEW tidied, tidied = Tidied(rules)
  PROVE  \E at \in [1 .. n -> 1 .. n] :
           /\ \A k, l \in 1 .. n : k < l <=> RuleBefore(tidied, at[k], at[l])
           /\ NormalRules(rules) = [k \in 1 .. n |-> tidied[at[k]]]
<1> DEFINE places == 1 .. n
           R == {q \in places \X places : RuleBefore(tidied, q[1], q[2])}
           at == Ranked(places, R)
<1>1. n \in Nat /\ tidied \in Seq(Rules) /\ DOMAIN tidied = places /\ Len(tidied) = n
  BY TidiedRules
<1>2. IsFiniteSet(places) /\ Cardinality(places) = n
  <2>1. 1 \in Int /\ n \in Int /\ (n = 0 \/ 1 <= n)
    BY <1>1
  <2>2. /\ IsFiniteSet(1 .. n)
        /\ Cardinality(1 .. n) = (IF 1 > n THEN 0 ELSE n - 1 + 1)
    BY ONLY <2>1, FS_Interval
  <2> QED BY <2>1, <2>2
<1>3. Orders(R, places) /\ \A i, j \in places : <<i, j>> \in R <=> RuleBefore(tidied, i, j)
  BY <1>1, RulesOrdered
<1> HIDE DEF places, R
<1>4. \A i \in places :
        RankBy(i, places, R) = Cardinality({j \in places : RuleBefore(tidied, j, i)})
  <2> TAKE i \in places
  <2>1. Before(i, places, R) = {j \in places : RuleBefore(tidied, j, i)}
    BY <1>3 DEF Before
  <2> QED BY <2>1 DEF RankBy
<1>5. ASSUME NEW k \in 1 .. n
      PROVE  RuleOf(k, tidied) = at[k]
  <2>1. at[k] = CHOOSE i \in places : RankBy(i, places, R) = k - 1
    BY <1>2 DEF Ranked
  <2>2. RuleOf(k, tidied) =
          CHOOSE i \in places : Cardinality({j \in places : RuleBefore(tidied, j, i)}) = k - 1
    BY <1>1 DEF RuleOf
  <2>3. (CHOOSE i \in places : RankBy(i, places, R) = k - 1)
        = (CHOOSE i \in places :
             Cardinality({j \in places : RuleBefore(tidied, j, i)}) = k - 1)
    BY <1>4
  <2> QED BY <2>1, <2>2, <2>3
<1>6. /\ DOMAIN at = 1 .. n
      /\ \A k \in 1 .. n : at[k] \in places /\ RankBy(at[k], places, R) = k - 1
  BY <1>2, <1>3, RankedIsS
<1>7. at = [k \in 1 .. n |-> at[k]]
  BY <1>2 DEF Ranked
<1> HIDE DEF at
<1>8. at \in [1 .. n -> places]
  BY <1>6, <1>7
<1>9. \A k, l \in 1 .. n : k < l <=> RuleBefore(tidied, at[k], at[l])
  <2> TAKE k, l \in 1 .. n
  <2>1. <<at[k], at[l]>> \in R <=> RankBy(at[k], places, R) < RankBy(at[l], places, R)
    BY <1>2, <1>3, <1>6, RankFollowsOrder
  <2> QED BY <1>1, <1>3, <1>6, <2>1
<1>10. NormalRules(rules) = [k \in 1 .. n |-> tidied[at[k]]]
  <2>1. NormalRules(rules) = [k \in 1 .. n |-> tidied[RuleOf(k, tidied)]]
    BY <1>1, <1>2, RulesListed
  <2> QED BY <1>5, <2>1
<1> QED BY <1>8, <1>9, <1>10 DEF places

LEMMA RulesStay ==
  ASSUME NEW rules \in Seq(Rules)
  PROVE  /\ NormalRules(rules) \in Seq(Rules)
         /\ NormalRules(NormalRules(rules)) = NormalRules(rules)
<1> DEFINE n == Len(rules)
           tidied == Tidied(rules)
           normal == NormalRules(rules)
<1>1. /\ n \in Nat /\ tidied \in Seq(Rules)
      /\ \A i \in 1 .. n : /\ tidied[i] \in Rules
                           /\ NormalKeywords(tidied[i].keywords) = tidied[i].keywords
  BY TidiedRules
<1>2. PICK at \in [1 .. n -> 1 .. n] :
             /\ \A k, l \in 1 .. n : k < l <=> RuleBefore(tidied, at[k], at[l])
             /\ normal = [k \in 1 .. n |-> tidied[at[k]]]
  BY RulesAre
<1> HIDE DEF n, tidied, normal
<1>3. normal \in [1 .. n -> Rules] /\ \A k \in 1 .. n : normal[k] = tidied[at[k]]
  BY <1>1, <1>2
<1>4. normal \in Seq(Rules) /\ Len(normal) = n /\ DOMAIN normal = 1 .. n
  BY <1>1, <1>3, FunctionIsSequence
<1>5. Tidied(normal) = normal
  <2>1. \A k \in 1 .. n : /\ normal[k] \in Rules
                           /\ NormalKeywords(normal[k].keywords) = normal[k].keywords
    BY <1>1, <1>2, <1>3
  <2>2. \A rule \in Rules : [rule EXCEPT !.keywords = rule.keywords] = rule
    BY DEF Rules
  <2>3. Tidied(normal) = [k \in 1 .. n |-> [normal[k] EXCEPT !.keywords = NormalKeywords(@)]]
    BY <1>4 DEF Tidied
  <2>4. \A k \in 1 .. n : [normal[k] EXCEPT !.keywords = NormalKeywords(@)] = normal[k]
    BY <2>1, <2>2
  <2> QED BY <1>3, <2>3, <2>4
<1>6. ASSUME NEW k \in 1 .. n, NEW l \in 1 .. n
      PROVE  RuleBefore(normal, k, l) <=> k < l
  <2>1. normal[k] = tidied[at[k]] /\ normal[l] = tidied[at[l]]
        /\ at[k] \in 1 .. n /\ at[l] \in 1 .. n
    BY <1>2, <1>3
  <2>2. k < l <=> RuleBefore(tidied, at[k], at[l])
    BY <1>2
  <2>3. l < k <=> RuleBefore(tidied, at[l], at[k])
    BY <1>2
  <2>4. /\ normal[k].priority \in Int /\ normal[l].priority \in Int
        /\ NameOrder(normal[k].name) \in Int /\ NameOrder(normal[l].name) \in Int
    BY <1>3, OrderOfNames DEF Rules
  <2> DEFINE p(i) == normal[i].priority
             o(i) == NameOrder(normal[i].name)
  <2>5. RuleBefore(normal, k, l) <=>
          p(k) > p(l) \/ (p(k) = p(l) /\ o(k) < o(l)) \/ (p(k) = p(l) /\ o(k) = o(l) /\ k < l)
    BY DEF RuleBefore
  <2>6. k < l <=>
          p(k) > p(l) \/ (p(k) = p(l) /\ o(k) < o(l)) \/ (p(k) = p(l) /\ o(k) = o(l) /\ at[k] < at[l])
    BY <2>1, <2>2 DEF RuleBefore
  <2>7. l < k <=>
          p(l) > p(k) \/ (p(l) = p(k) /\ o(l) < o(k)) \/ (p(l) = p(k) /\ o(l) = o(k) /\ at[l] < at[k])
    BY <2>1, <2>3 DEF RuleBefore
  <2>8. p(k) \in Int /\ p(l) \in Int /\ o(k) \in Int /\ o(l) \in Int
    BY <2>4
  <2> HIDE DEF p, o
  <2>9. CASE p(k) = p(l) /\ o(k) = o(l)
    BY <2>5, <2>9, <2>8
  <2>10. CASE ~(p(k) = p(l) /\ o(k) = o(l))
    BY <2>5, <2>6, <2>8, <2>10
  <2> QED BY <2>9, <2>10
<1>7. NormalRules(normal) = [k \in 1 .. n |-> normal[RuleOf(k, normal)]]
  <2>1. Cardinality(DOMAIN normal) = n
    <3>1. 1 \in Int /\ n \in Int /\ (n = 0 \/ 1 <= n)
      BY <1>1
    <3>2. Cardinality(1 .. n) = (IF 1 > n THEN 0 ELSE n - 1 + 1)
      BY ONLY <3>1, FS_Interval
    <3> QED BY <1>4, <3>1, <3>2
  <2> QED BY <1>5, <2>1, RulesListed
<1>8. ASSUME NEW k \in 1 .. n
      PROVE  RuleOf(k, normal) = k
  <2>1. \A i \in 1 .. n : {j \in 1 .. n : RuleBefore(normal, j, i)} = {j \in 1 .. n : j < i}
    BY <1>6
  <2>2. RuleOf(k, normal) =
          CHOOSE i \in 1 .. n : Cardinality({j \in 1 .. n : RuleBefore(normal, j, i)}) = k - 1
    BY <1>4 DEF RuleOf
  <2>3. RuleOf(k, normal) = PlaceOf(k, 1 .. n)
    BY <2>1, <2>2 DEF PlaceOf
  <2> QED BY <1>1, <2>3, PlaceInInterval
<1>9. NormalRules(normal) = normal
  BY <1>3, <1>7, <1>8
<1> QED BY <1>4, <1>9 DEF normal

LEMMA CategoriesStay ==
  ASSUME NEW categories \in Seq(Categories), NEW servers \in Seq(Servers)
  PROVE  LET normal == NormalCategories(categories, servers) IN
         normal \in Seq(Categories) /\ NormalCategories(normal, servers) = normal
<1> DEFINE n == Len(categories)
           normal == NormalCategories(categories, servers)
           Filled(category) == IF IsBlank(category.server) /\ servers # <<>>
                               THEN [category EXCEPT !.server = servers[1].id] ELSE category
<1>1. n \in Nat /\ DOMAIN categories = 1 .. n /\ \A i \in 1 .. n : categories[i] \in Categories
  BY LenProperties, ElementOfSeq
<1>2. servers # <<>> => servers[1].id \in Texts
  <2> SUFFICES ASSUME servers # <<>> PROVE servers[1].id \in Texts
    OBVIOUS
  <2>1. Len(servers) \in Nat /\ Len(servers) # 0
    BY LenProperties, EmptySeq
  <2>2. servers[1] \in Servers
    BY <2>1, ElementOfSeq
  <2> QED BY <2>2 DEF Servers
<1>3. ASSUME NEW category \in Categories
      PROVE  Filled(category) \in Categories /\ Filled(Filled(category)) = Filled(category)
  <2>1. CASE IsBlank(category.server) /\ servers # <<>>
    <3>1. Filled(category) = [category EXCEPT !.server = servers[1].id]
      BY <2>1
    <3>2. Filled(category) \in Categories /\ Filled(category).server = servers[1].id
      BY <1>2, <2>1, <3>1 DEF Categories
    <3>3. Filled(Filled(category)) = Filled(category)
      <4>1. [Filled(category) EXCEPT !.server = servers[1].id] = Filled(category)
        BY <3>2 DEF Categories
      <4> QED BY <4>1
    <3> QED BY <3>2, <3>3
  <2>2. CASE ~(IsBlank(category.server) /\ servers # <<>>)
    BY <2>2
  <2> QED BY <2>1, <2>2
<1>4. normal = [i \in 1 .. n |-> Filled(categories[i])]
  BY <1>1 DEF NormalCategories
<1> HIDE DEF Filled, normal
<1>5. normal \in [1 .. n -> Categories]
  BY <1>1, <1>3, <1>4
<1>6. normal \in Seq(Categories) /\ DOMAIN normal = 1 .. n
  BY <1>1, <1>5, FunctionIsSequence
<1>7. NormalCategories(normal, servers) = [i \in 1 .. n |-> Filled(normal[i])]
  BY <1>6 DEF NormalCategories, Filled
<1>8. NormalCategories(normal, servers) = normal
  BY <1>1, <1>3, <1>4, <1>5, <1>7
<1> QED BY <1>6, <1>8 DEF normal

LEMMA WatcherStays ==
  ASSUME NEW watcher \in Watchers
  PROVE  /\ NormalWatcher(watcher) \in Watchers
         /\ NormalWatcher(NormalWatcher(watcher)) = NormalWatcher(watcher)
<1> DEFINE interval == Clamp(watcher.interval, 60, 86400)
<1>1. watcher.interval \in Nat
  BY DEF Watchers
<1>2. interval \in Nat /\ Clamp(interval, 60, 86400) = interval
  BY <1>1 DEF Clamp
<1>3. NormalWatcher(watcher) = [watcher EXCEPT !.interval = interval]
  BY DEF NormalWatcher
<1> HIDE DEF interval
<1> DEFINE normal == NormalWatcher(watcher)
<1>4. normal \in Watchers /\ normal.interval = interval
  BY <1>2, <1>3 DEF Watchers
<1> HIDE DEF normal
<1>5. NormalWatcher(normal) = [normal EXCEPT !.interval = interval]
  BY <1>2, <1>4 DEF NormalWatcher
<1>6. NormalWatcher(normal) = normal
  BY <1>4, <1>5 DEF Watchers
<1> QED BY <1>4, <1>6 DEF normal

LEMMA NormalStays ==
  ASSUME NEW config \in Configurations
  PROVE  Normal(config) \in Configurations /\ Normal(Normal(config)) = Normal(config)
<1> DEFINE servers == NormalServers(config.servers)
           categories == NormalCategories(config.categories, servers)
           watcher == NormalWatcher(config.watcher)
           rules == NormalRules(config.rules)
           normal == Normal(config)
<1>1. /\ config.servers \in Seq(Servers) /\ config.categories \in Seq(Categories)
      /\ config.watcher \in Watchers /\ config.rules \in Seq(Rules)
  BY DEF Configurations
<1>2. servers \in Seq(Servers) /\ NormalServers(servers) = servers
  BY <1>1, NormalServersStay
<1>3. watcher \in Watchers /\ NormalWatcher(watcher) = watcher
  BY <1>1, WatcherStays
<1>4. rules \in Seq(Rules) /\ NormalRules(rules) = rules
  BY <1>1, RulesStay
<1> HIDE DEF servers
<1>5. categories \in Seq(Categories) /\ NormalCategories(categories, servers) = categories
  BY <1>1, <1>2, CategoriesStay
<1>6. normal = [config EXCEPT !.servers = servers, !.categories = categories,
                              !.watcher = watcher, !.rules = rules]
  BY DEF Normal, servers
<1> HIDE DEF categories, watcher, rules
<1>7. normal \in Configurations
  <2> HIDE DEF normal
  <2> QED BY <1>2, <1>3, <1>4, <1>5, <1>6 DEF Configurations
<1>8. /\ normal.servers = servers /\ normal.categories = categories
      /\ normal.watcher = watcher /\ normal.rules = rules
  <2> HIDE DEF normal
  <2> QED BY <1>6 DEF Configurations
<1> HIDE DEF normal
<1>9. Normal(normal) = [normal EXCEPT !.servers = servers, !.categories = categories,
                                      !.watcher = watcher, !.rules = rules]
  BY <1>2, <1>3, <1>4, <1>5, <1>8 DEF Normal
<1>10. Normal(normal) = normal
  BY <1>7, <1>8, <1>9 DEF Configurations
<1> QED BY <1>7, <1>10 DEF normal

LEMMA PasswordIsText ==
  ASSUME NEW servers \in Seq(Servers), NEW id, NEW sent \in Texts
  PROVE  Secret(PasswordOf(servers, id), sent) \in Texts
<1> DEFINE same == {i \in DOMAIN servers : servers[i].id = id}
           first == CHOOSE i \in same : \A j \in same : i <= j
<1>1. Len(servers) \in Nat /\ DOMAIN servers = 1 .. Len(servers)
      /\ \A i \in DOMAIN servers : servers[i] \in Servers
  BY LenProperties, ElementOfSeq
<1>2. Blank \in Texts
  BY EmptySeq DEF Blank, Texts
<1>3. PasswordOf(servers, id) \in Texts
  <2>1. CASE same = {}
    BY <1>2, <2>1 DEF PasswordOf
  <2>2. CASE same # {}
    <3>1. same \in SUBSET Nat
      BY <1>1
    <3> HIDE DEF same
    <3>2. \E i \in same : \A j \in same : i <= j
      BY <2>2, <3>1, LeastOf
    <3>3. first \in same
      BY <3>2
    <3>4. PasswordOf(servers, id) = servers[first].password
      BY <2>2 DEF PasswordOf, same
    <3> HIDE DEF first
    <3>5. servers[first] \in Servers
      BY <1>1, <3>3 DEF same
    <3> QED BY <3>4, <3>5 DEF Servers
  <2> QED BY <2>1, <2>2
<1> QED BY <1>2, <1>3 DEF Secret

LEMMA MergeMakesServers ==
  ASSUME NEW current \in Seq(Servers), NEW sent \in Seq(Servers)
  PROVE  MergeServers(current, sent) \in Seq(Servers)
<1> DEFINE normal == NormalServers(sent)
           merged == MergeServers(current, sent)
           n == Len(normal)
<1>1. normal \in Seq(Servers)
  BY NormalServersStay
<1> HIDE DEF normal
<1>2. n \in Nat /\ DOMAIN normal = 1 .. n /\ \A i \in 1 .. n : normal[i] \in Servers
  BY <1>1, LenProperties, ElementOfSeq
<1>3. merged = [i \in 1 .. n |->
                  [normal[i] EXCEPT !.password = Secret(PasswordOf(current, normal[i].id), @)]]
  BY <1>2 DEF MergeServers, normal
<1>4. ASSUME NEW i \in 1 .. n
      PROVE  Secret(PasswordOf(current, normal[i].id), normal[i].password) \in Texts
  BY <1>2, PasswordIsText DEF Servers
<1>5. ASSUME NEW i \in 1 .. n
      PROVE  [normal[i] EXCEPT !.password = Secret(PasswordOf(current, normal[i].id), @)] \in Servers
  BY <1>2, <1>4 DEF Servers
<1> HIDE DEF merged, n
<1>6. merged \in [1 .. n -> Servers]
  BY <1>3, <1>5
<1> QED BY <1>2, <1>6, FunctionIsSequence DEF merged

\* A patch makes a configuration of a configuration.
LEMMA PatchesMakeConfigurations ==
  ASSUME NEW current \in Configurations, NEW patch \in Patches
  PROVE  Replaced(current, patch.fields) \in Configurations
<1> DEFINE sent == patch.fields
           over == [f \in Fields |-> IF f \in DOMAIN sent THEN sent[f] ELSE Default[f]]
           new == Replaced(current, sent)
<1>1. DOMAIN sent \subseteq Fields /\ over \in Configurations
  BY ConfigurationsAssumption
<1>2. \A f \in DOMAIN sent : over[f] = sent[f]
  BY <1>1
<1> HIDE DEF over
<1>3. DOMAIN current = Fields
  BY DEF Configurations, Fields
<1>4. new = [f \in Fields |->
               IF f \notin DOMAIN sent THEN current[f]
               ELSE IF f \in {"token", "cookie"} THEN Secret(current[f], sent[f])
               ELSE IF f = "servers" THEN MergeServers(current[f], sent[f])
               ELSE sent[f]]
  BY <1>3 DEF Replaced
<1> HIDE DEF new, sent
<1>5. /\ over.servers \in Seq(Servers) /\ over.categories \in Seq(Categories)
      /\ over.watcher \in Watchers /\ over.rules \in Seq(Rules)
      /\ over.ip \in STRING /\ over.origins \in Seq(Texts)
      /\ over.token \in Texts /\ over.cookie \in Texts
  BY <1>1 DEF Configurations
<1>6. /\ current.servers \in Seq(Servers) /\ current.categories \in Seq(Categories)
      /\ current.watcher \in Watchers /\ current.rules \in Seq(Rules)
      /\ current.ip \in STRING /\ current.origins \in Seq(Texts)
      /\ current.token \in Texts /\ current.cookie \in Texts
  BY DEF Configurations
<1>7. ASSUME NEW f \in {"categories", "watcher", "rules", "ip", "origins"}
      PROVE  new[f] = over[f] \/ new[f] = current[f]
  BY <1>2, <1>4 DEF Fields
<1>8. new.servers \in Seq(Servers)
  <2>1. \/ new.servers = current.servers
        \/ new.servers = MergeServers(current.servers, over.servers)
    BY <1>2, <1>4 DEF Fields
  <2> QED BY <1>5, <1>6, <2>1, MergeMakesServers
<1>9. new.token \in Texts /\ new.cookie \in Texts
  <2>1. Blank \in Texts
    BY EmptySeq DEF Blank, Texts
  <2>2. ASSUME NEW f \in {"token", "cookie"}
        PROVE  new[f] \in {current[f], over[f], Blank}
    BY <1>2, <1>4 DEF Fields, Secret
  <2> QED BY <1>5, <1>6, <2>1, <2>2
<1>10. /\ new.categories \in Seq(Categories) /\ new.watcher \in Watchers
       /\ new.rules \in Seq(Rules) /\ new.ip \in STRING /\ new.origins \in Seq(Texts)
  BY <1>5, <1>6, <1>7
<1>11. new = [f \in Fields |-> new[f]]
  BY <1>4
<1>12. new \in Configurations
  BY <1>8, <1>9, <1>10, <1>11 DEF Configurations, Fields
<1> QED BY <1>12 DEF new, sent
-----------------------------------------------------------------------------
(* The configuration: whatever is on its way to the file is in normal form. *)

\* The normal form of something that is allowed is allowed.
Good(contents) ==
  contents \in Configurations /\ Allowed(contents) /\ Normal(contents) = contents

Sourced(contents) == contents = Default \/ \E copy \in backups : contents = Normal(copy)

MayBeKept(contents) == Good(contents) /\ (saves = 0 => Sourced(contents))

JobsAreGood(job) == "value" \in DOMAIN job /\ MayBeKept(job.value)

ConfigInv ==
  /\ saves \in Nat /\ DOMAIN file = {"now", "kept"} /\ file.now \in file.kept
  /\ \A contents \in file.kept \ FirstFiles : MayBeKept(contents)
  /\ \A p \in Local : process[p].pc \notin {"down", "locked"} => Good(process[p].value)
  /\ \A p \in Processes :
       /\ process[p].job # Null => JobsAreGood(process[p].job)
       /\ process[p].call # Null => Good(process[p].call.value) /\ saves # 0

LEMMA NormalIsGood ==
  ASSUME NEW contents \in Configurations, Allowed(contents)
  PROVE  Good(Normal(contents))
<1>1. Normal(contents) \in Configurations /\ Normal(Normal(contents)) = Normal(contents)
  BY NormalStays
<1> HIDE DEF Normal
<1> QED BY <1>1 DEF Good, Allowed

\* The cookie has no part in the normal form, nor in what is refused.
LEMMA CookieKeepsGood ==
  ASSUME NEW contents, Good(contents),
         NEW cookie \in Cookies
  PROVE  Good([contents EXCEPT !.cookie = cookie])
<1> DEFINE new == [contents EXCEPT !.cookie = cookie]
<1>1. new \in Configurations /\ DOMAIN contents = Fields
  <2>1. contents \in Configurations /\ cookie \in Texts
    BY ConfigurationsAssumption DEF Good
  <2> QED BY <2>1 DEF Configurations, Fields
<1>2. /\ DOMAIN new = Fields /\ new = [field \in Fields |-> new[field]]
      /\ \A field \in Fields : field # "cookie" => new[field] = contents[field]
  BY <1>1
<1>3. \A field \in {"servers", "categories", "watcher", "rules", "ip", "origins", "token"} :
        field \in Fields /\ new[field] = contents[field]
  BY <1>2 DEF Fields
<1>4. /\ NormalServers(contents.servers) = contents.servers
      /\ NormalCategories(contents.categories, contents.servers) = contents.categories
      /\ NormalWatcher(contents.watcher) = contents.watcher
      /\ NormalRules(contents.rules) = contents.rules
  <2>1. Normal(contents) = contents
    BY DEF Good
  <2> QED BY <1>1, <2>1 DEF Normal, Fields
<1>5. Normal(new) = new
  BY <1>2, <1>3, <1>4 DEF Normal, Fields
<1>6. Allowed(new)
  BY <1>3, <1>5 DEF Allowed, Good, ManagementAllowed
<1> QED BY <1>1, <1>5, <1>6 DEF Good

\* What was good is good after any step, for the saves are counted and the backups stay.
LEMMA KeptStays ==
  ASSUME NEW contents, MayBeKept(contents),
         backups \subseteq backups', saves' = 0 => saves = 0
  PROVE  MayBeKept(contents)'
BY DEF MayBeKept, Good, Sourced

\* One process moves; what it has and what it adds to the file may be kept.
LEMMA ConfigMoves ==
  ASSUME ConfigInv, NEW p \in Processes,
         \A q \in Processes : q # p => process'[q] = process[q],
         backups \subseteq backups', saves' \in Nat, saves' = 0 => saves = 0,
         file' = file \/ (/\ DOMAIN file' = {"now", "kept"} /\ file'.now \in file'.kept
                        /\ \A contents \in file'.kept \ file.kept :
                             MayBeKept(contents)'),
         p \in Local /\ process'[p].pc \notin {"down", "locked"} =>
           Good(process'[p].value),
         process'[p].job # Null => JobsAreGood(process[p].job)',
         process'[p].call # Null => Good(process'[p].call.value) /\ saves' # 0
  PROVE  ConfigInv'
<1>1. DOMAIN file' = {"now", "kept"} /\ file'.now \in file'.kept
  BY DEF ConfigInv
<1>2. ASSUME NEW contents \in file'.kept \ FirstFiles PROVE MayBeKept(contents)'
  <2>1. CASE contents \in file.kept
    <3>1. MayBeKept(contents)
      BY <2>1 DEF ConfigInv
    <3> QED BY <3>1, KeptStays
  <2>2. CASE contents \notin file.kept
    BY <2>2
  <2> QED BY <2>1, <2>2
<1>3. ASSUME NEW q \in Local, process'[q].pc \notin {"down", "locked"}
      PROVE  Good(process'[q].value)
  BY <1>3 DEF ConfigInv, Local
<1>4. ASSUME NEW q \in Processes, q # p, process'[q].job # Null
      PROVE  JobsAreGood(process[q].job)'
  <2>1. process'[q] = process[q] /\ JobsAreGood(process[q].job)
    BY <1>4 DEF ConfigInv
  <2>2. PICK value : value = process[q].job.value
    OBVIOUS
  <2>3. MayBeKept(value)
    BY <2>1, <2>2 DEF JobsAreGood
  <2>4. MayBeKept(value)'
    BY <2>3, KeptStays
  <2> QED BY <2>1, <2>2, <2>4 DEF JobsAreGood, MayBeKept, Sourced
<1>5. ASSUME NEW q \in Processes, q # p, process'[q].call # Null
      PROVE  Good(process'[q].call.value) /\ saves' # 0
  BY <1>5 DEF ConfigInv
<1>6. ASSUME NEW q \in Local PROVE (process[q].pc \notin {"down", "locked"} =>
                                     Good(process[q].value))'
  BY <1>3 DEF Good
<1>7. ASSUME NEW q \in Processes PROVE (process[q].job # Null => JobsAreGood(process[q].job))'
  BY <1>4
<1>8. ASSUME NEW q \in Processes
      PROVE  (process[q].call # Null => Good(process[q].call.value) /\ saves # 0)'
  BY <1>5 DEF Good
<1> QED BY <1>1, <1>2, <1>6, <1>7, <1>8 DEF ConfigInv

\* Of a process that writes nothing and keeps its job and its call, or drops them.
LEMMA ConfigStays ==
  ASSUME ConfigInv, NEW p \in Processes,
         \A q \in Processes : q # p => process'[q] = process[q],
         backups \subseteq backups', saves' = saves, file' = file,
         p \in Local /\ process'[p].pc \notin {"down", "locked"} =>
           Good(process'[p].value),
         \/ process'[p].job = Null \/ process'[p].job = process[p].job
         \/ process[p].job # Null /\ "value" \in DOMAIN process'[p].job
             /\ process'[p].job.value = process[p].job.value,
         CallsNothing(p)
  PROVE  ConfigInv'
<1>1. saves' \in Nat
  BY DEF ConfigInv
<1>2. ASSUME process'[p].job # Null PROVE JobsAreGood(process[p].job)'
  <2>1. PICK value : value = process[p].job.value
    OBVIOUS
  <2>2. /\ MayBeKept(value) /\ "value" \in DOMAIN process'[p].job
        /\ process'[p].job.value = value
    BY <1>2, <2>1 DEF ConfigInv, JobsAreGood
  <2>3. MayBeKept(value)'
    BY <2>2, KeptStays
  <2> QED BY <2>2, <2>3 DEF JobsAreGood, MayBeKept, Sourced
<1>3. process'[p].call # Null => Good(process'[p].call.value) /\ saves' # 0
  BY DEF ConfigInv, CallsNothing
<1> QED BY <1>1, <1>2, <1>3, ConfigMoves

LEMMA LoadKeepsConfig ==
  ASSUME PageInv, ConfigInv, NEW p \in Processes, LoadConfig(p)
  PROVE  ConfigInv'
<1>0. /\ DOMAIN process = Processes /\ DOMAIN process[p] = DOMAIN Down
      /\ DOMAIN Down = {"pc", "value", "revision", "call", "job", "astray"}
      /\ \A q \in Processes : q # p => process'[q] = process[q]
      /\ CallsNothing(p)
  BY StartsAreQuiet DEF PageInv, Down, Start, Quiet
<1>1. saves' = saves /\ file' = file /\ backups \subseteq backups'
  BY DEF LoadConfig, bounds, BackedUp
<1>2. Loads(file.now) => file.now \in Configurations
  <2>1. file.now \in FirstFiles \/ Good(file.now)
    BY DEF ConfigInv, MayBeKept
  <2> QED BY <2>1, ConfigurationsAssumption DEF Loads, Good
<1>3. CASE Exit(p)
  BY <1>0, <1>1, <1>3, ConfigStays DEF Exit, Down
<1>4. CASE /\ Loads(file.now) /\ Allowed(file.now) /\ Normal(file.now) = file.now
           /\ process' = [process EXCEPT ![p].pc = "configured", ![p].value = file.now]
  <2>1. Good(file.now)
    BY <1>2, <1>4 DEF Good
  <2>2. process'[p].value = file.now /\ process'[p].job = process[p].job
    BY <1>0, <1>4
  <2> QED BY <1>0, <1>1, <2>1, <2>2, ConfigStays
<1>5. CASE /\ Loads(file.now) /\ Allowed(file.now) /\ backups' = BackedUp(backups, file.now)
           /\ process' = [process EXCEPT
                           ![p].pc = "saving", ![p].value = Normal(file.now),
                           ![p].job = [value |-> Normal(file.now), stage |-> "temporary",
                                       attached |-> TRUE]]
  <2>1. PICK normal : normal = Normal(file.now)
    OBVIOUS
  <2>2. Good(normal)
    BY <1>2, <1>5, <2>1, NormalIsGood
  <2>3. Sourced(normal)'
    BY <1>1, <1>5, <2>1 DEF Sourced, BackedUp
  <2>4. /\ process'[p].value = normal /\ process'[p].job.value = normal
        /\ "value" \in DOMAIN process'[p].job
    BY <1>0, <1>5, <2>1
  <2>5. JobsAreGood(process[p].job)'
    BY <2>2, <2>3, <2>4 DEF JobsAreGood, MayBeKept, Good, Sourced
  <2>6. process'[p].call # Null => Good(process'[p].call.value) /\ saves' # 0
    BY <1>0, <1>1 DEF ConfigInv, CallsNothing
  <2>7. saves' \in Nat
    BY <1>1 DEF ConfigInv
  <2> QED BY <1>0, <1>1, <2>2, <2>4, <2>5, <2>6, <2>7, ConfigMoves
<1> QED BY <1>3, <1>4, <1>5 DEF LoadConfig

LEMMA CreateKeepsConfig ==
  ASSUME PageInv, ConfigInv, NEW p \in Processes, CreateConfig(p)
  PROVE  ConfigInv'
<1>0. /\ DOMAIN process = Processes /\ DOMAIN process[p] = DOMAIN Down
      /\ DOMAIN Down = {"pc", "value", "revision", "call", "job", "astray"}
      /\ \A q \in Processes : q # p => process'[q] = process[q]
      /\ CallsNothing(p)
  BY StartsAreQuiet DEF PageInv, Down, Start, Quiet
<1>1. saves' = saves /\ file' = file /\ backups' = backups /\ saves' \in Nat
  BY DEF CreateConfig, bounds, disk, ConfigInv
<1>2. Good(Default)
  BY DefaultAssumption, ConfigurationsAssumption DEF Good
<1>3. /\ process'[p].value = Default /\ process'[p].job.value = Default
      /\ "value" \in DOMAIN process'[p].job
  BY <1>0 DEF CreateConfig
<1>4. JobsAreGood(process[p].job)'
  BY <1>2, <1>3 DEF JobsAreGood, MayBeKept, Good, Sourced
<1>5. process'[p].call # Null => Good(process'[p].call.value) /\ saves' # 0
  BY <1>0, <1>1 DEF ConfigInv, CallsNothing
<1> QED BY <1>0, <1>1, <1>2, <1>3, <1>4, <1>5, ConfigMoves

LEMMA StartKeepsConfig ==
  ASSUME PageInv, ConfigInv, NEW p \in Processes, Start(p)
  PROVE  ConfigInv'
<1>0. /\ DOMAIN process = Processes /\ DOMAIN process[p] = DOMAIN Down
      /\ DOMAIN Down = {"pc", "value", "revision", "call", "job", "astray"}
      /\ \A q \in Processes : q # p => process'[q] = process[q]
      /\ CallsNothing(p)
  BY StartsAreQuiet DEF PageInv, Down, Quiet
<1>1. CASE LoadConfig(p) \/ CreateConfig(p)
  BY <1>1, LoadKeepsConfig, CreateKeepsConfig
<1>2. CASE ~LoadConfig(p) /\ ~CreateConfig(p)
  <2>1. saves' = saves /\ file' = file /\ backups' = backups
    BY <1>2 DEF Start, Lock, ConfigSaved, OpenDatabase, BuildDatabase, CreateDatabase, Migrate,
                Upgrade, Upgraded, Preflight, Backfill, Serve, disk, bounds
  <2>2. CASE Exit(p)
    BY <1>0, <2>1, <2>2, ConfigStays DEF Exit, Down
  <2>3. CASE Lock(p)
    BY <1>0, <2>1, <2>3, ConfigStays DEF Lock, Go
  <2>4. CASE ConfigSaved(p)
    <3>1. process'[p].value = process[p].value /\ process'[p].job = Null
      BY <1>0, <2>4 DEF ConfigSaved
    <3>2. p \in Local => Good(process[p].value)
      BY <2>4 DEF ConfigSaved, At, ConfigInv
    <3> QED BY <1>0, <2>1, <3>1, <3>2, ConfigStays
  <2>5. ASSUME p \in Local => process[p].pc \notin {"down", "locked"},
               process'[p].value = process[p].value, process'[p].job = process[p].job
        PROVE  ConfigInv'
    <3>1. p \in Local => Good(process[p].value)
      BY <2>5 DEF ConfigInv
    <3> QED BY <1>0, <2>1, <2>5, <3>1, ConfigStays
  <2>6. CASE Serve(p)
    BY <1>0, <2>5, <2>6 DEF Serve, At
  <2>7. CASE \/ OpenDatabase(p) \/ BuildDatabase(p) \/ CreateDatabase(p) \/ Migrate(p)
             \/ Upgrade(p) \/ Upgraded(p) \/ Preflight(p) \/ Backfill(p)
    <3>1. p \in Local => process[p].pc \notin {"down", "locked"}
      BY <2>7 DEF OpenDatabase, BuildDatabase, CreateDatabase, Migrate, Upgrade, Upgraded,
                  Preflight, Backfill, Configured, At, Local
    <3>2. Exit(p) \/ \E pc : Go(p, pc)
      BY <2>7 DEF OpenDatabase, BuildDatabase, CreateDatabase, Migrate, Upgrade, Upgraded,
                  Preflight, Backfill
    <3>3. ASSUME NEW pc, Go(p, pc)
          PROVE  process'[p].value = process[p].value /\ process'[p].job = process[p].job
      BY <1>0, <3>3 DEF Go
    <3> QED BY <2>2, <2>5, <3>1, <3>2, <3>3
  <2> QED BY <1>2, <2>3, <2>4, <2>6, <2>7 DEF Start
<1> QED BY <1>1, <1>2

LEMMA JobsKeepConfig ==
  ASSUME PageInv, ConfigInv, NEW p \in Processes,
         Job(p) \/ JobFails(p) \/ Dropped(p)
  PROVE  ConfigInv'
<1>0. /\ DOMAIN process = Processes /\ DOMAIN process[p] = DOMAIN Down
      /\ DOMAIN Down = {"pc", "value", "revision", "call", "job", "astray"}
      /\ saves' = saves /\ saves \in Nat /\ backups' = backups
  BY DEF PageInv, Down, Job, JobFails, JobStarts, JobRenames, JobSyncs, Publish, DetachedEnds,
         Dropped, disk, bounds, ConfigInv
<1>1. /\ \A q \in Processes : q # p => process'[q] = process[q]
      /\ CallsNothing(p)
  <2>1. CASE Publish(p)
    BY <1>0, <2>1, PublishKeepsPages DEF Publish
  <2>2. CASE ~Publish(p)
    BY <2>2, SavesAreQuiet DEF Job, Quiet
  <2> QED BY <2>1, <2>2
<1>2. /\ p \in Local /\ process[p].pc \notin {"down", "locked"} => Good(process[p].value)
      /\ process[p].job # Null => JobsAreGood(process[p].job)
      /\ process[p].call # Null => Good(process[p].call.value) /\ saves # 0
  BY DEF ConfigInv
<1>3. CASE JobStarts(p)
  <2>1. /\ process'[p].job.value = process[p].call.value /\ "value" \in DOMAIN process'[p].job
        /\ process'[p].pc = process[p].pc /\ process'[p].value = process[p].value
        /\ file' = file /\ process[p].call # Null
    BY <1>0, <1>3 DEF JobStarts, disk, InFlight
  <2>2. JobsAreGood(process[p].job)'
    BY <1>0, <1>2, <2>1 DEF JobsAreGood, MayBeKept, Good
  <2>3. process'[p].call # Null => Good(process'[p].call.value) /\ saves' # 0
    BY <1>0, <1>1, <1>2 DEF CallsNothing
  <2> QED BY <1>0, <1>1, <1>2, <2>1, <2>2, <2>3, ConfigMoves
<1>4. CASE JobRenames(p) \/ JobSyncs(p)
  <2>1. /\ process[p].job # Null /\ process'[p].job.value = process[p].job.value
        /\ "value" \in DOMAIN process'[p].job /\ process'[p].pc = process[p].pc
        /\ process'[p].value = process[p].value
    <3>1. JobsAreGood(process[p].job) /\ process[p].job # Null
      BY <1>2, <1>4 DEF JobRenames, JobSyncs, Writing
    <3> QED BY <1>0, <1>4, <3>1 DEF JobRenames, JobSyncs, JobsAreGood
  <2>2. PICK value : value = process[p].job.value
    OBVIOUS
  <2>3. MayBeKept(value)'
    BY <1>0, <1>2, <2>1, <2>2, KeptStays DEF JobsAreGood
  <2>4. JobsAreGood(process[p].job)'
    BY <2>1, <2>2, <2>3 DEF JobsAreGood, MayBeKept, Sourced
  <2>5. /\ DOMAIN file' = {"now", "kept"} /\ file'.now \in file'.kept
        /\ file'.kept \subseteq file.kept \cup {value}
    BY <1>4, <2>2 DEF JobRenames, JobSyncs, Renamed, Synced, ConfigInv
  <2>6. process'[p].call # Null => Good(process'[p].call.value) /\ saves' # 0
    BY <1>0, <1>1, <1>2 DEF CallsNothing
  <2>7. \A contents \in file'.kept \ file.kept : MayBeKept(contents)'
    BY <2>3, <2>5
  <2> QED BY <1>0, <1>1, <1>2, <2>1, <2>4, <2>5, <2>6, <2>7, ConfigMoves
<1>5. CASE Publish(p)
  <2>1. /\ process'[p].value = process[p].job.value /\ process'[p].job = Null
        /\ file' = file /\ process[p].job # Null
    BY <1>0, <1>5 DEF Publish, disk, Writing
  <2>2. Good(process'[p].value)
    BY <1>2, <2>1 DEF JobsAreGood, MayBeKept
  <2> QED BY <1>0, <1>1, <2>1, <2>2, ConfigStays
<1>6. CASE DetachedEnds(p)
  <2>1. /\ process'[p].value = process[p].value /\ process'[p].job = Null
        /\ process'[p].pc = process[p].pc /\ file' = file
    BY <1>0, <1>6 DEF DetachedEnds, disk
  <2> QED BY <1>0, <1>1, <1>2, <2>1, ConfigStays
<1>7. CASE JobFails(p)
  <2>1. file' = file
    BY <1>7 DEF JobFails, disk
  <2>2. CASE Exit(p)
    BY <1>0, <1>1, <2>1, <2>2, ConfigStays DEF Exit, Down
  <2>3. CASE process' = [process EXCEPT ![p] = AfterFailure(@)]
    <3>1. /\ process'[p].value = process[p].value /\ process'[p].job = Null
          /\ process'[p].pc = process[p].pc
      BY <1>0, <2>3 DEF AfterFailure
    <3> QED BY <1>0, <1>1, <1>2, <2>1, <3>1, ConfigStays
  <2> QED BY <1>7, <2>2, <2>3 DEF JobFails
<1>8. CASE Dropped(p)
  <2>1. /\ process'[p].value = process[p].value /\ process'[p].pc = process[p].pc
        /\ file' = file
    BY <1>0, <1>8 DEF Dropped, disk
  <2>2. \/ process'[p].job = Null
        \/ process[p].job # Null /\ process'[p].job = [process[p].job EXCEPT !.attached = FALSE]
    BY <1>0, <1>8 DEF Dropped
  <2>3. \/ process'[p].job = Null
        \/ process[p].job # Null /\ "value" \in DOMAIN process'[p].job
            /\ process'[p].job.value = process[p].job.value
    BY <1>2, <2>2 DEF JobsAreGood
  <2> QED BY <1>0, <1>1, <1>2, <2>1, <2>3, ConfigStays
<1> QED BY <1>3, <1>4, <1>5, <1>6, <1>7, <1>8 DEF Job

LEMMA BeginKeepsConfig ==
  ASSUME PageInv, ConfigInv, NEW p \in Processes, NEW who, NEW next,
         Begin(p, who, next), Good(next)
  PROVE  ConfigInv'
<1>1. /\ DOMAIN process = Processes /\ DOMAIN process[p] = DOMAIN Down
      /\ DOMAIN Down = {"pc", "value", "revision", "call", "job", "astray"}
      /\ saves' = saves + 1 /\ saves \in Nat /\ backups' = backups /\ file' = file
  BY DEF PageInv, Down, Begin, disk, ConfigInv
<1>2. /\ \A q \in Processes : q # p => process'[q] = process[q]
      /\ process'[p].call.value = next /\ process'[p].job = process[p].job
      /\ process'[p].value = process[p].value /\ process'[p].pc = process[p].pc
  BY <1>1 DEF Begin
<1>3. process'[p].job # Null => JobsAreGood(process[p].job)'
  BY <1>1, <1>2 DEF ConfigInv, JobsAreGood, MayBeKept
<1>4. p \in Local /\ process'[p].pc \notin {"down", "locked"} => Good(process'[p].value)
  BY <1>2 DEF ConfigInv
<1> QED BY <1>1, <1>2, <1>3, <1>4, ConfigMoves

LEMMA StutterKeepsConfig ==
  ASSUME ConfigInv, UNCHANGED <<process, file, backups, saves>>
  PROVE  ConfigInv'
BY DEF ConfigInv, JobsAreGood, MayBeKept, Good, Sourced

LEMMA UsersKeepConfig ==
  ASSUME PageInv, ConfigInv, NEW p \in Local, Users(p)
  PROVE  ConfigInv'
<1>0. p \in Processes
  BY DEF Local
<1>1. Serving(p) => Good(process[p].value)
  BY DEF ConfigInv, Serving, At
<1>2. ASSUME NEW e \in Editors, View(e, p) \/ SaveStale(e, p) PROVE ConfigInv'
  BY <1>2, StutterKeepsConfig DEF View, SaveStale, disk, bounds
<1>3. ASSUME NEW e \in Editors, NEW patch \in Patches, Save(e, p, patch)
      PROVE  ConfigInv'
  <2>1. CASE UNCHANGED <<disk, lock, process, bounds>>
    BY <2>1, StutterKeepsConfig DEF disk, bounds
  <2>2. CASE Begin(p, e, Merged(process[p].value, patch.fields))
    <3>1. PICK current, replaced :
            current = process[p].value /\ replaced = Replaced(current, patch.fields)
      OBVIOUS
    <3>2. Good(current) /\ Accepted(current, patch)
      BY <1>1, <1>3, <3>1 DEF Save
    <3>3. replaced \in Configurations /\ Allowed(replaced)
      BY <3>1, <3>2, PatchesMakeConfigurations DEF Good, Accepted
    <3>4. PICK next : next = Normal(replaced)
      OBVIOUS
    <3>5. Good(next) /\ Begin(p, e, next)
      BY <2>2, <3>1, <3>3, <3>4, NormalIsGood DEF Merged
    <3> QED BY <1>0, <3>5, BeginKeepsConfig
  <2> QED BY <1>3, <2>1, <2>2 DEF Save
<1>4. ASSUME NEW cookie \in Cookies, LoggedIn(p, cookie) PROVE ConfigInv'
  <2>1. PICK current : current = process[p].value
    OBVIOUS
  <2>2. Good(current) /\ Begin(p, "login", [current EXCEPT !.cookie = cookie])
    BY <1>1, <1>4, <2>1 DEF LoggedIn
  <2>3. Good([current EXCEPT !.cookie = cookie])
    BY <2>2, CookieKeepsGood
  <2> QED BY <1>0, <2>2, <2>3, BeginKeepsConfig
<1>5. CASE Dropped(p)
  BY <1>0, <1>5, JobsKeepConfig
<1> QED BY <1>2, <1>3, <1>4, <1>5 DEF Users

LEMMA DeathsKeepConfig ==
  ASSUME PageInv, ConfigInv,
         PowerLoss \/ \E p \in Processes : Crash(p)
  PROVE  ConfigInv'
<1>1. CASE PowerLoss
  <2>1. /\ \A p \in Processes : process'[p] = Down
        /\ saves' = saves /\ backups' = backups
        /\ Down.pc = "down" /\ Down.job = Null /\ Down.call = Null
    BY <1>1 DEF PowerLoss, Down
  <2>2. /\ DOMAIN file' = {"now", "kept"} /\ file'.now \in file'.kept
        /\ file'.kept \subseteq file.kept
    BY <1>1 DEF PowerLoss
  <2>3. \A contents \in file'.kept \ FirstFiles : MayBeKept(contents)'
    BY <2>1, <2>2, KeptStays DEF ConfigInv
  <2> QED BY <2>1, <2>2, <2>3 DEF ConfigInv, Local
<1>2. ASSUME NEW p \in Processes, Crash(p) PROVE ConfigInv'
  <2>1. /\ \A q \in Processes : q # p => process'[q] = process[q]
        /\ process'[p] = Down /\ Down.pc = "down" /\ Down.job = Null /\ Down.call = Null
        /\ saves' = saves /\ backups' = backups /\ file' = file
    BY <1>2 DEF Crash, Down, PageInv
  <2> QED BY <2>1, ConfigStays DEF CallsNothing
<1> QED BY <1>1, <1>2

LEMMA InitConfigInv == Init => ConfigInv
<1> SUFFICES ASSUME Init PROVE ConfigInv
  OBVIOUS
<1>1. \A p \in Processes : process[p].pc = "down" /\ process[p].job = Null
                           /\ process[p].call = Null
  BY DEF Init, Down
<1>2. PICK contents \in FirstFiles : file = [now |-> contents, kept |-> {contents}]
  BY DEF Init
<1> QED BY <1>1, <1>2 DEF Init, ConfigInv, Local

LEMMA NextConfigInv == PageInv /\ ConfigInv /\ [Next]_vars => ConfigInv'
<1> SUFFICES ASSUME PageInv, ConfigInv, [Next]_vars PROVE ConfigInv'
  OBVIOUS
<1>1. ASSUME NEW p \in Processes, Start(p) PROVE ConfigInv'
  BY <1>1, StartKeepsConfig
<1>2. ASSUME NEW p \in Processes, Job(p) \/ JobFails(p) PROVE ConfigInv'
  BY <1>2, JobsKeepConfig
<1>3. ASSUME NEW p \in Processes, Transactions(p) PROVE ConfigInv'
  BY <1>3, StutterKeepsConfig DEF Transactions, BeginWrite, CommitWrite, bounds
<1>4. ASSUME NEW p \in Local, Users(p) PROVE ConfigInv'
  BY <1>4, UsersKeepConfig
<1>5. CASE PowerLoss \/ \E p \in Processes : Crash(p)
  BY <1>5, DeathsKeepConfig
<1>6. CASE UNCHANGED vars
  BY <1>6, StutterKeepsConfig DEF vars
<1> QED BY <1>1, <1>2, <1>3, <1>4, <1>5, <1>6 DEF Next

\* No save leaves a file that the next start refuses or changes, at whatever step it is
\* cut off by a crash or a loss of power; and what a start made of the operator's file is
\* the normal form of a backup.
THEOREM ConfigAlwaysSurvives == Spec => []ConfigSurvives
<1>1. ConfigInv => ConfigSurvives
  <2> SUFFICES ASSUME ConfigInv, NEW contents \in file.kept \ FirstFiles
               PROVE  /\ Whole(contents) /\ Allowed(contents) /\ Normal(contents) = contents
                      /\ saves = 0 => Sourced(contents)
    BY DEF ConfigSurvives, Sourced
  <2>1. MayBeKept(contents)
    BY DEF ConfigInv
  <2> QED BY <2>1, ConfigurationsAssumption DEF MayBeKept, Good, Whole
<1> QED BY <1>1, InitConfigInv, NextConfigInv, InitPageInv, NextPageInv, PTL DEF Spec
=============================================================================
