--------------------------- MODULE StorageService ---------------------------
(***************************************************************************)
(* A service from its start to its death: the lock beside the configuration *)
(* file, the file itself and the manager that saves it while callers come   *)
(* and go, and the opening of the database that a dead service left.        *)
(*                                                                         *)
(* A process dies at any step; the host may lose its power, and then a file *)
(* is what was synced last, or anything that was put in its place since.    *)
(* The operators of the pages send patches (FileConfigRules).               *)
(***************************************************************************)
EXTENDS FileConfigRules, TLC
CONSTANTS Processes, Null,
          Torn,             \* what is read of a file that was not synced
          Strangers,        \* processes whose configuration is in another directory
          Editors,          \* pages that are open on the configuration
          Default,          \* the configuration of a service that had none
          FirstFiles,       \* what the operator may have written, Null for no file
          FirstDatabases,   \* what may be found in the state directory
          Patches,          \* what a page sends: [fields, confirmed]
          Cookies,          \* cookies that a login by QR code brings
          MaxWork,          \* bound: writes of the configuration after it is loaded, and
                            \* transactions of running services, together
          MaxFaults         \* bound: crashes, losses of power, writes that fail

\* Objects of a database: what the manifest lists, and what it forbids.
Objects == {"tables", "indexes", "obsolete"}

DatabaseFiles ==
  [version: Nat, objects: SUBSET Objects, sound: BOOLEAN, mode: {"delete", "wal"}, rows: SUBSET Nat]

\* The default binds to this host, and is in the normal form.
ASSUME DefaultAssumption == Allowed(Default) /\ Normal(Default) = Default

\* What is found, sent and brought is made of the right parts; no file is no configuration.
ASSUME ConfigurationsAssumption ==
  /\ Null \notin Configurations /\ Torn \notin Configurations
  /\ Default \in Configurations /\ FirstFiles \ {Null, Torn} \subseteq Configurations
  /\ \A patch \in Patches :
       /\ DOMAIN patch.fields \subseteq Fields
       /\ [f \in Fields |-> IF f \in DOMAIN patch.fields THEN patch.fields[f] ELSE Default[f]]
            \in Configurations
  /\ Cookies \subseteq Texts

ASSUME DatabasesAssumption == FirstDatabases \subseteq DatabaseFiles \cup {Null}

\* What is absent is no process and no database, and a login is no page.
ASSUME NamesAssumption ==
  Null \notin Processes /\ Null \notin DatabaseFiles /\ "login" \notin Editors

VARIABLES
  file,       \* the configuration: as it is read, and as a loss of power may leave it
  backups,    \* copies of configurations kept before they were put into normal form
  lock,       \* the process that holds the lock of the configuration directory
  db,         \* the database and its journal, and what of both is on the disk
  process,    \* what each process has in memory
  page,       \* what each page shows
  committed,  \* history: how many transactions were reported as committed, and which of
              \* them were the last one when the power was lost
  saves, faults

vars == <<file, backups, lock, db, process, page, committed, saves, faults>>
disk == <<file, backups, db, committed>>
bounds == <<saves, faults>>

Fault == faults < MaxFaults /\ faults' = faults + 1

Down == [pc |-> "down", value |-> Null, revision |-> 0, call |-> Null, job |-> Null,
         astray |-> FALSE]

At(p, pc) == process[p].pc = pc
Serving(p) == At(p, "serving")
Local == Processes \ Strangers

Go(p, pc) == process' = [process EXCEPT ![p].pc = pc]

\* A page that was loaded from a process shows nothing of the next one.
Orphaned(pages, gone) ==
  [e \in Editors |-> IF pages[e] # Null /\ pages[e].of \in gone
                     THEN [pages[e] EXCEPT !.of = Null] ELSE pages[e]]

\* bootstrap returns an error, and the process with its descriptors is gone.
Exit(p) ==
  /\ process' = [process EXCEPT ![p] = Down]
  /\ lock' = IF lock = p THEN Null ELSE lock
-----------------------------------------------------------------------------
(* The configuration file.                                                 *)

Loads(contents) == contents \notin {Null, Torn} /\ ManagementAllowed(contents)

\* Mutant: the temporary file is renamed before it is synced.
RenamedUnsynced(old, contents) ==
  [now |-> contents, kept |-> old.kept \cup {contents, Torn}]

\* atomic_write_secret: a whole, synced file takes the name; the name is synced after.
Renamed(old, contents) == [now |-> contents, kept |-> old.kept \cup {contents}]

\* The directory is synced, which pins the name to the file.
Synced(current) == [current EXCEPT !.kept = {current.now}]

\* flock: the system drops the lock with the descriptor.
LockAfter(gone) == IF lock \in gone THEN Null ELSE lock

\* acquire_storage_service_lock, without waiting.
Lock(p) ==
  /\ p \in Local /\ At(p, "down") /\ lock = Null
  /\ lock' = p
  /\ Go(p, "locked")
  /\ UNCHANGED <<disk, page, bounds>>

\* create_timestamped_backup: what the operator wrote, whole, under a name of its own.
BackedUp(copies, contents) == copies \cup {contents}

\* load_or_create finds a file, which is loaded as it is or put into normal form.
LoadConfig(p) ==
  /\ At(p, "locked") /\ file.now # Null
  /\ UNCHANGED <<file, db, committed, page, bounds>>
  /\ \/ /\ ~Loads(file.now) \/ ~Allowed(file.now)
        /\ Exit(p)
        /\ UNCHANGED backups
     \/ /\ Loads(file.now) /\ Allowed(file.now) /\ Normal(file.now) = file.now
        /\ process' = [process EXCEPT ![p].pc = "configured", ![p].value = file.now]
        /\ UNCHANGED <<backups, lock>>
     \/ LET normal == Normal(file.now) IN
        /\ Loads(file.now) /\ Allowed(file.now) /\ normal # file.now
        /\ backups' = BackedUp(backups, file.now)
        /\ process' = [process EXCEPT ![p].pc = "saving", ![p].value = normal,
                                      ![p].job = [value |-> normal, stage |-> "temporary", attached |-> TRUE]]
        /\ UNCHANGED lock

\* ... or none, and the default is saved.
CreateConfig(p) ==
  /\ At(p, "locked") /\ file.now = Null
  /\ process' = [process EXCEPT ![p].pc = "saving", ![p].value = Default,
                                ![p].job = [value |-> Default, stage |-> "temporary", attached |-> TRUE]]
  /\ UNCHANGED <<disk, lock, page, bounds>>

\* The write a start waits for has ended.
ConfigSaved(p) ==
  /\ At(p, "saving") /\ process[p].job.stage = "written"
  /\ process' = [process EXCEPT ![p].pc = "configured", ![p].job = Null]
  /\ UNCHANGED <<disk, lock, page, bounds>>
-----------------------------------------------------------------------------
(* A save is a job of the blocking executor, which runs one at a time and   *)
(* ends even when the call that asked for it was dropped.                  *)

Writing(p) == process[p].job # Null
InFlight(p) == process[p].call # Null

\* The temporary file is written and synced, and takes the name.
JobRenames(p) ==
  /\ Writing(p) /\ process[p].job.stage = "temporary"
  /\ file' = Renamed(file, process[p].job.value)
  /\ process' = [process EXCEPT ![p].job.stage = "named",
                                ![p].astray = @ \/ ~process[p].job.attached]
  /\ UNCHANGED <<backups, lock, db, committed, page, bounds>>

\* The directory is synced, or could not be, which is only logged.
JobSyncs(p) ==
  /\ Writing(p) /\ process[p].job.stage = "named"
  /\ file' \in {Synced(file), file}
  /\ process' = [process EXCEPT ![p].job.stage = "written"]
  /\ UNCHANGED <<backups, lock, db, committed, page, bounds>>

\* Mutant: what could not be saved is published all the same.
PublishedUnsaved(memory) ==
  [memory EXCEPT !.value = memory.job.value, !.job = Null, !.call = Null]

\* A failed save leaves the manager as it was, and a call that waits for its own job.
AfterFailure(memory) ==
  [memory EXCEPT !.job = Null, !.call = IF memory.job.attached THEN Null ELSE @]

JobFails(p) ==
  /\ Writing(p) /\ process[p].job.stage = "temporary" /\ Fault
  /\ \/ Serving(p) /\ process' = [process EXCEPT ![p] = AfterFailure(@)] /\ UNCHANGED lock
     \/ At(p, "saving") /\ Exit(p)
  /\ UNCHANGED <<disk, page, saves>>

\* The call is there to publish what was written...
Publish(p) ==
  /\ Serving(p) /\ InFlight(p) /\ Writing(p)
  /\ process[p].job.stage = "written" /\ process[p].job.attached
  /\ process' = [process EXCEPT ![p].value = process[p].job.value, ![p].revision = @ + 1,
                                ![p].job = Null, ![p].call = Null, ![p].astray = FALSE]
  /\ page' = IF process[p].call.who \in Editors
             THEN [page EXCEPT ![process[p].call.who] =
                     [revision |-> process[p].revision + 1, value |-> process[p].job.value,
                      of |-> p]]
             ELSE page
  /\ UNCHANGED <<disk, lock, bounds>>

\* ... or it is not.
DetachedEnds(p) ==
  /\ Serving(p) /\ Writing(p)
  /\ process[p].job.stage = "written" /\ ~process[p].job.attached
  /\ process' = [process EXCEPT ![p].job = Null]
  /\ UNCHANGED <<disk, lock, page, bounds>>

\* run: the permit is free, and belongs to the job from here.
JobStarts(p) ==
  /\ InFlight(p) /\ ~Writing(p)
  /\ process' = [process EXCEPT ![p].job =
                   [value |-> process[p].call.value, stage |-> "temporary", attached |-> TRUE]]
  /\ UNCHANGED <<disk, lock, page, bounds>>

\* The client of a call in flight went away.
Dropped(p) ==
  /\ InFlight(p)
  /\ process' = [process EXCEPT ![p].call = Null,
                                ![p].job = IF @ = Null THEN Null ELSE [@ EXCEPT !.attached = FALSE],
                                ![p].astray = @ \/ (Writing(p) /\ process[p].job.stage # "temporary")]
  /\ UNCHANGED <<disk, lock, page, bounds>>
-----------------------------------------------------------------------------
(* update: one call at a time is past the gate.                            *)

\* Mutant: the revision is not compared.
NeverStale(expected, revision) == FALSE

MoreWork == saves + committed.count < MaxWork

Stale(expected, revision) == expected # revision

Begin(p, who, next) ==
  /\ MoreWork /\ saves' = saves + 1
  /\ process' = [process EXCEPT ![p].call = [who |-> who, value |-> next]]
  /\ UNCHANGED <<disk, lock, faults>>

\* GET of the configuration.
View(e, p) ==
  /\ Serving(p)
  /\ page' = [page EXCEPT ![e] = [revision |-> process[p].revision,
                                  value |-> process[p].value, of |-> p]]
  /\ UNCHANGED <<disk, lock, process, bounds>>

\* PUT on a revision that is no longer current: the page is loaded again.
SaveStale(e, p) ==
  /\ Serving(p) /\ ~InFlight(p) /\ page[e] # Null
  /\ Stale(page[e].revision, process[p].revision)
  /\ page' = [page EXCEPT ![e] = Null]
  /\ UNCHANGED <<disk, lock, process, bounds>>

Accepted(current, patch) ==
  LET next == Replaced(current, patch.fields) IN
  /\ PatchAllowed(patch.fields) /\ Allowed(next)
  /\ Confirmed(current, next, patch.confirmed)

\* PUT of a patch that is accepted; one that is refused changes nothing.
Save(e, p, patch) ==
  /\ Serving(p) /\ ~InFlight(p) /\ page[e] # Null
  /\ ~Stale(page[e].revision, process[p].revision)
  /\ Accepted(process[p].value, patch)
  /\ LET next == Merged(process[p].value, patch.fields) IN
     IF next = process[p].value
     THEN /\ page' = [page EXCEPT ![e] = [@ EXCEPT !.value = next, !.of = p]]
          /\ UNCHANGED <<disk, lock, process, bounds>>
     ELSE Begin(p, e, next) /\ UNCHANGED page

\* poll_qr: patch_douban_cookie goes by no revision.
LoggedIn(p, cookie) ==
  /\ Serving(p) /\ ~InFlight(p) /\ process[p].value.cookie # cookie
  /\ ManagementAllowed(process[p].value)
  /\ Begin(p, "login", [process[p].value EXCEPT !.cookie = cookie])
  /\ UNCHANGED page
-----------------------------------------------------------------------------
(* The database.                                                           *)

Fresh ==
  [version |-> 6, objects |-> {"tables", "indexes"}, sound |-> TRUE, mode |-> "delete", rows |-> {}]

Busy(p) == db.journal \notin {Null, "hot", p}

\* Mutant: the file is opened read-only before it is migrated.
LeftAsFound(found) == found

\* A transaction replaces the contents, and removes its journal to commit.  The directory
\* was synced when the journal was begun, and is not synced now: no connection changes
\* `synchronous`, which is FULL.  The journal may come back with a loss of power.
Replacing(contents) ==
  [file |-> contents, journal |-> Null, durable |-> TRUE, removed |-> db.file]

\* Opened to be written, a journal whose writer is dead is rolled back, and removed likewise.
Recovered(found) ==
  IF found.journal = "hot"
  THEN [found EXCEPT !.journal = Null, !.removed = IF @ = Null THEN found.file ELSE @]
  ELSE found

\* open_latest_subscription_repository, with a configuration or of another one.
Configured(p) == At(p, "configured") \/ (p \in Strangers /\ At(p, "down"))

OpenDatabase(p) ==
  /\ Configured(p)
  /\ Go(p, IF db.file = Null THEN "creating" ELSE "migrating")
  /\ UNCHANGED <<disk, lock, page, bounds>>

\* Mutant: the temporary file is renamed over the name.
PublishedOver(found, fresh) == fresh

\* hard_link: the name is taken only when it is free.
Published(found, fresh) == IF found = Null THEN fresh ELSE found

\* FreshTempFile: the schema is made under a name of the process's own; what it leaves
\* when it dies is never opened again ...
BuildDatabase(p) ==
  /\ At(p, "creating")
  /\ Go(p, "built")
  /\ UNCHANGED <<disk, lock, page, bounds>>

\* ... and, closed, is linked to the name, or given up.
CreateDatabase(p) ==
  /\ At(p, "built")
  /\ LET now == Published(db.file, Fresh) IN
     IF now = Fresh /\ now # db.file
     THEN /\ db' = [db EXCEPT !.file = Fresh, !.durable = FALSE]
          /\ Go(p, "opened")
          /\ UNCHANGED lock
     ELSE Exit(p) /\ UNCHANGED db
  /\ UNCHANGED <<file, backups, committed, page, bounds>>

Supported == {5, 6}

\* migrate_previous_schema reads the version; of the others, only 5 is rebuilt, ...
Migrate(p) ==
  /\ At(p, "migrating") /\ db.file # Null
  /\ \/ /\ db.file.version \notin Supported
        /\ Exit(p)
        /\ db' = Recovered(db)
     \/ /\ db.file.version = 6
        /\ Go(p, "opened")
        /\ db' = Recovered(db)
        /\ UNCHANGED lock
     \/ /\ db.file.version = 5
        /\ Go(p, "outdated")
        /\ db' = Recovered(db)
        /\ UNCHANGED lock
  /\ UNCHANGED <<file, backups, committed, page, bounds>>

\* ... in a transaction that begins when the others are done, ...
Upgrade(p) ==
  /\ At(p, "outdated") /\ ~Busy(p)
  /\ Go(p, "upgrading")
  /\ db' = [db EXCEPT !.journal = p]
  /\ UNCHANGED <<file, backups, lock, committed, page, bounds>>

\* ... and commits the tables, the indexes and the version at once.
Upgraded(p) ==
  /\ At(p, "upgrading")
  /\ db' = Replacing([db.file EXCEPT !.version = 6, !.objects = @ \cup {"tables", "indexes"}])
  /\ Go(p, "opened")
  /\ UNCHANGED <<file, backups, lock, committed, page, bounds>>

\* No journal beside the file, and the journal mode is the one with a journal.
NamespaceClean == db.journal = Null /\ db.file.mode = "delete"

TablesMatch(objects) == "tables" \in objects
IndexesMatch(objects) == "indexes" \in objects
ForbiddenAbsent(objects) == "obsolete" \notin objects

\* The tables and the indexes of the manifest, and none of the objects it forbids.
SchemaContract(objects) ==
  TablesMatch(objects) /\ IndexesMatch(objects) /\ ForbiddenAbsent(objects)

\* One marker, of the version this program knows.
MarkerKnown == db.file.version = 6

\* integrity_check and foreign_key_check.
Sound == db.file.sound

\* preflight, read-only: what does not fit is refused.
Preflight(p) ==
  /\ At(p, "opened")
  /\ IF db.file # Null /\ NamespaceClean /\ MarkerKnown
        /\ Sound /\ SchemaContract(db.file.objects)
     THEN Go(p, "checked") /\ UNCHANGED lock
     ELSE Exit(p)
  /\ UNCHANGED <<disk, page, bounds>>

\* backfill_metadata_titles, a transaction, which writes if a row lacks its title.
Backfill(p) ==
  /\ At(p, "checked") /\ ~Busy(p)
  /\ db' \in {Replacing(db.file), Recovered(db)}
  /\ Go(p, "ready")
  /\ UNCHANGED <<file, backups, lock, committed, page, bounds>>

\* AppState::new: the manager counts the revisions from one again.
Serve(p) ==
  /\ At(p, "ready")
  /\ process' = [process EXCEPT ![p].pc = "serving", ![p].revision = 1]
  /\ UNCHANGED <<disk, lock, page, bounds>>

\* A connection of the running service.
OpensToWrite == db.file # Null /\ MarkerKnown

\* A transaction of the running service takes the file from the others ...
BeginWrite(p) ==
  /\ Serving(p) /\ OpensToWrite /\ db.journal \in {Null, "hot"} /\ MoreWork
  /\ db' = [db EXCEPT !.journal = p]
  /\ UNCHANGED <<file, backups, lock, process, committed, page, bounds>>

\* ... and is reported when it has committed.  It is known by its number.
CommitWrite(p) ==
  /\ Serving(p) /\ db.journal = p
  /\ committed' = [committed EXCEPT !.count = @ + 1]
  /\ db' = Replacing([db.file EXCEPT !.rows = @ \cup {committed.count + 1}])
  /\ UNCHANGED <<file, backups, lock, process, page, bounds>>
-----------------------------------------------------------------------------
(* Deaths.                                                                 *)

Dead(journal, gone) == IF journal \in gone THEN "hot" ELSE journal

Crash(p) ==
  /\ ~At(p, "down") /\ Fault
  /\ process' = [process EXCEPT ![p] = Down]
  /\ page' = Orphaned(page, {p})
  /\ lock' = LockAfter({p})
  /\ db' = [db EXCEPT !.journal = Dead(@, {p})]
  /\ UNCHANGED <<file, backups, committed, saves>>

Left(found, journal) == [file |-> found, journal |-> journal, durable |-> TRUE, removed |-> Null]

\* What a loss of power may leave: the database with the journal of who wrote it, none
\* whose name was never synced, and one that a journal takes back whose removal was not.
Remains ==
  {Left(db.file, Dead(db.journal, Processes))}
    \cup (IF db.durable THEN {} ELSE {Left(Null, Null)})
    \cup (IF db.removed = Null THEN {} ELSE {Left(db.removed, "hot")})

PowerLoss ==
  /\ Fault
  /\ process' = [p \in Processes |-> Down]
  /\ page' = Orphaned(page, Processes)
  /\ lock' = LockAfter(Processes)
  /\ \E contents \in file.kept : file' = [now |-> contents, kept |-> {contents}]
  /\ db' \in Remains
  /\ committed' = [committed EXCEPT !.cut = @ \cup {committed.count}]
  /\ UNCHANGED <<backups, saves>>
-----------------------------------------------------------------------------
Init ==
  /\ \E contents \in FirstFiles : file = [now |-> contents, kept |-> {contents}]
  /\ \E found \in FirstDatabases : db = Left(found, Null)
  /\ backups = {} /\ lock = Null
  /\ process = [p \in Processes |-> Down]
  /\ page = [e \in Editors |-> Null]
  /\ committed = [count |-> 0, cut |-> {}]
  /\ saves = 0 /\ faults = 0

Start(p) ==
  \/ Lock(p) \/ LoadConfig(p) \/ CreateConfig(p) \/ ConfigSaved(p)
  \/ OpenDatabase(p) \/ BuildDatabase(p) \/ CreateDatabase(p)
  \/ Migrate(p) \/ Upgrade(p) \/ Upgraded(p) \/ Preflight(p) \/ Backfill(p) \/ Serve(p)

Job(p) ==
  \/ JobStarts(p) \/ JobRenames(p) \/ JobSyncs(p) \/ Publish(p) \/ DetachedEnds(p)

Users(p) ==
  \/ \E e \in Editors : View(e, p) \/ SaveStale(e, p)
  \/ \E e \in Editors, patch \in Patches : Save(e, p, patch)
  \/ \E cookie \in Cookies : LoggedIn(p, cookie)
  \/ Dropped(p)

Transactions(p) == BeginWrite(p) \/ CommitWrite(p)

Next ==
  \/ \E p \in Processes : Start(p) \/ Job(p) \/ JobFails(p) \/ Transactions(p) \/ Crash(p)
  \/ \E p \in Local : Users(p)
  \/ PowerLoss

\* The service is restarted whenever it ends (the container's restart policy), what
\* it began goes on, and a transaction that has begun ends.
Fairness ==
  \A p \in Processes :
    /\ WF_vars(Start(p)) /\ WF_vars(Job(p))
    /\ WF_vars(CommitWrite(p))

Spec == Init /\ [][Next]_vars /\ Fairness
-----------------------------------------------------------------------------
(* Properties.                                                             *)

Whole(contents) == contents \notin {Null, Torn}

\* Whatever a loss of power leaves of the configuration, the next start loads it and
\* has nothing to change in it, unless it is what the operator wrote: no save, at
\* whatever step it is cut off, leaves a file the service refuses (config.rs:825,
\* and the normal form that config.rs:659 and merge_config_patch both give it).  What
\* a start put in the place of the operator's file is the normal form of a backup.
ConfigSurvives ==
  \A contents \in file.kept \ FirstFiles :
    /\ Whole(contents) /\ Allowed(contents) /\ Normal(contents) = contents
    /\ saves = 0 => contents = Default \/ \E copy \in backups : contents = Normal(copy)

\* While no save is under way, the file and the memory of the one service that may
\* write it agree, so that a restart changes nothing; a save whose caller went away
\* (config.rs:778) is the exception, until the next one.
FileIsMemory ==
  \A p \in Local : Serving(p) /\ ~Writing(p) /\ ~process[p].astray
                     => file.now = process[p].value

\* A page that was loaded from this service saves over exactly what it shows, whatever
\* other pages and logins saved in between (config.rs:756).
SavesOverSeen ==
  [][\A p \in Local, e \in Editors :
       ~InFlight(p) /\ process'[p].call # Null /\ process'[p].call.who = e
         /\ page[e].of = p => page[e].value = process[p].value]_vars

Rows(found) == IF found = Null THEN {} ELSE found.rows

\* A transaction that was reported is in the database, whatever was found or created by a
\* service that started at the same time, and wherever services died, with journals,
\* migrations and repairs between.  A loss of power may take it back if it was the last
\* one reported by then, since the removal of its journal is not synced
\* (storage/sqlite.rs:367); it takes no other.
CommittedIsKept == (1..committed.count) \ committed.cut \subseteq Rows(db.file)

Acceptable ==
  \/ db.file = Null
  \/ /\ db.file.mode = "delete" /\ "obsolete" \notin db.file.objects
     /\ db.file.sound
     /\ \/ db.file.version = 5
        \/ db.file.version = 6 /\ SchemaContract(db.file.objects)

\* With a configuration that is allowed and a database of a known version, some service
\* of the directory comes up, wherever the one before it died: neither a lock, nor a
\* journal, nor a half-made database is left that keeps it from starting.
ServiceComesBack ==
  (Loads(file.now) /\ Allowed(file.now) /\ Acceptable) ~> (\E p \in Local : Serving(p))
=============================================================================
