------------------------ MODULE SubscriptionEffects ------------------------
(***************************************************************************)
(* The attempts of SubscriptionRepository seen from outside: what one does, *)
(* call by call, to the tracker, to qBittorrent and to the file system,     *)
(* and what it then writes to the row.  The process may die between any two *)
(* calls; an attempt is then forgotten and the row's next attempt starts    *)
(* the operation anew.  An attempt reads the row as it is: nobody changes   *)
(* what a running attempt acts upon (ClaimFreezesPayload of                *)
(* SubscriptionRepository), and a row has one attempt at a time             *)
(* (LeaseExclusive).  Retries, delays and blocked rows are left to that     *)
(* module: here a row whose attempt failed is simply tried again.          *)
(***************************************************************************)
EXTENDS QbReconciliation, Integers, Sequences, FiniteSets
CONSTANTS Names,          \* files of torrents, in the order of their numbers
          FilesOf,        \* Hashes -> SUBSET Names
          FileNames,      \* Names -> what recognize can read in a video's name
          Editions,       \* Torrents -> the hashes the tracker may publish
          FirstEdition,   \* Torrents -> the one it publishes first
          UsersOwn,         \* hashes the user may have in qBittorrent beforehand
          Seeders, Rank, RulesEmpty, Priority, Titles,
          Answers,        \* what the tracker's three searches may find: triples of sets
          DoubanCounts,   \* the numbers of episodes Douban may tell, 0 for none
          DoubanSeasons,  \* the lists of seasons Douban may give
          TitleSeasons,   \* the seasons a title may name, Null for none
          TmdbAnswers,    \* the sets of seasons TMDB may list
          Kinds,          \* the kinds of subject to start from
          Irregular,      \* a symbolic link or a directory
          Foreign,        \* inodes of files that are not the program's
          Intruders,      \* what the user may put where in the library
          MaxCopies,      \* bound: times a torrent's files come to exist, the user's own once
          MaxMeddling     \* bound: steps of the user behind the program's back

ASSUME FilesAssumption == Names \subseteq Nat /\ IsFiniteSet(Names)
\* What a name shows is numbers; all its places but the last tell of an episode.
ASSUME ShownAssumption ==
  \A n \in Names : \A place \in DOMAIN FileNames[n] :
    /\ FileNames[n][place].season \in Nat \cup {Null}
    /\ FileNames[n][place].first \in Nat \cup {Null}
    /\ FileNames[n][place].last \in Nat \cup {Null}
    /\ place # "pack" => FileNames[n][place].first # Null
ASSUME IntrudersAssumption == Intruders \subseteq Names \X (Foreign \cup {Irregular})

VARIABLES
  kind,        \* Subjects -> "movie" or "tv"
  row,         \* the durable part of each subscription
  attempt,     \* Subjects -> what a running attempt has come to, or Null
  published,   \* Torrents -> the hash of the torrent file the tracker serves
  qb,          \* the torrents qBittorrent lists
  importing,   \* adds it accepted and does not list yet
  doomed,      \* torrents whose files it has yet to erase
  sources,     \* Hashes -> Names -> which copy of the file exists, or 0
  copies,      \* how often a torrent's files came to exist
  targets,     \* Subjects -> Names -> what is at the path in the library
  listed,      \* hashes qBittorrent has ever listed
  meddling

vars == <<kind, row, attempt, published, qb, importing, doomed, sources, copies,
          targets, listed, meddling>>
world == <<published, qb, importing, doomed, sources, copies, targets, listed, meddling>>

Copies == Hashes \X Names \X (1 .. MaxCopies)
Files == INSTANCE LinkRetry WITH Inodes <- Copies \cup Foreign
Choice == INSTANCE CandidateSelection
Series == INSTANCE TvMetadata
Rules == INSTANCE PayloadRules

ASSUME TorrentsAssumption ==
  /\ FilesOf \in [Hashes -> SUBSET Names] /\ UsersOwn \subseteq Hashes
  /\ FirstEdition \in [Torrents -> Hashes] /\ Editions \in [Torrents -> SUBSET Hashes]

\* The list of candidates has an order: the tracker's ids are all different.
ASSUME OrderAssumption ==
  /\ IsFiniteSet(Torrents)
  /\ Seeders \in [Torrents -> Nat] /\ Rank \in [Torrents -> Nat]
  /\ \A t, u \in Torrents : Rank[t] = Rank[u] => t = u

ASSUME KindsAssumption == Kinds \subseteq {"movie", "tv"}

\* The numbers of seasons and episodes that Douban and TMDB tell.
ASSUME DetailsAssumption ==
  /\ DoubanCounts \subseteq Nat
  /\ TitleSeasons \subseteq Nat \cup {Null}
  /\ \A listing \in DoubanSeasons : listing \subseteq [own: BOOLEAN, number: Nat \cup {Null}]
  /\ \A seasons \in TmdbAnswers : IsFiniteSet(seasons) /\ seasons \subseteq [number: Nat, count: Nat]

\* What is at a path is the program's link, somebody's file, something else or nothing.
ASSUME PathsAssumption ==
  /\ MaxCopies \in Nat \ {0}
  /\ Copies \cap (Foreign \cup {Irregular}) = {}
  /\ Null \notin Copies \cup Foreign \cup {Irregular} \cup Nat

AnyDownload ==
  [torrent: Torrents, hash: Hashes \cup {Null},
   state: {"live", "missing", "failed", "retired"}, files: SUBSET Names]

\* Null stands for no download, as for no torrent and no hash.
ASSUME DownloadsAssumption == Null \notin AnyDownload

SourceAt(h, n) == IF sources[h][n] = 0 THEN Null ELSE <<h, n, sources[h][n]>>

NoLinks == [t \in Torrents |-> [n \in Names |-> "none"]]

Download(t, h, state, files) == [torrent |-> t, hash |-> h, state |-> state, files |-> files]

Rows ==
  [stage: {"meta", "searching", "downloading", "linking", "completed"},
   tv: [season: Nat, last: Nat] \cup {Null},
   candidates: [Torrents -> {"absent", "exact", "keyword"}],
   confirmed: Torrents \cup {Null},
   downloads: Seq(AnyDownload),
   links: [Torrents -> [Names -> Files!Outcomes \cup {"none"}]],
   pending: BOOLEAN,
   prepared: BOOLEAN]

\* The repository writes no payload that it refuses: such an attempt is lost, and so is the
\* next one, which reports the same.  (What brings no new numbers is never refused.)
Accepted(r) == Rules!PayloadValid(r, FileNames)

Indices(r) == 1 .. Len(r.downloads)
DownloadsOf(r) == {r.downloads[i] : i \in Indices(r)}
Recorded(r, t) == {d \in DownloadsOf(r) : d.torrent = t}

\* current_download: the last one that is neither ignored nor superseded.
CurrentDownload(r) ==
  LET kept == {i \in Indices(r) : r.downloads[i].state # "retired"} IN
  IF kept = {} THEN Null
  ELSE r.downloads[CHOOSE i \in kept : \A j \in kept : j <= i]

\* merge_download_updates: in place if the download is known, else at the end.
MergedDownload(downloads, update) ==
  IF \E i \in 1 .. Len(downloads) : downloads[i].torrent = update.torrent
  THEN [i \in 1 .. Len(downloads) |->
          IF downloads[i].torrent = update.torrent THEN update ELSE downloads[i]]
  ELSE Append(downloads, update)

WithDownload(r, update, stage) ==
  [r EXCEPT !.downloads = MergedDownload(@, update), !.stage = stage]

Used(r) == {d.torrent : d \in {e \in DownloadsOf(r) : e.state \in {"live", "missing"}}}

LinkedEpisode(r, episode) ==
  \E t \in Torrents, n \in Names :
    /\ r.links[t][n] = "linked"
    /\ Choice!MarksEpisode(Choice!Marker(FileNames[n], r.tv.season), r.tv.season, episode)

\* first_uncovered_episode, Null when every wanted one is in the library.
FirstUncovered(r) ==
  LET missing == {e \in 1 .. r.tv.last : ~LinkedEpisode(r, e)} IN
  IF missing = {} THEN Null ELSE CHOOSE e \in missing : \A f \in missing : e <= f
-----------------------------------------------------------------------------
(* Searching and pushing a torrent.                                         *)

\* confirmed_selection, else retry_selection, else a fresh search; each gives
\* the candidates that will be saved, who was confirmed, and the choice.
Selections(r) ==
  LET current == CurrentDownload(r)
      Kept(t) == [candidates |-> r.candidates, confirmed |-> r.confirmed, selected |-> t]
  IN  IF r.confirmed # Null /\ r.confirmed \notin Used(r) THEN {Kept(r.confirmed)}
      ELSE IF /\ current # Null /\ current.state = "failed"
              /\ r.candidates[current.torrent] # "absent"
              /\ Choice!DownloadAuthorized(r.candidates, r.confirmed, current.torrent)
      THEN {Kept(current.torrent)}
      ELSE {[candidates |-> found, confirmed |-> Null,
             selected |-> Choice!AuthorizedSelection(found)] :
              found \in {Choice!Found(a[1], a[2], a[3]) : a \in Answers}}

\* A series chooses again, for the first episode that is not in the library.
Selected(s, selection) ==
  IF kind[s] = "movie" THEN selection.selected
  ELSE LET episode == FirstUncovered(row[s]) IN
       IF episode = Null THEN Null
       ELSE Choice!TvSelection(selection.candidates, selection.confirmed, Used(row[s]),
                               row[s].tv.season, episode)

Searched(r, a) == [r EXCEPT !.candidates = a.candidates, !.confirmed = a.confirmed]

Begin(s) == attempt[s] = Null /\ importing = {}

\* An attempt starts when the one before is over and qBittorrent is quiet again.
Search(s) ==
  /\ Begin(s)
  /\ row[s].stage = "searching" /\ ~row[s].pending
  /\ \E selection \in Selections(row[s]) :
       LET t == Selected(s, selection)
           a == [pc |-> "fetch", torrent |-> t, candidates |-> selection.candidates,
                 confirmed |-> selection.confirmed]
       IN  IF t = Null
           THEN /\ row' = [row EXCEPT ![s] = Searched(@, a)]
                /\ UNCHANGED attempt
           ELSE /\ attempt' = [attempt EXCEPT ![s] = a]
                /\ UNCHANGED row
  /\ UNCHANGED <<kind, world>>

At(s, pc) == attempt[s] # Null /\ attempt[s].pc = pc

Stored(s, t) == LET known == Recorded(row[s], t) IN
                IF known = {} THEN Null ELSE (CHOOSE d \in known : TRUE).hash

\* The attempt ends with nothing but its candidates.
GiveUpSearch(s) ==
  /\ row' = [row EXCEPT ![s] = Searched(@, attempt[s])]
  /\ attempt' = [attempt EXCEPT ![s] = Null]

\* What is new beside, or in the place of, what there was.
With(known, new) ==
  [x \in DOMAIN known \cup DOMAIN new |-> IF x \in DOMAIN new THEN new[x] ELSE known[x]]

Continue(s, pc, more) ==
  attempt' = [attempt EXCEPT ![s] = With([@ EXCEPT !.pc = pc], more)]

\* fetch_torrent and QbReconcileRequest::try_new
FetchTorrent(s) ==
  /\ At(s, "fetch")
  /\ LET t == attempt[s].torrent
         h == published[t]
     IN  IF HashesDisagree(Stored(s, t), h) THEN GiveUpSearch(s)
         ELSE Continue(s, "tag", [hash |-> h]) /\ UNCHANGED row
  /\ UNCHANGED <<kind, world>>

FetchFails(s) == At(s, "fetch") /\ GiveUpSearch(s) /\ UNCHANGED <<kind, world>>

ListTagged(s) ==
  /\ At(s, "tag")
  /\ Continue(s, "hash", [tagged |-> ListByTag(qb, StableKey(s, attempt[s].torrent))])
  /\ UNCHANGED <<kind, row, world>>

\* The listing by hash, and what both listings together decide.
ListHashed(s) ==
  /\ At(s, "hash")
  /\ LET a == attempt[s]
         decided == Reconcile(StableKey(s, a.torrent), a.hash, a.tagged, ListByHash(qb, a.hash))
     IN  CASE decided.decision = "use"      -> Continue(s, "settle", [pushed |-> TRUE])
           [] decided.decision = "conflict" -> Continue(s, "settle", [pushed |-> FALSE])
           [] OTHER                         -> Continue(s, "add", <<>>)
  /\ UNCHANGED <<kind, row, world>>

\* The server accepts the add, whose response may still be lost, or it does not.
AddTorrent(s) ==
  /\ At(s, "add")
  /\ \/ /\ importing' = importing \cup {<<attempt[s].hash, StableKey(s, attempt[s].torrent)>>}
        /\ \/ Continue(s, "verify", <<>>)
           \/ Continue(s, "settle", [pushed |-> FALSE])
     \/ Continue(s, "settle", [pushed |-> FALSE]) /\ UNCHANGED importing
  /\ UNCHANGED <<kind, row, published, qb, doomed, sources, copies, targets, listed, meddling>>

\* Mutant: an accepted add counts, whether qBittorrent lists the torrent or not.
VerifiedAnyway(s) == TRUE

Verified(s) == qb[attempt[s].hash] # Null

\* add_torrent_bytes_with_tags looks for the torrent three times.
VerifyAdded(s) ==
  /\ At(s, "verify")
  /\ Continue(s, "settle", [pushed |-> Verified(s)])
  /\ UNCHANGED <<kind, row, world>>

\* Any of the calls before the add fails.
CallFails(s) ==
  /\ At(s, "tag") \/ At(s, "hash")
  /\ Continue(s, "settle", [pushed |-> FALSE])
  /\ UNCHANGED <<kind, row, world>>

SettlePush(s) ==
  /\ At(s, "settle")
  /\ LET a == attempt[s]
         update == Download(a.torrent, a.hash, IF a.pushed THEN "live" ELSE "failed", {})
     IN  row' = [row EXCEPT ![s] =
                   WithDownload(Searched(@, a), update, IF a.pushed THEN "downloading" ELSE @.stage)]
  /\ attempt' = [attempt EXCEPT ![s] = Null]
  /\ UNCHANGED <<kind, world>>
-----------------------------------------------------------------------------
(* Watching the download and linking its files.                             *)

Observed(s, d) == Observe(qb, StableKey(s, d.torrent), d.hash)

\* updated_download
Inspected(d, h) == [d EXCEPT !.hash = h, !.state = "live", !.files = FilesOf[h]]

\* A torrent that is gone is recorded as missing, and the attempt fails.
Progress(s) ==
  /\ Begin(s)
  /\ row[s].stage = "downloading"
  /\ CurrentDownload(row[s]) # Null
  /\ LET d == CurrentDownload(row[s])
         seen == Observed(s, d)
     IN  row' = [row EXCEPT ![s] =
                   CASE seen.decision = "use" ->
                          WithDownload(@, Inspected(d, seen.hash),
                            IF qb[seen.hash].complete THEN "linking" ELSE "downloading")
                     [] seen.decision = "add" -> WithDownload(@, [d EXCEPT !.state = "missing"], @.stage)
                 [] OTHER -> @]
  /\ Accepted(row'[s])
  /\ UNCHANGED <<kind, attempt, world>>

NoEpisodeWanted(r, files) ==
  /\ r.tv # Null
  /\ ~\E n \in files : Choice!MarksTarget(Choice!Marker(FileNames[n], r.tv.season), r.tv)

\* execute_link up to the plan of every file.
Link(s) ==
  /\ Begin(s)
  /\ row[s].stage = "linking"
  /\ CurrentDownload(row[s]) # Null
  /\ LET d == CurrentDownload(row[s])
         seen == Observed(s, d)
         update == Inspected(d, seen.hash)
     IN  /\ seen.decision = "use"
         /\ CASE ~qb[seen.hash].complete ->
                   /\ row' = [row EXCEPT ![s] = WithDownload(@, update, "downloading")]
                   /\ UNCHANGED attempt
              [] qb[seen.hash].complete /\ NoEpisodeWanted(row[s], update.files) ->
                   /\ row' = [row EXCEPT ![s] =
                                WithDownload(@, [update EXCEPT !.state = "retired"], "searching")]
                   /\ UNCHANGED attempt
              [] OTHER ->
                   /\ attempt' = [attempt EXCEPT ![s] = [pc |-> "probe", update |-> update]]
                   /\ UNCHANGED row
  /\ Accepted(row'[s])
  /\ UNCHANGED <<kind, world>>

Persisted(r, t, n) == IF r.links[t][n] = "none" THEN "pending" ELSE r.links[t][n]

\* apply_hardlinks probes every file before it links the first.
Probe(s) ==
  /\ At(s, "probe")
  /\ LET d == attempt[s].update
         action(n) == Files!ProbedAction(SourceAt(d.hash, n), targets[s][n],
                                         Persisted(row[s], d.torrent, n))
     IN  Continue(s, "link",
           [actions  |-> [n \in d.files |-> action(n)],
            expected |-> [n \in d.files |-> SourceAt(d.hash, n)],
            outcomes |-> [n \in {} |-> "pending"]])
  /\ UNCHANGED <<kind, row, world>>

\* The title, the plan of the paths or the executor fails: only the download is kept.
LinkGivenUp(s) ==
  /\ At(s, "probe")
  /\ row' = [row EXCEPT ![s].downloads = MergedDownload(@, attempt[s].update)]
  /\ Accepted(row'[s])
  /\ attempt' = [attempt EXCEPT ![s] = Null]
  /\ UNCHANGED <<kind, world>>

\* The files are linked one by one, in their order.
LinkFile(s) ==
  /\ At(s, "link")
  /\ LET a == attempt[s]
         left == DOMAIN a.actions \ DOMAIN a.outcomes
         n == CHOOSE m \in left : \A o \in left : m <= o
         source == SourceAt(a.update.hash, n)
         outcome == IF a.actions[n] = "create"
                    THEN Files!LinkedOutcome(a.expected[n], source, targets[s][n])
                    ELSE Files!Untouched(a.actions[n])
     IN  /\ left # {}
         /\ Continue(s, "link", [outcomes |-> With(a.outcomes, [m \in {n} |-> outcome])])
         /\ targets' = [targets EXCEPT ![s][n] =
                          IF a.actions[n] = "create"
                          THEN Files!LinkedTarget(a.expected[n], source, @) ELSE @]
  /\ UNCHANGED <<kind, row, published, qb, importing, doomed, sources, copies, listed, meddling>>

LinksAfter(r, t, outcomes) ==
  [r.links EXCEPT ![t] =
     [n \in Names |-> IF n \in DOMAIN outcomes THEN outcomes[n] ELSE "none"]]

\* Mutant: a series is done when its last torrent is linked.
CompleteWhenLinked(r) == TRUE

\* tv_complete_after_link
CompleteAfter(r) == r.tv = Null \/ FirstUncovered(r) = Null

LinkReport(s) ==
  LET a == attempt[s] IN
  [row[s] EXCEPT !.downloads = MergedDownload(@, a.update),
                 !.links = LinksAfter(row[s], a.update.torrent, a.outcomes)]

EveryFileTried(s) ==
  At(s, "link") /\ DOMAIN attempt[s].outcomes = DOMAIN attempt[s].actions

SettleLink(s) ==
  /\ EveryFileTried(s)
  /\ LET a == attempt[s]
         r == LinkReport(s)
     IN  row' = [row EXCEPT ![s] =
                   [r EXCEPT !.stage =
                      IF \E n \in DOMAIN a.outcomes : a.outcomes[n] # "linked" THEN "linking"
                      ELSE IF CompleteAfter(r) THEN "completed" ELSE "searching"]]
  /\ Accepted(row'[s])
  /\ attempt' = [attempt EXCEPT ![s] = Null]
  /\ UNCHANGED <<kind, world>>
-----------------------------------------------------------------------------
(* Replacing a torrent: one attempt journals what there is, another cleans. *)

MayDelete(s, d) ==
  LET seen == Observed(s, d) IN
  /\ seen.decision # "conflict"
  /\ seen.decision = "use" => Owned(qb[seen.hash], StableKey(s, d.torrent))

FoundHash(s, d) == IF Observed(s, d).decision = "use" THEN Observed(s, d).hash ELSE Null

Prepared(s, d) == IF FoundHash(s, d) = Null THEN d ELSE Inspected(d, FoundHash(s, d))

\* The downloads to clean up, as qBittorrent lists them now.
Readied(s, r) ==
  [r EXCEPT !.downloads = [i \in DOMAIN @ |-> Prepared(s, @[i])], !.prepared = TRUE]

Replace(s) ==
  /\ Begin(s)
  /\ row[s].stage = "searching" /\ row[s].pending
  /\ \A d \in DownloadsOf(row[s]) : MayDelete(s, d)
  /\ IF row[s].prepared
     THEN /\ attempt' = [attempt EXCEPT ![s] =
               [pc    |-> "unlink",
                found |-> {FoundHash(s, d) : d \in DownloadsOf(row[s])} \ {Null}]]
          /\ UNCHANGED row
     ELSE /\ row' = [row EXCEPT ![s] = Readied(s, @)]
          /\ UNCHANGED attempt
  /\ Accepted(row'[s])
  /\ UNCHANGED <<kind, world>>

\* A file of a recorded download: <<download, name>>.
Journaled(r) == DownloadsOf(r) \X Names

JournaledLinks(r) == {file \in Journaled(r) : r.links[file[1].torrent][file[2]] # "none"}

JournaledSources(r) ==
  {<<file[1].hash, file[2]>> : file \in
     {listing \in Journaled(r) : listing[2] \in listing[1].files} \cup JournaledLinks(r)}

\* Every recorded link is verified before the first is removed.
VerifyLinks(s) ==
  /\ At(s, "unlink")
  /\ IF \A file \in JournaledLinks(row[s]) :
          Files!CleanupAllowed(SourceAt(file[1].hash, file[2]), targets[s][file[2]],
                               row[s].links[file[1].torrent][file[2]])
     THEN Continue(s, "remove", [left |-> {file[2] : file \in JournaledLinks(row[s])}])
     ELSE attempt' = [attempt EXCEPT ![s] = Null]
  /\ UNCHANGED <<kind, row, world>>

RemoveLink(s) ==
  /\ At(s, "remove") /\ attempt[s].left # {}
  /\ LET n == CHOOSE m \in attempt[s].left : \A o \in attempt[s].left : m <= o IN
     /\ targets' = [targets EXCEPT ![s][n] = Null]
     /\ Continue(s, "remove", [left |-> attempt[s].left \ {n}])
  /\ UNCHANGED <<kind, row, published, qb, importing, doomed, sources, copies, listed, meddling>>

\* delete_torrent_and_files, one torrent after the other ...
DeleteTorrent(s) ==
  /\ At(s, "remove") /\ attempt[s].left = {}
  /\ \E h \in attempt[s].found :
       /\ doomed' = doomed \cup {g \in {h} : qb[g] # Null}
       /\ Continue(s, "deleted", [doing |-> h])
  /\ UNCHANGED <<kind, row, published, qb, importing, sources, copies, targets, listed, meddling>>

\* ... each of which must be gone from the list before the next.
TorrentGone(s) ==
  /\ At(s, "deleted")
  /\ IF qb[attempt[s].doing] = Null
     THEN Continue(s, "remove", [found |-> attempt[s].found \ {attempt[s].doing}])
     ELSE attempt' = [attempt EXCEPT ![s] = Null]
  /\ UNCHANGED <<kind, row, world>>

\* Mutant: the answers of qBittorrent are enough.
GoneByAnswer(r) == TRUE

\* Neither a file nor its .!qB partial may be left of what is journaled.
NothingLeft(r) ==
  \A source \in JournaledSources(r) : source[1] = Null \/ sources[source[1]][source[2]] = 0

Cleaned(r) ==
  [r EXCEPT !.downloads = <<>>, !.links = NoLinks, !.pending = FALSE, !.prepared = FALSE]

SettleReplacement(s) ==
  /\ At(s, "remove") /\ attempt[s].left = {} /\ attempt[s].found = {}
  /\ row' = [row EXCEPT ![s] = IF NothingLeft(@) THEN Cleaned(@) ELSE @]
  /\ attempt' = [attempt EXCEPT ![s] = Null]
  /\ UNCHANGED <<kind, world>>
-----------------------------------------------------------------------------
(* What the user asks for.                                                  *)

\* What execute_meta finds of a series, with a TMDB key configured, and what it may report;
\* without any of it the attempt fails.
Detail(count, listing, inTitle, elsewhere, seasons) ==
  Series!LoadedDetail(count, listing, inTitle, elsewhere, TRUE, seasons)

Details ==
  {Detail(count, listing, inTitle, elsewhere, seasons) :
     count \in DoubanCounts, listing \in DoubanSeasons, inTitle \in TitleSeasons,
     elsewhere \in TitleSeasons, seasons \in TmdbAnswers} \ {Null}

Loaded(r, tv) == [r EXCEPT !.stage = "searching", !.tv = tv]

LoadMeta(s) ==
  /\ Begin(s)
  /\ row[s].stage = "meta"
  /\ IF kind[s] = "movie" THEN row' = [row EXCEPT ![s].stage = "searching"]
     ELSE \E tv \in Details : row' = [row EXCEPT ![s] = Loaded(@, tv)]
  /\ Accepted(row'[s])
  /\ UNCHANGED <<kind, attempt, world>>

NextWanted(r, replace) ==
  FirstUncovered(IF replace THEN [r EXCEPT !.links = NoLinks] ELSE r)

\* confirm_candidate; a movie with downloads can only be replaced.
Confirm(s, t, replace) ==
  LET r == row[s] IN
  /\ attempt[s] = Null
  /\ replace \/ r.stage = "searching"
  /\ ~r.pending
  /\ replace \/ kind[s] = "tv" \/ r.downloads = <<>>
  /\ r.candidates[t] # "absent"
  /\ t \notin Used(r)
  /\ kind[s] = "tv" =>
       /\ r.tv # Null
       /\ NextWanted(r, replace) # Null
       /\ Choice!TitleCovers(t, r.tv.season, NextWanted(r, replace))
  /\ row' = [row EXCEPT ![s] = [@ EXCEPT !.stage = "searching", !.confirmed = t,
                                         !.pending = replace, !.prepared = FALSE]]
  /\ UNCHANGED <<kind, attempt, world>>

\* add_manual_candidates
AddManual(s, t) ==
  /\ attempt[s] = Null
  /\ ~row[s].pending
  /\ row[s].candidates[t] = "absent"
  /\ row' = [row EXCEPT ![s].candidates[t] = "keyword"]
  /\ UNCHANGED <<kind, attempt, world>>

\* Mutant: a restart leaves the downloads as they are.
RestartedKeeping(r) ==
  [r EXCEPT !.stage = "searching", !.candidates = [t \in Torrents |-> "absent"],
            !.confirmed = Null]

Restarted(r) ==
  [r EXCEPT !.stage = "searching",
            !.candidates = [t \in Torrents |-> "absent"],
            !.confirmed = Null,
            !.downloads = [i \in DOMAIN @ |-> [@[i] EXCEPT !.state = "retired"]]]

\* force_retry of a movie past its metadata.
Restart(s) ==
  /\ attempt[s] = Null
  /\ kind[s] = "movie" /\ row[s].stage # "meta" /\ ~row[s].pending
  /\ row' = [row EXCEPT ![s] = Restarted(@)]
  /\ UNCHANGED <<kind, attempt, world>>
-----------------------------------------------------------------------------
(* The world outside: qBittorrent, the tracker, the user's own hands.       *)

\* A torrent is listed anew, and those of its files that do not exist come to.
Comes(h, tags) ==
  /\ copies < MaxCopies
  /\ qb' = [qb EXCEPT ![h] = [tags |-> tags, complete |-> FALSE]]
  /\ sources' = [sources EXCEPT ![h] =
       [n \in Names |-> IF n \in FilesOf[h] /\ @[n] = 0 THEN copies + 1 ELSE @[n]]]
  /\ copies' = copies + 1
  /\ listed' = listed \cup {h}

\* An accepted add is listed; a torrent that is there already keeps its tags.
QbLists ==
  \E h \in Hashes, key \in EffectKeys :
    /\ <<h, key>> \in importing
    /\ importing' = importing \ {<<h, key>>}
    /\ IF qb[h] # Null THEN UNCHANGED <<qb, sources, copies, listed>>
       ELSE Comes(h, {key})
    /\ UNCHANGED <<kind, row, attempt, published, doomed, targets, meddling>>

QbCompletes ==
  \E h \in Hashes :
    /\ qb[h] # Null /\ ~qb[h].complete /\ h \notin doomed
    /\ qb' = [qb EXCEPT ![h].complete = TRUE]
    /\ UNCHANGED <<kind, row, attempt, published, importing, doomed, sources, copies,
                   targets, listed, meddling>>

\* A deletion is answered at once; the torrent and then its files go later.
QbForgets ==
  \E h \in doomed :
    /\ qb[h] # Null
    /\ qb' = [qb EXCEPT ![h] = Null]
    /\ UNCHANGED <<kind, row, attempt, published, importing, doomed, sources, copies,
                   targets, listed, meddling>>

QbErases ==
  \E h \in doomed :
    /\ qb[h] = Null
    /\ doomed' = doomed \ {h}
    /\ sources' = [sources EXCEPT ![h] = [n \in Names |-> 0]]
    /\ UNCHANGED <<kind, row, attempt, published, qb, importing, copies, targets, listed,
                   meddling>>

Meddle == meddling < MaxMeddling /\ meddling' = meddling + 1

\* The tracker serves another file for the same torrent.
Republish ==
  /\ Meddle
  /\ \E t \in Torrents, h \in Hashes :
       h \in Editions[t] \ {published[t]} /\ published' = [published EXCEPT ![t] = h]
  /\ UNCHANGED <<kind, row, attempt, qb, importing, doomed, sources, copies, targets, listed>>

\* The user deletes a torrent in qBittorrent, with or without its files.
UserRemovesTorrent ==
  /\ Meddle
  /\ \E h \in Hashes :
       /\ qb[h] # Null
       /\ qb' = [qb EXCEPT ![h] = Null]
       /\ \/ sources' = [sources EXCEPT ![h] = [n \in Names |-> 0]]
          \/ UNCHANGED sources
  /\ UNCHANGED <<kind, row, attempt, published, importing, doomed, copies, targets, listed>>

\* The user adds one of these torrents, too; nobody does so to a torrent that is
\* being deleted at that moment.
UserAddsTorrent ==
  /\ Meddle
  /\ \A s \in Subjects : ~At(s, "unlink") /\ ~At(s, "remove") /\ ~At(s, "deleted")
  /\ \E h \in UsersOwn \ doomed : qb[h] = Null /\ Comes(h, {})
  /\ UNCHANGED <<kind, row, attempt, published, importing, doomed, targets>>

\* The user has qBittorrent check a torrent anew.
UserRechecks ==
  /\ Meddle
  /\ \E h \in Hashes :
       /\ qb[h] # Null
       /\ qb' = [qb EXCEPT ![h].complete = FALSE]
  /\ UNCHANGED <<kind, row, attempt, published, importing, doomed, sources, copies, targets,
                 listed>>

\* A file of the user's own, or something that is no file, turns up in the library.
UserFillsTarget ==
  /\ Meddle
  /\ \E s \in Subjects, n \in Names, x \in Foreign \cup {Irregular} :
       /\ <<n, x>> \in Intruders
       /\ targets[s][n] = Null
       /\ ~(At(s, "remove") /\ n \in attempt[s].left)
       /\ targets' = [targets EXCEPT ![s][n] = x]
  /\ UNCHANGED <<kind, row, attempt, published, qb, importing, doomed, sources, copies, listed>>

\* A process that dies forgets its attempts; one whose calls fail, or whose report is
\* refused, ends alone.
AttemptsLost ==
  /\ \E lost \in SUBSET Subjects :
       /\ \E s \in lost : attempt[s] # Null
       /\ attempt' = [s \in Subjects |-> IF s \in lost THEN Null ELSE attempt[s]]
  /\ UNCHANGED <<kind, row, world>>
-----------------------------------------------------------------------------
NewRow == [stage |-> "meta", tv |-> Null, candidates |-> [t \in Torrents |-> "absent"],
           confirmed |-> Null, downloads |-> <<>>, links |-> NoLinks,
           pending |-> FALSE, prepared |-> FALSE]

\* The user may have some of the torrents already, without a tag of ours.
Init ==
  /\ kind \in [Subjects -> Kinds]
  /\ row = [s \in Subjects |-> NewRow]
  /\ attempt = [s \in Subjects |-> Null]
  /\ published = FirstEdition
  /\ \E own \in SUBSET UsersOwn :
       /\ qb = [h \in Hashes |-> IF h \in own THEN [tags |-> {}, complete |-> TRUE] ELSE Null]
       /\ sources = [h \in Hashes |->
                       [n \in Names |-> IF h \in own /\ n \in FilesOf[h] THEN 1 ELSE 0]]
       /\ copies = 1
       /\ listed = own
  /\ importing = {} /\ doomed = {}
  /\ targets = [s \in Subjects |-> [n \in Names |-> Null]]
  /\ meddling = 0

Pushing(s) ==
  \/ Search(s) \/ FetchTorrent(s) \/ FetchFails(s) \/ ListTagged(s) \/ ListHashed(s)
  \/ AddTorrent(s) \/ VerifyAdded(s) \/ CallFails(s) \/ SettlePush(s)

Linking(s) ==
  Progress(s) \/ Link(s) \/ LinkGivenUp(s) \/ Probe(s) \/ LinkFile(s) \/ SettleLink(s)

Replacing(s) ==
  \/ Replace(s) \/ VerifyLinks(s) \/ RemoveLink(s) \/ DeleteTorrent(s)
  \/ TorrentGone(s) \/ SettleReplacement(s)

Commands(s) ==
  \/ LoadMeta(s) \/ Restart(s)
  \/ \E t \in Torrents : AddManual(s, t) \/ \E replace \in BOOLEAN : Confirm(s, t, replace)

World ==
  \/ QbLists \/ QbCompletes \/ QbForgets \/ QbErases
  \/ Republish \/ UserRemovesTorrent \/ UserAddsTorrent \/ UserRechecks \/ UserFillsTarget
  \/ AttemptsLost

Next ==
  \/ \E s \in Subjects : Pushing(s) \/ Linking(s) \/ Replacing(s) \/ Commands(s)
  \/ World

Spec == Init /\ [][Next]_vars
-----------------------------------------------------------------------------
(* Properties.                                                              *)

TypeOK ==
  /\ row \in [Subjects -> Rows]
  /\ qb \in Servers
  /\ importing \subseteq Hashes \X EffectKeys
  /\ doomed \subseteq Hashes /\ listed \subseteq Hashes
  /\ sources \in [Hashes -> [Names -> 0 .. MaxCopies]]
  /\ targets \in [Subjects -> [Names -> Files!Occupants]]

\* However often a push is interrupted, answered late or not at all, repeated,
\* or made of a torrent file the tracker has changed since: at most one torrent
\* in qBittorrent carries the tag of one effect.
OneTorrentPerEffect ==
  \A key \in EffectKeys : Cardinality(ListByTag(qb, key)) <= 1

\* A download that the row records as pushed is one qBittorrent has listed: an
\* accepted upload alone does not move a subscription on.
PushedWasListed ==
  \A s \in Subjects : \A d \in DownloadsOf(row[s]) : d.state = "live" => d.hash \in listed

\* The torrent a movie's attempts watch and link is the one that was pushed last:
\* no older download is taken for it.  (A replacement records them all anew.)
CurrentIsUnique ==
  \A s \in Subjects : kind[s] = "movie" /\ ~row[s].pending =>
    Cardinality({i \in Indices(row[s]) :
                   row[s].downloads[i].state \in {"live", "missing"}}) <= 1

\* What a journal calls linked is the program's own hard link to a file of that
\* torrent, never somebody else's file, until a replacement removes it.
LinkedIsOurs ==
  \A s \in Subjects : \A d \in DownloadsOf(row[s]), n \in Names :
    row[s].links[d.torrent][n] = "linked" /\ ~row[s].pending =>
      targets[s][n] \in {<<d.hash, n, c>> : c \in 1 .. MaxCopies}

\* What the attempts that bring in new numbers would write as things are.
Reports(s) ==
  LET r == row[s]
      d == CurrentDownload(r)
      Watched == /\ r.stage \in {"downloading", "linking"} /\ d # Null
                 /\ Observed(s, d).decision = "use"
  IN  (IF r.stage = "meta" /\ kind[s] = "tv" THEN {Loaded(r, tv) : tv \in Details} ELSE {})
      \cup (IF Watched
            THEN {WithDownload(r, Inspected(d, Observed(s, d).hash), r.stage)} ELSE {})
      \cup (IF At(s, "probe")
            THEN {WithDownload(r, attempt[s].update, r.stage)} ELSE {})
      \cup (IF EveryFileTried(s) THEN {LinkReport(s)} ELSE {})
      \cup (IF r.pending THEN {Readied(s, r)} ELSE {})

ZeroInChinese(n) ==
  "chinese" \in DOMAIN FileNames[n] /\ ~Rules!Positive(FileNames[n]["chinese"])

\* Season 0 of a series, or one of the files is named for a zero in Chinese.
ShowsZero(r) ==
  \/ r.tv # Null /\ r.tv.season = 0
  \/ \E n \in Names :
       /\ ZeroInChinese(n)
       /\ \/ \E d \in DownloadsOf(r) : n \in d.files
          \/ \E t \in Torrents : r.links[t][n] # "none"

\* The validation refuses no attempt, now or each time it is tried again, but for a zero:
\* season 0 of a title and episode 0 in Chinese are read as such, and never accepted.
\* Whatever else the names say, and whatever became of the downloads, the links and
\* the series before, the report can be written; and all that is written is valid.
ReportsAccepted ==
  \A s \in Subjects :
    /\ Accepted(row[s])
    /\ \A report \in Reports(s) : Accepted(report) \/ ShowsZero(report)

\* A series is completed only when the library holds, for every wanted episode, a
\* file of that episode which the program linked.
CompletedIsCovered ==
  \A s \in Subjects :
    row[s].stage = "completed" /\ kind[s] = "tv" =>
      \A episode \in 1 .. row[s].tv.last : \E n \in Names :
        /\ Choice!MarksEpisode(Choice!Marker(FileNames[n], row[s].tv.season),
                               row[s].tv.season, episode)
        /\ targets[s][n] \in Copies

\* No step of the program touches a file in the library that it did not link,
\* or deletes a torrent that does not carry its tag.
UsersThingsKept ==
  [][/\ \A s \in Subjects, n \in Names :
          targets[s][n] \in Foreign \cup {Irregular} => targets'[s][n] = targets[s][n]
     /\ \A h \in doomed' \ doomed : qb[h].tags # {}]_vars

\* When a replacement forgets its downloads, their torrents, their files and the
\* links to them are gone: nothing is left that no record names any more.
ForgottenIsGone ==
  [][\A s \in Subjects : row[s].pending /\ ~row'[s].pending =>
       /\ \A d \in DownloadsOf(row[s]) : ListByTag(qb, StableKey(s, d.torrent)) = {}
       /\ \A source \in JournaledSources(row[s]) :
            source[1] = Null \/ sources[source[1]][source[2]] = 0
       /\ \A file \in JournaledLinks(row[s]) : targets[s][file[2]] \notin Copies]_vars

\* README.md and the message of require_owned_torrent say of replacing a torrent
\* that it stops when another subscription shares the old torrent.  The code looks
\* at the tags, and a subscription that found a torrent by its hash has put none
\* on it: the cleanup begins although the other one is downloading that torrent.
SharedTorrentStops ==
  [][\A s \in Subjects, other \in Subjects :
       s # other /\ ~At(s, "unlink") /\ At(s, "unlink")' =>
         \A d \in DownloadsOf(row[other]) :
           d.state = "live" => d.hash \notin attempt'[s].found]_vars
=============================================================================
