------------------------- MODULE ExecutionOutcomes -------------------------
(***************************************************************************)
(* What one attempt may report, as a function of the row it claimed: the    *)
(* kind of the subject, the operation, and the payload as it was then.     *)
(* The tracker, qBittorrent and the file system answer as they like; what  *)
(* they cannot do is make an attempt report what its operation never does. *)
(* Downloads are kept in no order, so "the last one that is not retired"   *)
(* is any one of those that are not retired.                               *)
(***************************************************************************)
EXTENDS SubscriptionRow

NoUpdates == [t \in {} |-> "live"]
Update(t, state) == [u \in {t} |-> state]
Merge(updates) == [step |-> "merge", search |-> Null, downloads |-> updates]
NoDelta == Merge(NoUpdates)

\* current_download, one of which is the last in the row's list.
CurrentDownloads(payload) ==
  {t \in Torrents : payload.downloads[t] \in {"live", "failed"}}

\* confirmed_selection: the user's choice, while it has no download under way.
HasConfirmed(payload) ==
  /\ payload.user_confirmed # Null
  /\ payload.downloads[payload.user_confirmed] # "live"

\* retry_selection: the current download failed to be added, and may be again.
Retryable(payload, t) ==
  /\ payload.downloads[t] = "failed"
  /\ payload.candidates[t] # "absent"
  /\ Authorized(payload, t)

\* What a search settles on: the candidate list it saves and its choice.
Match(candidates, confirmed, selected) ==
  [candidates |-> candidates, user_confirmed |-> confirmed, selected |-> selected]

KeptMatch(payload, selected) ==
  Match(payload.candidates, payload.user_confirmed, selected)

FreshMatches ==
  UNION {{Match(found, Null, t) : t \in {Null} \cup {u \in Torrents : found[u] = "exact"}}
           : found \in Candidates}

\* Mutant: a search starts afresh whatever the user chose.
MatchesUnasked(payload) == FreshMatches

MovieMatches(payload) ==
  LET current == CurrentDownloads(payload)
      retried == {t \in current : Retryable(payload, t)}
  IN  IF HasConfirmed(payload) THEN {KeptMatch(payload, payload.user_confirmed)}
      ELSE {KeptMatch(payload, t) : t \in retried}
             \cup (IF current # {} /\ current = retried THEN {} ELSE FreshMatches)

\* select_tv_candidate chooses again among the authorised torrents not in use.
TvChoices(payload, match) ==
  {t \in Torrents : /\ match.candidates[t] # "absent"
                    /\ \/ match.candidates[t] = "exact"
                       \/ match.user_confirmed = t
                    /\ payload.downloads[t] # "live"}

Matches(work) ==
  IF work.media_kind = "movie" THEN MovieMatches(work.payload)
  ELSE UNION {{[m EXCEPT !.selected = t] : t \in {Null} \cup TvChoices(work.payload, m)}
                : m \in MovieMatches(work.payload)}

SearchDelta(match, updates) ==
  [step |-> "merge",
   search |-> [candidates |-> match.candidates, user_confirmed |-> match.user_confirmed],
   downloads |-> updates]

Outcome(disposition, delta) == [disposition |-> disposition, delta |-> delta]

SearchFinishes(work) ==
  {IF m.selected = Null
   THEN Outcome("search_waiting", SearchDelta(m, NoUpdates))
   ELSE Outcome("search_pushed", SearchDelta(m, Update(m.selected, "live")))
     : m \in Matches(work)}

\* The search, the torrent file or the push fails; only a push leaves a download.
SearchFailures(work) ==
  LET chosen == {m \in Matches(work) : m.selected # Null} IN
  {NoDelta}
    \cup {SearchDelta(m, NoUpdates) : m \in chosen}
    \cup {SearchDelta(m, Update(m.selected, "failed")) : m \in chosen}

\* Two attempts: the first journals the files of every download qBittorrent still
\* has (which revives its state), the next deletes them and forgets the downloads.
ReplacementFinishes(payload) ==
  IF payload.replacement_prepared
  THEN {Outcome("search_waiting", [NoDelta EXCEPT !.step = "cleaned"])}
  ELSE LET kept == {t \in Torrents : payload.downloads[t] # "none"} IN
       {Outcome("search_waiting",
                [step |-> "prepared",
                 search |-> Null,
                 downloads |-> [t \in kept |-> IF t \in found THEN "live"
                                               ELSE payload.downloads[t]]])
          : found \in SUBSET kept}

\* Progress and link attempts look at the current download, which they find; a
\* series whose download maps to none of its episodes ignores it and goes on.
Inspected(payload) == {Merge(Update(t, "live")) : t \in CurrentDownloads(payload)}

Ignored(payload) == {Merge(Update(t, "retired")) : t \in CurrentDownloads(payload)}

ProgressDispositions == {"progress_pending", "progress_downloaded"}

LinkDispositions(media_kind) ==
  {"link_pending_download", "link_planned", "link_completed"}
    \cup (IF media_kind = "tv" THEN {"link_more_required"} ELSE {})

Outcomes(dispositions, deltas) ==
  {Outcome(d, delta) : d \in dispositions, delta \in deltas}

\* Mutant: a search does not look whether a replacement is pending.
OutcomesIgnoringReplacement(work) ==
  CASE work.operation = "movie_meta"   -> {Outcome("meta_ready", NoDelta)}
    [] work.operation = "movie_search" -> SearchFinishes(work)
    [] OTHER -> Outcomes(ProgressDispositions, Inspected(work.payload))

FinishOutcomes(work) ==
  CASE work.operation = "movie_meta" -> {Outcome("meta_ready", NoDelta)}
    [] work.operation = "movie_search" ->
         IF work.payload.replacement_pending
         THEN ReplacementFinishes(work.payload)
         ELSE SearchFinishes(work)
    [] work.operation = "movie_progress" ->
         Outcomes(ProgressDispositions, Inspected(work.payload))
    [] OTHER ->
         Outcomes(LinkDispositions(work.media_kind), Inspected(work.payload))
           \cup (IF work.media_kind = "tv"
                 THEN Outcomes({"link_more_required"}, Ignored(work.payload)) ELSE {})

\* Without a current download progress and link attempts can only fail.
FailOutcomes(work) ==
  CASE work.operation = "movie_search" /\ ~work.payload.replacement_pending ->
         SearchFailures(work)
    [] work.operation \in {"movie_progress", "movie_link"} ->
         {NoDelta} \cup Inspected(work.payload)
    [] OTHER -> {NoDelta}
=============================================================================
