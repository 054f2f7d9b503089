------------------------- MODULE CandidateSelection -------------------------
(***************************************************************************)
(* From what the tracker found to the one torrent that may be downloaded.   *)
(* A candidate found through the subject's Douban or IMDb identity may be   *)
(* downloaded without asking ("exact"); one found by keyword needs the      *)
(* user's confirmation.  Seeders, and the rule a torrent's title matches    *)
(* with its priority (Null: none), do not change while the model runs.     *)
(***************************************************************************)
EXTENDS EpisodeCoverage
CONSTANTS Torrents,
          Seeders,        \* Torrents -> Nat
          Rank,           \* Torrents -> Nat, the order of their tracker ids
          RulesEmpty,     \* no match rule is configured
          Priority,       \* Torrents -> Nat \cup {Null}
          Titles          \* Torrents -> what recognize can read in a title

Candidates == [Torrents -> {"absent", "exact", "keyword"}]

\* search_candidates: each search is tried only if the ones before found nothing.
Found(douban, imdb, keyword) ==
  LET exact == IF douban # {} THEN douban ELSE imdb IN
  [t \in Torrents |-> CASE t \in exact                   -> "exact"
                        [] exact = {} /\ t \in keyword   -> "keyword"
                        [] OTHER                         -> "absent"]

Present(candidates) == {t \in Torrents : candidates[t] # "absent"}

\* The list's order: most seeders first, then by id.
Before(t, u) == Seeders[t] > Seeders[u] \/ (Seeders[t] = Seeders[u] /\ Rank[t] < Rank[u])

FirstOf(torrents) ==
  IF torrents = {} THEN Null
  ELSE CHOOSE t \in torrents : \A u \in torrents \ {t} : Before(t, u)

Strongest(torrents) ==
  {t \in torrents : \A u \in torrents : Priority[u] <= Priority[t]}

DownloadAuthorized(candidates, confirmed, t) ==
  t = confirmed \/ candidates[t] = "exact"

\* match_candidates: without rules the first candidate, else the first of those
\* whose rule has the highest priority.
Matched(candidates) ==
  LET present == Present(candidates) IN
  IF RulesEmpty THEN FirstOf(present)
  ELSE FirstOf(Strongest({t \in present : Priority[t] # Null}))

\* authorized_selection, over a list nobody has confirmed anything of.
AuthorizedSelection(candidates) ==
  LET t == Matched(candidates) IN
  IF t # Null /\ DownloadAuthorized(candidates, Null, t) THEN t ELSE Null

TitleCovers(t, season, episode) ==
  Recognize(Titles[t]) # Null /\ Covers(Recognize(Titles[t]), season, episode)

TvEligible(candidates, confirmed, used, season, episode) ==
  {t \in Present(candidates) :
     /\ DownloadAuthorized(candidates, confirmed, t)
     /\ t \notin used
     /\ t = confirmed \/ RulesEmpty \/ Priority[t] # Null
     /\ TitleCovers(t, season, episode)}

\* select_tv_candidate: the user's choice beats every rule; without a rule 0.
TvSelection(candidates, confirmed, used, season, episode) ==
  LET eligible == TvEligible(candidates, confirmed, used, season, episode)
      weight(t) == IF Priority[t] = Null THEN 0 ELSE Priority[t]
  IN  IF confirmed \in eligible THEN confirmed
      ELSE FirstOf({t \in eligible : \A u \in eligible : weight(u) <= weight(t)})
=============================================================================
