----------------------------- MODULE TvMetadata -----------------------------
(***************************************************************************)
(* Where a series' season and number of episodes come from: the subject on  *)
(* Douban if it tells the number of episodes, else a season of the series   *)
(* on TMDB.  Season numbers read off titles are inputs (Null: none); a      *)
(* title may well say season 0 ("Season 0").                               *)
(***************************************************************************)
EXTENDS Naturals
CONSTANTS Null

TvDetail(season, last) == [season |-> season, last |-> last]

OrElse(first, second) == IF first # Null THEN first ELSE second

\* resolve_tv_season_number: listed is the set of the seasons Douban lists, each
\* with the number in its title; own marks the subject's.
ResolvedSeason(listed, inTitle) ==
  LET own == {s.number : s \in {x \in listed : x.own /\ x.number # Null}} IN
  IF own # {} THEN CHOOSE n \in own : TRUE ELSE OrElse(inTitle, 1)

FromDouban(count, listed, inTitle) ==
  IF count \in Nat \ {0} THEN TvDetail(ResolvedSeason(listed, inTitle), count) ELSE Null

\* load_tv_detail: the season asked for, else the last regular one with episodes.
TmdbSeason(seasons, requested) ==
  LET asked == {s \in seasons : s.number = requested}
      regular == {s \in seasons : s.number > 0 /\ s.count > 0}
  IN  IF asked # {} THEN CHOOSE s \in asked : TRUE
      ELSE IF regular # {} THEN CHOOSE s \in regular : \A r \in regular : r.number <= s.number
      ELSE Null

FromTmdb(seasons, requested) ==
  LET season == TmdbSeason(seasons, requested) IN
  IF season = Null \/ season.number = 0 \/ season.count = 0 THEN Null
  ELSE TvDetail(season.number, season.count)

\* execute_meta for a series: what the attempt reports, Null if it fails.  Only TMDB is
\* asked for the season in another of the subject's titles when the first has none.
LoadedDetail(count, listed, inTitle, elsewhere, keyConfigured, seasons) ==
  LET douban == FromDouban(count, listed, inTitle) IN
  IF douban # Null THEN douban
  ELSE IF keyConfigured THEN FromTmdb(seasons, OrElse(inTitle, elsewhere)) ELSE Null
=============================================================================
