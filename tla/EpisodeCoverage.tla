-------------------------- MODULE EpisodeCoverage --------------------------
(***************************************************************************)
(* Which episodes a torrent's title or a file's name stands for.  A name    *)
(* is the numbers it shows in the five places where recognize looks: a      *)
(* function from some of Places to a season, a first number and the end of  *)
(* a range, Null for what is not there.  A coverage without a season is of  *)
(* any season; a season pack has no first episode.                         *)
(***************************************************************************)
EXTENDS Integers, FiniteSets
CONSTANTS Null

Coverage(season, first, last) == [season |-> season, first |-> first, last |-> last]

\* Mutant: the end of a range is taken as it is written.
RangeAsWritten(season, first, end) ==
  Coverage(season, first, IF end # Null THEN end ELSE first)

\* range_or_episode: a range that does not go up is its first episode.
RangeOrEpisode(season, first, end) ==
  Coverage(season, first, IF end # Null /\ end > first THEN end ELSE first)

SeasonPack(season) == Coverage(season, Null, Null)

\* S01E02, E02 (the one inside S00E02 counts as well), the Chinese numeral, [02], S01.
Places == <<"season_episode", "episode", "chinese", "bracket", "pack">>

Positive(numbers) == numbers.season # 0 /\ numbers.first # 0

\* A zero is refused in every place but the third.
Tells(name, i) ==
  /\ Places[i] \in DOMAIN name
  /\ Places[i] = "chinese" \/ Positive(name[Places[i]])

\* recognize: the first place that tells something.
Recognize(name) ==
  LET telling == {i \in 1 .. 5 : Tells(name, i)}
      first == CHOOSE i \in telling : \A j \in telling : i <= j
      numbers == name[Places[first]]
  IN  CASE telling = {}             -> Null
        [] telling # {} /\ first = 5 -> SeasonPack(numbers.season)
        [] OTHER -> RangeOrEpisode(numbers.season, numbers.first, numbers.last)

Covers(coverage, season, episode) ==
  IF coverage.first = Null THEN coverage.season = season
  ELSE /\ coverage.season \in {Null, season}
       /\ episode \in coverage.first .. coverage.last

\* file_episode_marker: a file without a season is taken to be of the subject's.
Marker(name, season) ==
  LET coverage == Recognize(name) IN
  IF coverage = Null THEN Coverage(Null, Null, Null)
  ELSE [coverage EXCEPT !.season = IF @ = Null THEN season ELSE @]

MarksEpisode(marker, season, episode) ==
  /\ marker.season = season
  /\ marker.first # Null
  /\ episode \in marker.first .. marker.last

\* maps_target_episode: the file is of some episode that is wanted.
MarksTarget(marker, tv) ==
  \E episode \in 1 .. tv.last : MarksEpisode(marker, tv.season, episode)
=============================================================================
