---------------------------- MODULE PayloadRules ----------------------------
(***************************************************************************)
(* What the repository demands of a payload before it writes one.  A write  *)
(* that is refused fails the whole settlement of an attempt, which is then  *)
(* left to its lease.  Texts and times are not modelled; the key of a       *)
(* download or a link is a function of its torrent.                        *)
(***************************************************************************)
EXTENDS EpisodeCoverage, Sequences

\* validate_tv_detail; the wanted episodes are 1 .. last.
TvValid(tv) == tv.season > 0 /\ tv.last > 0

\* validate_file_episode_range, with the first number as the end of one episode.
FileRangeValid(marker) ==
  /\ 0 \notin {marker.season, marker.first, marker.last}
  /\ marker.last # Null => marker.first # Null /\ marker.first <= marker.last

UniqueDownloads(downloads) ==
  \A i, j \in 1 .. Len(downloads) : downloads[i].torrent = downloads[j].torrent => i = j

\* derive_link_state, over the outcomes of a torrent's files.
DerivedLinkState(outcomes) ==
  CASE outcomes = {"linked"} -> "completed"
    [] "linked" \in outcomes /\ outcomes # {"linked"} -> "partial"
    [] "linked" \notin outcomes /\ outcomes \cap {"failed", "missing", "conflict"} # {} -> "failed"
    [] OTHER -> "planned"

\* What execute_link reports as the state of the link it made.
ReportedLinkState(outcomes) ==
  CASE outcomes = {"linked"} -> "completed"
    [] "linked" \in outcomes /\ outcomes # {"linked"} -> "partial"
    [] OTHER -> "failed"

LinksOf(r, t) == {n \in DOMAIN r.links[t] : r.links[t][n] # "none"}

\* A link names a download of the payload, and its state is the one of its files.
LinkValid(r, t) ==
  LET outcomes == {r.links[t][n] : n \in LinksOf(r, t)} IN
  LinksOf(r, t) # {} =>
    /\ \E i \in 1 .. Len(r.downloads) : r.downloads[i].torrent = t
    /\ ReportedLinkState(outcomes) = DerivedLinkState(outcomes)

\* validate_for: names are the files' names, by number.
PayloadValid(r, names) ==
  LET season == IF r.tv = Null THEN Null ELSE r.tv.season IN
  /\ r.tv # Null => TvValid(r.tv)
  /\ UniqueDownloads(r.downloads)
  /\ \A i \in 1 .. Len(r.downloads) : \A n \in r.downloads[i].files :
       FileRangeValid(Marker(names[n], season))
  /\ \A t \in DOMAIN r.links :
       LinkValid(r, t) /\ \A n \in LinksOf(r, t) : FileRangeValid(Marker(names[n], season))
=============================================================================
