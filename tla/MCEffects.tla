------------------------------ MODULE MCEffects ------------------------------
EXTENDS SubscriptionEffects, TLC
CONSTANTS s1, t1, t2, h1, h2, h3, h4, foreign

MCIntruders == {<<1, foreign>>, <<2, Irregular>>}

Shown(season, first, last) == [season |-> season, first |-> first, last |-> last]

\* Files 1 and 2 are the episodes of the series; file 3 is of no episode, and file 4 of
\* episode 0 in Chinese.
MCNames == 1 .. 4
MCFilesOf == (h1 :> {1}) @@ (h2 :> {1, 2}) @@ (h3 :> {3}) @@ (h4 :> {4})
MCFileNames ==
  (1 :> ("season_episode" :> Shown(1, 1, Null)))
    @@ (2 :> (("season_episode" :> Shown(0, 2, 1)) @@ ("episode" :> Shown(Null, 2, 1))))
    @@ (3 :> ("bracket" :> Shown(Null, 0, Null)))
    @@ (4 :> ("chinese" :> Shown(Null, 0, Null)))

\* The first torrent may be published anew, with a file of no episode or of the zeroth.
MCEditions == (t1 :> {h1, h3, h4}) @@ (t2 :> {h2})
MCFirst == (t1 :> h1) @@ (t2 :> h2)
MCSeeders == (t1 :> 1) @@ (t2 :> 0)
MCRank == (t1 :> 1) @@ (t2 :> 2)
MCPriority == (t1 :> 0) @@ (t2 :> 0)
MCTitles ==
  (t1 :> ("episode" :> Shown(Null, 1, Null))) @@ (t2 :> ("pack" :> Shown(1, Null, Null)))

MCAnswers == {<<{t1}, {}, {}>>, <<{}, {}, {t1, t2}>>}

\* Two subjects whose search finds the same torrent.
MCOneAnswer == {<<{t1}, {}, {}>>}

MCCounts == {0, 2}
\* Titles name no season or season 0; Douban's list has none of them or the first season.
MCTitleSeasons == {Null, 0}
MCListings == {{}, {[own |-> TRUE, number |-> 1]}}
MCSeasons == {{}, {[number |-> 0, count |-> 1], [number |-> 1, count |-> 2]}}
=============================================================================
