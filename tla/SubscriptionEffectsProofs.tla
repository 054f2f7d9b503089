---------------------- MODULE SubscriptionEffectsProofs ----------------------
(***************************************************************************)
(* What the attempts do to the world outside and what the rows then say.   *)
(*                                                                         *)
(* StateOK: everything is of its kind, and a running attempt acts upon the *)
(* row as it is.  On it rest five parts, each inductive beside it:         *)
(* FlowInv, that one torrent at most can come to carry a key, those on     *)
(* their way included, and that a push in flight is the only source of     *)
(* one; LinkInv, that what an attempt planned to keep or has made are      *)
(* links of the program's own; CompletedInv, that a journal that covered   *)
(* a series goes on to cover it; MovieInv, that a movie has one download   *)
(* in use and a search none; CleanInv, that a cleanup knows every torrent  *)
(* under the row's tags, and that nothing stands any more at the places    *)
(* it has been to.                                                         *)
(***************************************************************************)
EXTENDS SubscriptionEffects, FiniteOrders

-----------------------------------------------------------------------------
(* Numbers and orders.                                                      *)

LEMMA GreatestExists ==
  ASSUME NEW bound \in Nat, NEW numbers, numbers \subseteq 0 .. bound, numbers # {}
  PROVE  \E n \in numbers : \A m \in numbers : m <= n
<1> DEFINE rest == {k \in Nat : bound - k \in numbers}
<1>1. \A n \in numbers : bound - n \in rest
  BY SMT
<1>2. rest \subseteq Nat /\ rest # {}
  BY <1>1
<1>3. PICK k \in rest : \A m \in rest : k <= m
  BY <1>2, LeastOf
<1>4. bound - k \in numbers
  OBVIOUS
<1>5. \A n \in numbers : n <= bound - k
  BY <1>1, <1>3
<1> QED BY <1>4, <1>5

LEMMA GreatestOfFinite ==
  ASSUME NEW set, IsFiniteSet(set), set # {}, NEW value, \A x \in set : value[x] \in Nat
  PROVE  \E x \in set : \A y \in set : value[y] <= value[x]
<1> DEFINE Greatest(T) == \E x \in T : \A y \in T : value[y] <= value[x]
           sizes == {n \in Nat : \E T \in SUBSET set : T # {} /\ ~Greatest(T) /\ n = Cardinality(T)}
<1>0. \A T \in SUBSET set : IsFiniteSet(T) /\ Cardinality(T) \in Nat
  BY FS_Subset, FS_CardinalityType
<1>1. SUFFICES ASSUME ~Greatest(set) PROVE FALSE
  OBVIOUS
<1>2. sizes # {}
  BY <1>0, <1>1
<1>3. PICK n \in sizes : \A m \in sizes : n <= m
  BY <1>2, LeastOf
<1>4. PICK T \in SUBSET set : T # {} /\ ~Greatest(T) /\ n = Cardinality(T)
  BY <1>3
<1>5. PICK t \in T : TRUE
  BY <1>4
<1>6. T \ {t} # {}
  BY <1>4, <1>5
<1>7. Greatest(T \ {t})
  <2>1. Cardinality(T \ {t}) = n - 1 /\ n \in Nat
    BY <1>0, <1>4, FS_RemoveElement
  <2>2. Cardinality(T \ {t}) \notin sizes
    <3> HIDE DEF sizes, Greatest
    <3> QED BY <2>1, <1>3
  <2> QED BY <2>2, <1>0, <1>6
<1>8. PICK f \in T \ {t} : \A u \in T \ {t} : value[u] <= value[f]
  BY <1>7
<1>9. Greatest(T)
  BY <1>8
<1> QED BY <1>4, <1>9

\* Among finitely many torrents one comes first: nothing else is to be had from a list
\* of candidates.
LEMMA FirstExists ==
  ASSUME NEW torrents, torrents \subseteq Torrents, torrents # {}
  PROVE  \E t \in torrents : \A u \in torrents \ {t} : Choice!Before(t, u)
<1> DEFINE First(T) == \E t \in T : \A u \in T \ {t} : Choice!Before(t, u)
           sizes == {n \in Nat : \E T \in SUBSET Torrents : T # {} /\ ~First(T) /\ n = Cardinality(T)}
<1>0. \A T \in SUBSET Torrents : IsFiniteSet(T) /\ Cardinality(T) \in Nat
  BY OrderAssumption, FS_Subset, FS_CardinalityType
<1>1. SUFFICES ASSUME ~First(torrents) PROVE FALSE
  OBVIOUS
<1>2. sizes # {}
  BY <1>0, <1>1
<1>3. PICK n \in sizes : \A m \in sizes : n <= m
  BY <1>2, LeastOf
<1>4. PICK T \in SUBSET Torrents : T # {} /\ ~First(T) /\ n = Cardinality(T)
  BY <1>3
<1>5. PICK t \in T : TRUE
  BY <1>4
<1>6. T \ {t} # {}
  BY <1>4, <1>5
<1>7. First(T \ {t})
  <2>1. Cardinality(T \ {t}) = n - 1 /\ n \in Nat
    BY <1>0, <1>4, FS_RemoveElement
  <2>2. Cardinality(T \ {t}) \notin sizes
    BY <2>1, <1>3
  <2> QED BY <2>2, <1>0, <1>6
<1>8. PICK f \in T \ {t} : \A u \in (T \ {t}) \ {f} : Choice!Before(f, u)
  BY <1>7
<1>9. Choice!Before(t, f) \/ Choice!Before(f, t)
  BY <1>8, OrderAssumption DEF Choice!Before
<1>10. \A u \in T \ {f} : Choice!Before(t, f) /\ Choice!Before(f, u) => Choice!Before(t, u)
  BY <1>8, OrderAssumption DEF Choice!Before
<1>11. First(T)
  BY <1>8, <1>9, <1>10
<1> QED BY <1>4, <1>11

LEMMA FirstOfIsFirst ==
  ASSUME NEW torrents, torrents \subseteq Torrents
  PROVE  Choice!FirstOf(torrents) \in torrents \cup {Null}
BY FirstExists DEF Choice!FirstOf

-----------------------------------------------------------------------------
(* The operators of the rows.                                               *)

\* A download is put in the place of the one of its torrent, and of nothing else.
LEMMA MergedIsTyped ==
  ASSUME NEW downloads \in Seq(AnyDownload), NEW update \in AnyDownload
  PROVE  /\ MergedDownload(downloads, update) \in Seq(AnyDownload)
         /\ Len(downloads) <= Len(MergedDownload(downloads, update))
<1>1. CASE \E i \in 1 .. Len(downloads) : downloads[i].torrent = update.torrent
  <2> DEFINE merged == [i \in 1 .. Len(downloads) |->
                          IF downloads[i].torrent = update.torrent THEN update ELSE downloads[i]]
  <2>1. merged \in Seq(AnyDownload) /\ Len(merged) = Len(downloads)
    OBVIOUS
  <2> QED BY <2>1, <1>1 DEF MergedDownload
<1>2. CASE ~\E i \in 1 .. Len(downloads) : downloads[i].torrent = update.torrent
  <2>1. Append(downloads, update) \in Seq(AnyDownload)
    OBVIOUS
  <2>2. Len(Append(downloads, update)) = Len(downloads) + 1
    OBVIOUS
  <2> QED BY <2>1, <2>2, <1>2 DEF MergedDownload
<1> QED BY <1>1, <1>2

LEMMA MergedHolds ==
  ASSUME NEW downloads \in Seq(AnyDownload), NEW update \in AnyDownload,
         NEW i \in 1 .. Len(MergedDownload(downloads, update))
  PROVE  \/ MergedDownload(downloads, update)[i] = update
         \/ /\ i \in 1 .. Len(downloads)
            /\ MergedDownload(downloads, update)[i] = downloads[i]
            /\ downloads[i].torrent # update.torrent
<1>1. CASE \E j \in 1 .. Len(downloads) : downloads[j].torrent = update.torrent
  <2> DEFINE merged == [j \in 1 .. Len(downloads) |->
                          IF downloads[j].torrent = update.torrent THEN update ELSE downloads[j]]
  <2>1. merged \in Seq(AnyDownload) /\ Len(merged) = Len(downloads)
    OBVIOUS
  <2>2. MergedDownload(downloads, update) = merged
    BY <1>1 DEF MergedDownload
  <2> QED BY <2>1, <2>2
<1>2. CASE ~\E j \in 1 .. Len(downloads) : downloads[j].torrent = update.torrent
  <2>1. MergedDownload(downloads, update) = Append(downloads, update)
    BY <1>2 DEF MergedDownload
  <2> QED BY <2>1, <1>2
<1> QED BY <1>1, <1>2

LEMMA MergedKeeps ==
  ASSUME NEW downloads \in Seq(AnyDownload), NEW update \in AnyDownload
  PROVE  /\ \A i \in 1 .. Len(downloads) : downloads[i].torrent # update.torrent =>
              MergedDownload(downloads, update)[i] = downloads[i]
         /\ \E i \in 1 .. Len(MergedDownload(downloads, update)) :
              MergedDownload(downloads, update)[i] = update
<1>1. CASE \E j \in 1 .. Len(downloads) : downloads[j].torrent = update.torrent
  <2> DEFINE merged == [j \in 1 .. Len(downloads) |->
                          IF downloads[j].torrent = update.torrent THEN update ELSE downloads[j]]
  <2>1. merged \in Seq(AnyDownload) /\ Len(merged) = Len(downloads)
    OBVIOUS
  <2>2. MergedDownload(downloads, update) = merged
    BY <1>1 DEF MergedDownload
  <2> QED BY <2>1, <2>2, <1>1
<1>2. CASE ~\E j \in 1 .. Len(downloads) : downloads[j].torrent = update.torrent
  <2>1. MergedDownload(downloads, update) = Append(downloads, update)
    BY <1>2 DEF MergedDownload
  <2> QED BY <2>1, <1>2
<1> QED BY <1>1, <1>2

LEMMA MergedStaysUnique ==
  ASSUME NEW downloads \in Seq(AnyDownload), NEW update \in AnyDownload,
         Rules!UniqueDownloads(downloads)
  PROVE  Rules!UniqueDownloads(MergedDownload(downloads, update))
<1>1. CASE \E j \in 1 .. Len(downloads) : downloads[j].torrent = update.torrent
  <2> DEFINE merged == [j \in 1 .. Len(downloads) |->
                          IF downloads[j].torrent = update.torrent THEN update ELSE downloads[j]]
  <2>1. merged \in Seq(AnyDownload) /\ Len(merged) = Len(downloads)
    OBVIOUS
  <2>2. MergedDownload(downloads, update) = merged
    BY <1>1 DEF MergedDownload
  <2>3. \A i \in 1 .. Len(downloads) : merged[i].torrent = downloads[i].torrent
    OBVIOUS
  <2> QED BY <2>1, <2>2, <2>3 DEF Rules!UniqueDownloads
<1>2. CASE ~\E j \in 1 .. Len(downloads) : downloads[j].torrent = update.torrent
  <2>1. MergedDownload(downloads, update) = Append(downloads, update)
    BY <1>2 DEF MergedDownload
  <2> QED BY <2>1, <1>2 DEF Rules!UniqueDownloads
<1> QED BY <1>1, <1>2

LEMMA RecordedIsTyped ==
  ASSUME NEW r, r.downloads \in Seq(AnyDownload), NEW d \in DownloadsOf(r)
  PROVE  d \in AnyDownload
BY DEF DownloadsOf, Indices

LEMMA CurrentIsRecorded ==
  ASSUME NEW r, r.downloads \in Seq(AnyDownload), CurrentDownload(r) # Null
  PROVE  CurrentDownload(r) \in DownloadsOf(r) /\ CurrentDownload(r).state # "retired"
<1> DEFINE kept == {i \in Indices(r) : r.downloads[i].state # "retired"}
<1>1. kept # {}
  BY DEF CurrentDownload
<1>2. kept \subseteq 0 .. Len(r.downloads) /\ Len(r.downloads) \in Nat
  BY DEF Indices
<1>3. \E i \in kept : \A j \in kept : j <= i
  BY <1>1, <1>2, GreatestExists
<1>4. PICK i \in kept : CurrentDownload(r) = r.downloads[i]
  BY <1>1, <1>3 DEF CurrentDownload
<1> QED BY <1>4 DEF DownloadsOf

LEMMA CurrentExists ==
  ASSUME NEW r, NEW i \in Indices(r), r.downloads \in Seq(AnyDownload),
         r.downloads[i].state # "retired"
  PROVE  \E j \in Indices(r) : CurrentDownload(r) = r.downloads[j]
                                /\ r.downloads[j].state # "retired"
<1> DEFINE kept == {j \in Indices(r) : r.downloads[j].state # "retired"}
<1>1. kept # {}
  OBVIOUS
<1>2. kept \subseteq 0 .. Len(r.downloads) /\ Len(r.downloads) \in Nat
  BY DEF Indices
<1>3. \E j \in kept : \A k \in kept : k <= j
  BY <1>1, <1>2, GreatestExists
<1> QED BY <1>1, <1>3 DEF CurrentDownload

LEMMA ReconcileFacts ==
  ASSUME NEW key, NEW hash \in Hashes, NEW tagged, NEW hashed, hashed \subseteq {hash}
  PROVE  LET decided == Reconcile(key, hash, tagged, hashed) IN
         /\ decided.decision \in {"use", "add", "conflict"}
         /\ decided.decision = "use" => /\ decided.hash = hash /\ tagged \subseteq {hash}
                                        /\ hash \in tagged \cup hashed
         /\ decided.decision = "add" => tagged = {} /\ hashed = {}
<1> DEFINE decided == Reconcile(key, hash, tagged, hashed)
<1>0. hash # Null
  BY NullAssumption
<1>1. ~Contradictory(hash, tagged) <=> tagged \subseteq {hash}
  BY <1>0 DEF Contradictory
<1>2. CASE Contradictory(hash, tagged)
  <2>1. decided = [decision |-> "conflict", hash |-> Null]
    BY <1>2 DEF Reconcile
  <2> QED BY <2>1
<1>3. CASE tagged \subseteq {hash} /\ hash \in tagged \cup hashed
  <2>1. decided = [decision |-> "use", hash |-> hash]
    BY <1>0, <1>1, <1>3 DEF Reconcile
  <2> QED BY <2>1, <1>3
<1>4. CASE tagged \subseteq {hash} /\ hash \notin tagged \cup hashed
  <2>1. decided = [decision |-> "add", hash |-> Null]
    BY <1>0, <1>1, <1>4 DEF Reconcile
  <2> QED BY <2>1, <1>4
<1> QED BY <1>1, <1>2, <1>3, <1>4

LEMMA ObserveFacts ==
  ASSUME NEW server, NEW key, NEW hash \in Hashes
  PROVE  LET seen == Observe(server, key, hash) IN
         /\ seen.decision \in {"use", "add", "conflict"}
         /\ seen.decision = "use" => /\ seen.hash = hash /\ server[hash] # Null
                                     /\ ListByTag(server, key) \subseteq {hash}
         /\ seen.decision = "add" => ListByTag(server, key) = {} /\ server[hash] = Null
<1>1. ListByHash(server, hash) \subseteq {hash}
  BY DEF ListByHash
<1>2. hash \in ListByHash(server, hash) <=> server[hash] # Null
  BY NullAssumption DEF ListByHash
<1>3. hash \in ListByTag(server, key) => server[hash] # Null
  BY DEF ListByTag
<1> QED BY <1>1, <1>2, <1>3, ReconcileFacts DEF Observe

LEMMA WithFields ==
  ASSUME NEW known, NEW new
  PROVE  /\ DOMAIN With(known, new) = DOMAIN known \cup DOMAIN new
         /\ \A x \in DOMAIN new : With(known, new)[x] = new[x]
         /\ \A x \in DOMAIN known \ DOMAIN new : With(known, new)[x] = known[x]
BY DEF With

\* What an attempt knew it still knows, except what it learns and where it is.
LEMMA ContinueGives ==
  ASSUME NEW s \in Subjects, NEW pc, NEW more, DOMAIN attempt = Subjects,
         "pc" \in DOMAIN attempt[s], "pc" \notin DOMAIN more, Continue(s, pc, more)
  PROVE  /\ DOMAIN attempt' = Subjects
         /\ \A o \in Subjects \ {s} : attempt'[o] = attempt[o]
         /\ DOMAIN attempt'[s] = DOMAIN attempt[s] \cup DOMAIN more
         /\ attempt'[s].pc = pc
         /\ \A x \in DOMAIN more : attempt'[s][x] = more[x]
         /\ \A x \in DOMAIN attempt[s] \ (DOMAIN more \cup {"pc"}) : attempt'[s][x] = attempt[s][x]
<1> DEFINE known == [attempt[s] EXCEPT !.pc = pc]
<1>1. /\ DOMAIN attempt' = Subjects
      /\ \A o \in Subjects \ {s} : attempt'[o] = attempt[o]
      /\ attempt'[s] = With(known, more)
  BY DEF Continue
<1>2. DOMAIN known = DOMAIN attempt[s] /\ known.pc = pc
      /\ \A x \in DOMAIN attempt[s] \ {"pc"} : known[x] = attempt[s][x]
  OBVIOUS
<1>3. /\ DOMAIN With(known, more) = DOMAIN known \cup DOMAIN more
      /\ \A x \in DOMAIN more : With(known, more)[x] = more[x]
      /\ \A x \in DOMAIN known \ DOMAIN more : With(known, more)[x] = known[x]
  BY WithFields
<1> HIDE DEF known
<1>4. With(known, more).pc = pc
  BY <1>2, <1>3
<1> QED BY <1>1, <1>2, <1>3, <1>4

\* What a merged list holds.
LEMMA MergedSet ==
  ASSUME NEW r, NEW q, NEW update \in AnyDownload, r.downloads \in Seq(AnyDownload),
         q.downloads = MergedDownload(r.downloads, update)
  PROVE  \A d : d \in DownloadsOf(q) <=>
                  d = update \/ (d \in DownloadsOf(r) /\ d.torrent # update.torrent)
<1>1. /\ MergedDownload(r.downloads, update) \in Seq(AnyDownload)
      /\ Len(r.downloads) <= Len(MergedDownload(r.downloads, update))
  BY MergedIsTyped
<1>2. 1 .. Len(r.downloads) \subseteq 1 .. Len(q.downloads)
  BY <1>1
<1>3. \A i \in 1 .. Len(q.downloads) :
        q.downloads[i] = update \/ /\ i \in 1 .. Len(r.downloads)
                                   /\ q.downloads[i] = r.downloads[i]
                                   /\ r.downloads[i].torrent # update.torrent
  BY MergedHolds
<1>4. /\ \A i \in 1 .. Len(r.downloads) : r.downloads[i].torrent # update.torrent =>
           q.downloads[i] = r.downloads[i]
      /\ \E i \in 1 .. Len(q.downloads) : q.downloads[i] = update
  BY MergedKeeps
<1> QED BY <1>2, <1>3, <1>4 DEF DownloadsOf, Indices

-----------------------------------------------------------------------------
(* What the state looks like.                                               *)

PushPcs == {"fetch", "tag", "hash", "add", "verify", "settle"}
LinkPcs == {"probe", "link"}
CleanPcs == {"unlink", "remove", "deleted"}

\* What the program and qBittorrent know of one subscription is of the kinds they say.
RowOK(k, r) ==
  /\ r \in Rows
  /\ Rules!UniqueDownloads(r.downloads)
  /\ \A d \in DownloadsOf(r) : d.hash \in Hashes
  /\ \A t \in Torrents, n \in Names :
       r.links[t][n] # "none" => r.links[t][n] # "pending" /\ Recorded(r, t) # {}
  /\ r.pending => r.stage = "searching"
  /\ r.stage = "meta" => r.downloads = <<>>
  /\ r.tv = Null <=> (k = "movie" \/ r.stage = "meta")
  /\ r.tv # Null => Rules!TvValid(r.tv)

AttemptShape(a) ==
  /\ "pc" \in DOMAIN a /\ a.pc \in PushPcs \cup LinkPcs \cup CleanPcs
  /\ a.pc \in PushPcs =>
       /\ {"torrent", "candidates", "confirmed"} \subseteq DOMAIN a
       /\ a.torrent \in Torrents
       /\ a.candidates \in Choice!Candidates
       /\ a.confirmed \in Torrents \cup {Null}
  /\ a.pc \in PushPcs \ {"fetch"} => "hash" \in DOMAIN a /\ a.hash \in Hashes
  /\ a.pc = "hash" => "tagged" \in DOMAIN a
  /\ a.pc = "settle" => "pushed" \in DOMAIN a /\ a.pushed \in BOOLEAN
  /\ a.pc \in LinkPcs =>
       /\ "update" \in DOMAIN a
       /\ a.update \in AnyDownload /\ a.update.hash \in Hashes /\ a.update.state = "live"
  /\ a.pc = "link" =>
       /\ {"actions", "expected", "outcomes"} \subseteq DOMAIN a
       /\ DOMAIN a.actions = a.update.files
       /\ DOMAIN a.outcomes \subseteq a.update.files
       /\ \A n \in DOMAIN a.outcomes : a.outcomes[n] \in Files!Outcomes \ {"pending"}
  /\ a.pc \in CleanPcs => "found" \in DOMAIN a /\ a.found \subseteq Hashes
  /\ a.pc \in {"remove", "deleted"} => "left" \in DOMAIN a /\ a.left \subseteq Names
  /\ a.pc = "deleted" => "doing" \in DOMAIN a /\ a.doing \in a.found

\* A running attempt acts upon the row as it is.
AttemptFits(r, a) ==
  /\ a.pc \in PushPcs => r.stage = "searching" /\ ~r.pending
  /\ a.pc \in PushPcs \ {"fetch"} => \A d \in Recorded(r, a.torrent) : d.hash = a.hash
  /\ a.pc \in LinkPcs =>
       /\ r.stage = "linking"
       /\ \E d \in Recorded(r, a.update.torrent) :
            d.hash = a.update.hash /\ d.state # "retired"
  /\ a.pc \in CleanPcs => r.pending

WorldOK ==
  /\ published \in [Torrents -> Hashes]
  /\ qb \in Servers
  /\ importing \subseteq Hashes \X EffectKeys
  /\ doomed \subseteq Hashes /\ listed \subseteq Hashes
  /\ copies \in 1 .. MaxCopies
  /\ sources \in [Hashes -> [Names -> 0 .. MaxCopies]]
  /\ targets \in [Subjects -> [Names -> Files!Occupants]]

SubjectOK(s) ==
  /\ kind[s] \in {"movie", "tv"}
  /\ RowOK(kind[s], row[s])
  /\ attempt[s] # Null => AttemptShape(attempt[s]) /\ AttemptFits(row[s], attempt[s])

StateOK ==
  /\ WorldOK
  /\ row \in [Subjects -> Rows] /\ DOMAIN attempt = Subjects
  /\ \A s \in Subjects : SubjectOK(s)

\* What may come to carry a key: what carries it, and adds that carry it.
Claimants(key) ==
  {h \in Hashes : (qb[h] # Null /\ key \in qb[h].tags) \/ <<h, key>> \in importing}

NothingImported(s) == \A h \in Hashes, t \in Torrents : <<h, StableKey(s, t)>> \notin importing

AttemptFlow(s, a) ==
  /\ a.pc \notin {"verify", "settle"} => NothingImported(s)
  /\ a.pc = "hash" =>
       ListByTag(qb, StableKey(s, a.torrent)) \subseteq a.tagged /\ a.tagged \subseteq listed
  /\ a.pc = "add" => ListByTag(qb, StableKey(s, a.torrent)) = {}
  /\ a.pc = "settle" /\ a.pushed => a.hash \in listed
  /\ a.pc \in LinkPcs => a.update.hash \in listed

FlowInv ==
  /\ \A h \in Hashes : qb[h] # Null => h \in listed
  /\ \A key \in EffectKeys : \A g, h \in Claimants(key) : g = h
  /\ \A s \in Subjects : attempt[s] # Null => AttemptFlow(s, attempt[s])
  /\ PushedWasListed

Ours(s, h, n) == targets[s][n] \in {<<h, n, c>> : c \in 1 .. MaxCopies}

LinkFlow(s, a) ==
  a.pc = "link" =>
    /\ \A n \in DOMAIN a.actions :
         a.actions[n] \in {"skip", "accept"} => Ours(s, a.update.hash, n)
    /\ \A n \in DOMAIN a.outcomes : a.outcomes[n] = "linked" => Ours(s, a.update.hash, n)

LinkInv ==
  /\ LinkedIsOurs
  /\ \A s \in Subjects : attempt[s] # Null => LinkFlow(s, attempt[s])

CleanFlow(s, a) ==
  /\ a.pc \in CleanPcs =>
       /\ \A d \in DownloadsOf(row[s]) : ListByTag(qb, StableKey(s, d.torrent)) \subseteq a.found
       /\ \A h \in a.found : qb[h] # Null => qb[h].tags # {}
  /\ a.pc \in {"remove", "deleted"} =>
       /\ \A n \in a.left : targets[s][n] \notin Foreign \cup {Irregular}
       /\ \A d \in DownloadsOf(row[s]), n \in Names \ a.left :
            row[s].links[d.torrent][n] # "none" => targets[s][n] \notin Copies
  /\ a.pc = "deleted" => a.left = {}

CleanInv == \A s \in Subjects : attempt[s] # Null => CleanFlow(s, attempt[s])

Authorized(candidates, confirmed, t) ==
  IF confirmed = Null THEN candidates[t] = "exact" ELSE t = confirmed

\* A movie has one download in use; while it searches none is, and what failed is what
\* its next attempt pushes again.
MovieFits(r, a) ==
  /\ \A d, e \in DownloadsOf(r) :
       d.state # "retired" /\ e.state # "retired" => d.torrent = e.torrent
  /\ r.stage = "searching" =>
       \A d \in DownloadsOf(r) :
         /\ d.state \in {"failed", "retired"}
         /\ d.state = "failed" => Authorized(r.candidates, r.confirmed, d.torrent)
  /\ a # Null /\ a.pc \in PushPcs =>
       /\ Authorized(a.candidates, a.confirmed, a.torrent)
       /\ \A d \in DownloadsOf(r) : d.state = "failed" => d.torrent = a.torrent

MovieInv ==
  \A s \in Subjects : kind[s] = "movie" /\ ~row[s].pending => MovieFits(row[s], attempt[s])

CompletedInv ==
  \A s \in Subjects : row[s].stage = "completed" /\ kind[s] # "movie" =>
    \A e \in 1 .. row[s].tv.last : LinkedEpisode(row[s], e)

LEMMA SearchedIsOK ==
  ASSUME NEW k, NEW r, NEW a, RowOK(k, r), a.candidates \in Choice!Candidates,
         a.confirmed \in Torrents \cup {Null}
  PROVE  RowOK(k, Searched(r, a))
<1> DEFINE q == Searched(r, a)
<1>1. r \in Rows
  BY DEF RowOK
<1>2. /\ q \in Rows
      /\ q.stage = r.stage /\ q.tv = r.tv /\ q.downloads = r.downloads
      /\ q.links = r.links /\ q.pending = r.pending
  BY <1>1 DEF Searched, Rows, Choice!Candidates
<1> HIDE DEF q
<1>3. DownloadsOf(q) = DownloadsOf(r) /\ \A t : Recorded(q, t) = Recorded(r, t)
  BY <1>2 DEF DownloadsOf, Recorded, Indices
<1>4. RowOK(k, q)
  BY <1>1, <1>2, <1>3 DEF RowOK
<1> QED BY <1>4 DEF q

LEMMA MergedIsOK ==
  ASSUME NEW k, NEW r, NEW update \in AnyDownload, NEW stage, RowOK(k, r), r.stage # "meta",
         update.hash \in Hashes, ~r.pending,
         stage \in {"searching", "downloading", "linking", "completed"}
  PROVE  RowOK(k, WithDownload(r, update, stage))
<1> DEFINE q == WithDownload(r, update, stage)
<1>1. r \in Rows /\ r.downloads \in Seq(AnyDownload)
  BY DEF RowOK, Rows, AnyDownload
<1>2. MergedDownload(r.downloads, update) \in Seq(AnyDownload)
  BY <1>1, MergedIsTyped
<1>3. /\ q \in Rows /\ q.downloads = MergedDownload(r.downloads, update)
      /\ q.stage = stage /\ q.tv = r.tv /\ q.links = r.links /\ q.pending = r.pending
  BY <1>1, <1>2 DEF WithDownload, Rows, AnyDownload
<1> HIDE DEF q
<1>4. Rules!UniqueDownloads(q.downloads)
  BY <1>1, <1>3, MergedStaysUnique DEF RowOK
<1>5. \A d : d \in DownloadsOf(q) <=>
               d = update \/ (d \in DownloadsOf(r) /\ d.torrent # update.torrent)
  BY <1>1, <1>3, MergedSet
<1>6. \A t \in Torrents : Recorded(r, t) # {} => Recorded(q, t) # {}
  BY <1>5 DEF Recorded
<1>7. RowOK(k, q)
  BY <1>1, <1>3, <1>4, <1>5, <1>6 DEF RowOK
<1> QED BY <1>7 DEF q

LEMMA SubjectStep ==
  ASSUME NEW s \in Subjects, StateOK, WorldOK', kind' = kind,
         row' \in [Subjects -> Rows], DOMAIN attempt' = Subjects, SubjectOK(s)',
         \A o \in Subjects \ {s} : row'[o] = row[o] /\ attempt'[o] = attempt[o]
  PROVE  StateOK'
<1>1. \A o \in Subjects \ {s} : SubjectOK(o)'
  BY DEF StateOK, SubjectOK
<1> QED BY <1>1 DEF StateOK

LEMMA SameWorld ==
  ASSUME WorldOK, UNCHANGED world
  PROVE  WorldOK'
BY DEF WorldOK, world

\* A row that no attempt acts upon changes.
LEMMA RowPut ==
  ASSUME NEW s \in Subjects, NEW r, StateOK, UNCHANGED <<kind, world>>,
         row' = [row EXCEPT ![s] = r], RowOK(kind[s], r),
         attempt'[s] = Null, DOMAIN attempt' = Subjects,
         \A o \in Subjects \ {s} : attempt'[o] = attempt[o]
  PROVE  StateOK'
<1>1. WorldOK' /\ kind' = kind
  BY SameWorld DEF StateOK
<1>2. /\ row' \in [Subjects -> Rows] /\ row'[s] = r
      /\ \A o \in Subjects \ {s} : row'[o] = row[o]
  BY DEF StateOK, RowOK
<1>3. SubjectOK(s)'
  BY <1>1, <1>2 DEF SubjectOK, StateOK
<1> QED BY <1>1, <1>2, <1>3, SubjectStep

\* An attempt moves on, and what it acts upon stays.
LEMMA AttemptPut ==
  ASSUME NEW s \in Subjects, StateOK, WorldOK', UNCHANGED <<kind, row>>,
         DOMAIN attempt' = Subjects, \A o \in Subjects \ {s} : attempt'[o] = attempt[o],
         attempt'[s] # Null => AttemptShape(attempt'[s]) /\ AttemptFits(row[s], attempt'[s])
  PROVE  StateOK'
<1>1. SubjectOK(s)'
  BY DEF StateOK, SubjectOK
<1> QED BY <1>1, SubjectStep DEF StateOK

LEMMA StateInit == Init => StateOK
<1> SUFFICES ASSUME Init PROVE StateOK
  OBVIOUS
<1>1. NewRow \in Rows
  BY DEF NewRow, Rows, NoLinks
<1>2. \A s \in Subjects : RowOK(kind[s], NewRow)
  BY <1>1 DEF RowOK, NewRow, NoLinks, DownloadsOf, Indices, Rules!UniqueDownloads
<1>3. WorldOK
  BY TorrentsAssumption, PathsAssumption, FilesAssumption
     DEF WorldOK, Init, Servers, QbTorrents, Files!Occupants
<1>4. row \in [Subjects -> Rows]
  BY <1>1 DEF Init
<1> QED BY <1>2, <1>3, <1>4, KindsAssumption DEF StateOK, SubjectOK, Init

LEMMA SelectedIsTorrent ==
  ASSUME NEW s \in Subjects, StateOK, NEW selection \in Selections(row[s])
  PROVE  /\ selection.candidates \in Choice!Candidates
         /\ selection.confirmed \in Torrents \cup {Null}
         /\ Selected(s, selection) \in Torrents \cup {Null}
<1> DEFINE r == row[s]
<1>1. /\ r \in Rows /\ r.downloads \in Seq(AnyDownload)
      /\ r.candidates \in Choice!Candidates /\ r.confirmed \in Torrents \cup {Null}
  BY DEF StateOK, SubjectOK, RowOK, Rows, AnyDownload, Choice!Candidates
<1>2. \A x, y, z : Choice!Found(x, y, z) \in Choice!Candidates
  BY DEF Choice!Found, Choice!Candidates
<1>3. CurrentDownload(r) # Null => CurrentDownload(r).torrent \in Torrents
  <2> SUFFICES ASSUME CurrentDownload(r) # Null PROVE CurrentDownload(r).torrent \in Torrents
    OBVIOUS
  <2> HIDE DEF r
  <2>1. CurrentDownload(r) \in DownloadsOf(r)
    BY <1>1, CurrentIsRecorded
  <2>2. CurrentDownload(r) \in AnyDownload
    BY <1>1, <2>1, RecordedIsTyped
  <2> QED BY <2>2 DEF AnyDownload
<1>4. \A c \in Choice!Candidates : Choice!AuthorizedSelection(c) \in Torrents \cup {Null}
  <2> SUFFICES ASSUME NEW c \in Choice!Candidates
               PROVE  Choice!Matched(c) \in Torrents \cup {Null}
    BY DEF Choice!AuthorizedSelection
  <2>1. Choice!Present(c) \subseteq Torrents
    BY DEF Choice!Present
  <2>2. Choice!Strongest({t \in Choice!Present(c) : Priority[t] # Null}) \subseteq Torrents
    BY <2>1 DEF Choice!Strongest
  <2> QED BY <2>1, <2>2, FirstOfIsFirst DEF Choice!Matched
<1>5. \A c, confirmed, used, season, episode :
        Choice!TvSelection(c, confirmed, used, season, episode) \in Torrents \cup {Null}
  <2> TAKE c, confirmed, used, season, episode
  <2> DEFINE eligible == Choice!TvEligible(c, confirmed, used, season, episode)
             weight(t) == IF Priority[t] = Null THEN 0 ELSE Priority[t]
             best == {t \in eligible : \A u \in eligible : weight(u) <= weight(t)}
  <2>1. eligible \subseteq Torrents
    BY DEF Choice!TvEligible, Choice!Present
  <2> HIDE DEF eligible
  <2>2. Choice!FirstOf(best) \in Torrents \cup {Null}
    BY <2>1, FirstOfIsFirst
  <2> QED BY <2>1, <2>2 DEF Choice!TvSelection, eligible
<1>6. /\ selection.candidates \in Choice!Candidates
      /\ selection.confirmed \in Torrents \cup {Null}
      /\ selection.selected \in Torrents \cup {Null}
  <2>1. CASE r.confirmed # Null /\ r.confirmed \notin Used(r)
    BY <2>1, <1>1 DEF Selections
  <2>2. CASE ~(r.confirmed # Null /\ r.confirmed \notin Used(r))
    BY <2>2, <1>1, <1>2, <1>3, <1>4 DEF Selections
  <2> QED BY <2>1, <2>2
<1> QED BY <1>5, <1>6 DEF Selected

LEMMA SearchKeepsState ==
  ASSUME NEW s \in Subjects, StateOK, Search(s)
  PROVE  StateOK'
<1>1. PICK selection \in Selections(row[s]) :
        LET t == Selected(s, selection)
            a == [pc |-> "fetch", torrent |-> t, candidates |-> selection.candidates,
                  confirmed |-> selection.confirmed]
        IN  IF t = Null
            THEN /\ row' = [row EXCEPT ![s] = Searched(@, a)]
                 /\ UNCHANGED attempt
            ELSE /\ attempt' = [attempt EXCEPT ![s] = a]
                 /\ UNCHANGED row
  BY DEF Search
<1> DEFINE t == Selected(s, selection)
           a == [pc |-> "fetch", torrent |-> t, candidates |-> selection.candidates,
                 confirmed |-> selection.confirmed]
<1>2. /\ selection.candidates \in Choice!Candidates
      /\ selection.confirmed \in Torrents \cup {Null}
      /\ t \in Torrents \cup {Null}
  BY SelectedIsTorrent
<1>3. /\ attempt[s] = Null /\ row[s].stage = "searching" /\ ~row[s].pending
      /\ UNCHANGED <<kind, world>>
  BY DEF Search, Begin
<1> HIDE DEF t
<1>4. CASE t = Null
  <2>1. row' = [row EXCEPT ![s] = Searched(row[s], a)] /\ UNCHANGED attempt
    BY <1>1, <1>4 DEF t
  <2>2. RowOK(kind[s], Searched(row[s], a))
    BY <1>2, SearchedIsOK DEF StateOK, SubjectOK
  <2> QED BY <1>3, <2>1, <2>2, RowPut DEF StateOK
<1>5. CASE t # Null
  <2>1. attempt' = [attempt EXCEPT ![s] = a] /\ UNCHANGED row
    BY <1>1, <1>5 DEF t
  <2>2. AttemptShape(a)
    BY <1>2, <1>5 DEF AttemptShape, PushPcs, LinkPcs, CleanPcs
  <2>3. AttemptFits(row[s], a)
    BY <1>3 DEF AttemptFits, PushPcs, LinkPcs, CleanPcs
  <2> HIDE DEF a
  <2>4. /\ DOMAIN attempt' = Subjects /\ attempt'[s] = a
        /\ \A o \in Subjects \ {s} : attempt'[o] = attempt[o]
    BY <2>1 DEF StateOK
  <2> QED BY <1>3, <2>1, <2>2, <2>3, <2>4, AttemptPut, SameWorld DEF StateOK
<1> QED BY <1>4, <1>5

LEMMA GivingUpKeepsState ==
  ASSUME NEW s \in Subjects, StateOK, UNCHANGED <<kind, world>>, At(s, "fetch"), GiveUpSearch(s)
  PROVE  StateOK'
<1>1. RowOK(kind[s], Searched(row[s], attempt[s]))
  BY SearchedIsOK DEF StateOK, SubjectOK, At, AttemptShape, PushPcs
<1>2. row' = [row EXCEPT ![s] = Searched(row[s], attempt[s])]
  BY DEF GiveUpSearch
<1>3. /\ attempt'[s] = Null /\ DOMAIN attempt' = Subjects
      /\ \A o \in Subjects \ {s} : attempt'[o] = attempt[o]
  BY DEF GiveUpSearch, StateOK
<1> QED BY <1>1, <1>2, <1>3, RowPut

LEMMA FetchKeepsState ==
  ASSUME NEW s \in Subjects, StateOK, FetchTorrent(s) \/ FetchFails(s)
  PROVE  StateOK'
<1> DEFINE a == attempt[s]
           h == published[a.torrent]
<1>1. UNCHANGED <<kind, world>> /\ At(s, "fetch")
  BY DEF FetchTorrent, FetchFails
<1>2. CASE GiveUpSearch(s)
  BY <1>1, <1>2, GivingUpKeepsState
<1>3. CASE ~GiveUpSearch(s)
  <2>1. ~HashesDisagree(Stored(s, a.torrent), h)
        /\ Continue(s, "tag", [hash |-> h]) /\ UNCHANGED row
    BY <1>3 DEF FetchTorrent, FetchFails
  <2>2. /\ AttemptShape(a) /\ AttemptFits(row[s], a) /\ a.pc = "fetch" /\ "pc" \in DOMAIN a
        /\ RowOK(kind[s], row[s])
    BY <1>1 DEF StateOK, SubjectOK, At, AttemptShape
  <2>3. h \in Hashes
    BY <2>2 DEF StateOK, WorldOK, AttemptShape, PushPcs
  <2>4. \A d \in Recorded(row[s], a.torrent) : d.hash = h
    <3> TAKE d \in Recorded(row[s], a.torrent)
    <3>1. \A e \in Recorded(row[s], a.torrent) : e = d
      BY <2>2 DEF RowOK, Recorded, DownloadsOf, Indices, Rules!UniqueDownloads
    <3>2. Stored(s, a.torrent) = d.hash
      BY <3>1 DEF Stored
    <3>3. d.hash \in Hashes
      BY <2>2 DEF RowOK, Recorded
    <3> QED BY <2>1, <2>3, <3>2, <3>3, NullAssumption DEF HashesDisagree
  <2> HIDE DEF h
  <2>5. /\ DOMAIN attempt' = Subjects
        /\ \A o \in Subjects \ {s} : attempt'[o] = attempt[o]
        /\ DOMAIN attempt'[s] = DOMAIN attempt[s] \cup {"hash"}
        /\ attempt'[s].pc = "tag" /\ attempt'[s].hash = h
        /\ \A x \in DOMAIN attempt[s] \ {"hash", "pc"} : attempt'[s][x] = attempt[s][x]
    BY <2>1, <2>2, ContinueGives DEF StateOK
  <2>6. /\ attempt'[s].torrent = a.torrent /\ attempt'[s].candidates = a.candidates
        /\ attempt'[s].confirmed = a.confirmed
    BY <2>2, <2>5 DEF AttemptShape, PushPcs
  <2>7. AttemptShape(attempt'[s])
    BY <2>2, <2>3, <2>5, <2>6 DEF AttemptShape, PushPcs, LinkPcs, CleanPcs
  <2>8. AttemptFits(row[s], attempt'[s])
    BY <2>2, <2>4, <2>5, <2>6 DEF AttemptFits, PushPcs, LinkPcs, CleanPcs
  <2> QED BY <1>1, <2>1, <2>5, <2>7, <2>8, AttemptPut, SameWorld DEF StateOK
<1> QED BY <1>2, <1>3

\* Between the fetch and the settlement a push only learns what is listed and done.
LEMMA PushMovesOn ==
  ASSUME NEW s \in Subjects, NEW pc \in PushPcs \ {"fetch"}, NEW more, StateOK,
         attempt[s] # Null, attempt[s].pc \in PushPcs \ {"fetch"}, Continue(s, pc, more),
         DOMAIN more \subseteq {"tagged", "pushed"},
         pc = "hash" => "tagged" \in DOMAIN more,
         pc = "settle" => "pushed" \in DOMAIN more /\ more.pushed \in BOOLEAN
  PROVE  /\ DOMAIN attempt' = Subjects
         /\ \A o \in Subjects \ {s} : attempt'[o] = attempt[o]
         /\ attempt'[s].pc = pc
         /\ attempt'[s].torrent = attempt[s].torrent
         /\ attempt'[s].candidates = attempt[s].candidates
         /\ attempt'[s].confirmed = attempt[s].confirmed
         /\ attempt'[s].hash = attempt[s].hash
         /\ \A x \in DOMAIN more : attempt'[s][x] = more[x]
         /\ AttemptShape(attempt'[s]) /\ AttemptFits(row[s], attempt'[s])
<1> DEFINE a == attempt[s]
<1>1. AttemptShape(a) /\ AttemptFits(row[s], a) /\ "pc" \in DOMAIN a
  BY DEF StateOK, SubjectOK, AttemptShape
<1>2. /\ DOMAIN attempt' = Subjects
      /\ \A o \in Subjects \ {s} : attempt'[o] = attempt[o]
      /\ DOMAIN attempt'[s] = DOMAIN a \cup DOMAIN more
      /\ attempt'[s].pc = pc
      /\ \A x \in DOMAIN more : attempt'[s][x] = more[x]
      /\ \A x \in DOMAIN a \ (DOMAIN more \cup {"pc"}) : attempt'[s][x] = a[x]
  BY <1>1, ContinueGives DEF StateOK
<1>3. {"torrent", "candidates", "confirmed", "hash"} \subseteq DOMAIN a
  BY <1>1 DEF AttemptShape
<1>4. /\ attempt'[s].torrent = a.torrent /\ attempt'[s].candidates = a.candidates
      /\ attempt'[s].confirmed = a.confirmed /\ attempt'[s].hash = a.hash
  BY <1>2, <1>3
<1>5. AttemptShape(attempt'[s])
  <2>1. pc = "settle" => "pushed" \in DOMAIN attempt'[s] /\ attempt'[s].pushed \in BOOLEAN
    BY <1>2
  <2>2. pc = "hash" => "tagged" \in DOMAIN attempt'[s]
    BY <1>2
  <2>3. {"pc", "torrent", "candidates", "confirmed", "hash"} \subseteq DOMAIN attempt'[s]
    BY <1>1, <1>2, <1>3
  <2>4. /\ a.torrent \in Torrents /\ a.candidates \in Choice!Candidates
        /\ a.confirmed \in Torrents \cup {Null} /\ a.hash \in Hashes
    BY <1>1 DEF AttemptShape
  <2>5. attempt'[s].pc \in PushPcs \ {"fetch"}
    BY <1>2
  <2> QED BY <1>2, <1>4, <2>1, <2>2, <2>3, <2>4, <2>5
          DEF AttemptShape, PushPcs, LinkPcs, CleanPcs
<1>6. AttemptFits(row[s], attempt'[s])
  BY <1>1, <1>2, <1>4 DEF AttemptFits, PushPcs, LinkPcs, CleanPcs
<1> QED BY <1>2, <1>4, <1>5, <1>6

LEMMA PushKeepsState ==
  ASSUME NEW s \in Subjects, StateOK,
         ListTagged(s) \/ ListHashed(s) \/ AddTorrent(s) \/ VerifyAdded(s) \/ CallFails(s)
  PROVE  StateOK'
<1>1. /\ attempt[s] # Null /\ attempt[s].pc \in PushPcs \ {"fetch"}
      /\ UNCHANGED <<kind, row>>
  BY DEF ListTagged, ListHashed, AddTorrent, VerifyAdded, CallFails, At, PushPcs
<1>2. WorldOK'
  <2>1. CASE UNCHANGED world
    BY <2>1, SameWorld DEF StateOK
  <2>2. CASE AddTorrent(s)
    <3>1. attempt[s].hash \in Hashes /\ attempt[s].torrent \in Torrents
      BY <1>1 DEF StateOK, SubjectOK, AttemptShape
    <3>2. <<attempt[s].hash, StableKey(s, attempt[s].torrent)>> \in Hashes \X EffectKeys
      BY <3>1 DEF EffectKeys, StableKey
    <3>3. importing' \subseteq Hashes \X EffectKeys
      BY <2>2, <3>2 DEF AddTorrent, StateOK, WorldOK
    <3> QED BY <2>2, <3>3 DEF AddTorrent, StateOK, WorldOK
  <2> QED BY <2>1, <2>2 DEF ListTagged, ListHashed, VerifyAdded, CallFails
<1>3. \E pc, more :
        /\ pc \in PushPcs \ {"fetch"}
        /\ Continue(s, pc, more) /\ DOMAIN more \subseteq {"tagged", "pushed"}
        /\ pc = "hash" => "tagged" \in DOMAIN more
        /\ pc = "settle" => "pushed" \in DOMAIN more /\ more.pushed \in BOOLEAN
  <2>1. CASE ListTagged(s)
    <3> DEFINE more == [tagged |-> ListByTag(qb, StableKey(s, attempt[s].torrent))]
    <3>1. DOMAIN more = {"tagged"}
      OBVIOUS
    <3>2. Continue(s, "hash", more)
      BY <2>1 DEF ListTagged
    <3> HIDE DEF more
    <3> QED BY <3>1, <3>2 DEF PushPcs
  <2>2. CASE \E v \in BOOLEAN : Continue(s, "settle", [pushed |-> v])
    <3>1. PICK v \in BOOLEAN : Continue(s, "settle", [pushed |-> v])
      BY <2>2
    <3> DEFINE more == [pushed |-> v]
    <3>2. DOMAIN more = {"pushed"} /\ more.pushed \in BOOLEAN
      OBVIOUS
    <3>3. Continue(s, "settle", more)
      BY <3>1
    <3> HIDE DEF more
    <3> QED BY <3>2, <3>3 DEF PushPcs
  <2>3. CASE Continue(s, "add", <<>>)
    BY <2>3 DEF PushPcs
  <2>4. CASE Continue(s, "verify", <<>>)
    BY <2>4 DEF PushPcs
  <2>5. VerifyAdded(s) => \E v \in BOOLEAN : Continue(s, "settle", [pushed |-> v])
    BY DEF VerifyAdded, Verified
  <2>6. ListHashed(s) => \/ \E v \in BOOLEAN : Continue(s, "settle", [pushed |-> v])
                         \/ Continue(s, "add", <<>>)
    BY DEF ListHashed
  <2>7. AddTorrent(s) => \/ Continue(s, "verify", <<>>)
                         \/ \E v \in BOOLEAN : Continue(s, "settle", [pushed |-> v])
    BY DEF AddTorrent
  <2>8. CallFails(s) => \E v \in BOOLEAN : Continue(s, "settle", [pushed |-> v])
    BY DEF CallFails
  <2> QED BY <2>1, <2>2, <2>3, <2>4, <2>5, <2>6, <2>7, <2>8
<1>4. /\ DOMAIN attempt' = Subjects /\ \A o \in Subjects \ {s} : attempt'[o] = attempt[o]
      /\ AttemptShape(attempt'[s]) /\ AttemptFits(row[s], attempt'[s])
  <2>1. PICK pc, more :
          /\ pc \in PushPcs \ {"fetch"}
          /\ Continue(s, pc, more) /\ DOMAIN more \subseteq {"tagged", "pushed"}
          /\ pc = "hash" => "tagged" \in DOMAIN more
          /\ pc = "settle" => "pushed" \in DOMAIN more /\ more.pushed \in BOOLEAN
    BY <1>3
  <2> QED BY <1>1, <2>1, PushMovesOn
<1> QED BY <1>1, <1>2, <1>4, AttemptPut

LEMMA SettlePushKeepsState ==
  ASSUME NEW s \in Subjects, StateOK, SettlePush(s)
  PROVE  StateOK'
<1> DEFINE a == attempt[s]
           update == Download(a.torrent, a.hash, IF a.pushed THEN "live" ELSE "failed", {})
           stage == IF a.pushed THEN "downloading" ELSE row[s].stage
           q == WithDownload(Searched(row[s], a), update, stage)
<1>1. /\ AttemptShape(a) /\ AttemptFits(row[s], a) /\ a.pc = "settle"
      /\ RowOK(kind[s], row[s])
  BY DEF StateOK, SubjectOK, At, SettlePush
<1>2. /\ a.torrent \in Torrents /\ a.hash \in Hashes /\ a.pushed \in BOOLEAN
      /\ a.candidates \in Choice!Candidates /\ a.confirmed \in Torrents \cup {Null}
  BY <1>1 DEF AttemptShape, PushPcs
<1>3. row[s].stage = "searching" /\ ~row[s].pending /\ row[s] \in Rows
  BY <1>1 DEF AttemptFits, PushPcs, RowOK
<1>4. RowOK(kind[s], Searched(row[s], a))
  BY <1>1, <1>2, SearchedIsOK
<1>5. Searched(row[s], a).stage = "searching" /\ ~Searched(row[s], a).pending
  BY <1>3 DEF Searched, Rows
<1>6. update \in AnyDownload /\ update.hash \in Hashes
  BY <1>2 DEF AnyDownload, Download
<1> HIDE DEF update
<1>7. RowOK(kind[s], q)
  BY <1>3, <1>4, <1>5, <1>6, MergedIsOK
<1>8. row' = [row EXCEPT ![s] = q]
  BY DEF SettlePush, update
<1>9. /\ attempt'[s] = Null /\ DOMAIN attempt' = Subjects
      /\ \A o \in Subjects \ {s} : attempt'[o] = attempt[o]
      /\ UNCHANGED <<kind, world>>
  BY DEF SettlePush, StateOK
<1> QED BY <1>7, <1>8, <1>9, RowPut

LEMMA CurrentFacts ==
  ASSUME NEW s \in Subjects, StateOK, CurrentDownload(row[s]) # Null
  PROVE  LET d == CurrentDownload(row[s]) IN
         /\ d \in DownloadsOf(row[s]) /\ d \in AnyDownload
         /\ d.hash \in Hashes /\ d.state # "retired"
         /\ d.torrent \in Torrents /\ d.files \subseteq Names
<1> DEFINE r == row[s]
           d == CurrentDownload(r)
<1>1. r.downloads \in Seq(AnyDownload) /\ RowOK(kind[s], r)
  BY DEF StateOK, SubjectOK, RowOK, Rows, AnyDownload
<1>2. d # Null
  OBVIOUS
<1> HIDE DEF r
<1>3. d \in DownloadsOf(r) /\ d.state # "retired"
  BY <1>1, <1>2, CurrentIsRecorded
<1>4. d \in AnyDownload
  BY <1>1, <1>3, RecordedIsTyped
<1>5. d.hash \in Hashes
  BY <1>1, <1>3 DEF RowOK
<1>6. d.torrent \in Torrents /\ d.files \subseteq Names
  BY <1>4 DEF AnyDownload
<1> QED BY <1>3, <1>4, <1>5, <1>6 DEF r

LEMMA InspectedIsLive ==
  ASSUME NEW d \in AnyDownload, NEW h \in Hashes
  PROVE  /\ Inspected(d, h) \in AnyDownload /\ Inspected(d, h).hash = h
         /\ Inspected(d, h).torrent = d.torrent /\ Inspected(d, h).state = "live"
         /\ Inspected(d, h).files = FilesOf[h]
BY TorrentsAssumption DEF Inspected, AnyDownload

LEMMA ProgressKeepsState ==
  ASSUME NEW s \in Subjects, StateOK, Progress(s)
  PROVE  StateOK'
<1> DEFINE d == CurrentDownload(row[s])
           seen == Observed(s, d)
           found == WithDownload(row[s], Inspected(d, seen.hash),
                      IF qb[seen.hash].complete THEN "linking" ELSE "downloading")
           gone == WithDownload(row[s], [d EXCEPT !.state = "missing"], row[s].stage)
<1>1. /\ d # Null /\ row[s].stage = "downloading" /\ attempt[s] = Null
      /\ UNCHANGED <<kind, attempt, world>>
  BY DEF Progress, Begin
<1>2. d \in AnyDownload /\ d.hash \in Hashes
  BY <1>1, CurrentFacts
<1>3. seen.decision = "use" => seen.hash = d.hash
  BY <1>2, ObserveFacts DEF Observed
<1>4. RowOK(kind[s], row[s]) /\ ~row[s].pending
  BY <1>1 DEF StateOK, SubjectOK, RowOK
<1>5. seen.decision = "use" => RowOK(kind[s], found)
  <2> SUFFICES ASSUME seen.decision = "use" PROVE RowOK(kind[s], found)
    OBVIOUS
  <2>1. Inspected(d, seen.hash) \in AnyDownload /\ Inspected(d, seen.hash).hash \in Hashes
    BY <1>2, <1>3, InspectedIsLive
  <2> QED BY <1>1, <1>4, <2>1, MergedIsOK
<1>6. RowOK(kind[s], gone)
  <2>1. [d EXCEPT !.state = "missing"] \in AnyDownload
        /\ [d EXCEPT !.state = "missing"].hash \in Hashes
    BY <1>2 DEF AnyDownload
  <2> QED BY <1>1, <1>4, <2>1, MergedIsOK
<1>7. \E r : RowOK(kind[s], r) /\ row' = [row EXCEPT ![s] = r]
  <2>1. CASE seen.decision = "use"
    <3>1. row' = [row EXCEPT ![s] = found]
      BY <2>1 DEF Progress
    <3> QED BY <2>1, <1>5, <3>1
  <2>2. CASE seen.decision = "add"
    <3>1. row' = [row EXCEPT ![s] = gone]
      BY <2>2 DEF Progress
    <3> QED BY <1>6, <3>1
  <2>3. CASE seen.decision \notin {"use", "add"}
    <3>1. row' = [row EXCEPT ![s] = row[s]]
      BY <2>3 DEF Progress
    <3> QED BY <1>4, <3>1
  <2> QED BY <2>1, <2>2, <2>3
<1> QED BY <1>1, <1>7, RowPut DEF StateOK

LEMMA LinkKeepsState ==
  ASSUME NEW s \in Subjects, StateOK, Link(s)
  PROVE  StateOK'
<1> DEFINE d == CurrentDownload(row[s])
           seen == Observed(s, d)
           update == Inspected(d, seen.hash)
           unwanted == [update EXCEPT !.state = "retired"]
           a == [pc |-> "probe", update |-> update]
<1>1. /\ d # Null /\ row[s].stage = "linking" /\ attempt[s] = Null
      /\ UNCHANGED <<kind, world>> /\ seen.decision = "use"
  BY DEF Link, Begin
<1>2. /\ d \in AnyDownload /\ d.hash \in Hashes /\ d \in DownloadsOf(row[s])
      /\ d.state # "retired"
  BY <1>1, CurrentFacts
<1>3. seen.hash = d.hash
  BY <1>1, <1>2, ObserveFacts DEF Observed
<1>4. RowOK(kind[s], row[s]) /\ ~row[s].pending
  BY <1>1 DEF StateOK, SubjectOK, RowOK
<1>5. /\ update \in AnyDownload /\ update.hash = d.hash /\ update.torrent = d.torrent
      /\ update.state = "live"
  BY <1>2, <1>3, InspectedIsLive
<1>6. unwanted \in AnyDownload /\ unwanted.hash \in Hashes
  BY <1>2, <1>5 DEF AnyDownload
<1>7. CASE attempt' = [attempt EXCEPT ![s] = a] /\ UNCHANGED row
  <2> HIDE DEF update
  <2>1. AttemptShape(a)
    BY <1>2, <1>5 DEF AttemptShape, PushPcs, LinkPcs, CleanPcs
  <2>2. AttemptFits(row[s], a)
    BY <1>1, <1>2, <1>5 DEF AttemptFits, Recorded, PushPcs, LinkPcs, CleanPcs
  <2> HIDE DEF a
  <2>3. /\ DOMAIN attempt' = Subjects /\ attempt'[s] = a
        /\ \A o \in Subjects \ {s} : attempt'[o] = attempt[o]
    BY <1>7 DEF StateOK
  <2> QED BY <1>1, <1>7, <2>1, <2>2, <2>3, AttemptPut, SameWorld DEF StateOK
<1>8. CASE row' = [row EXCEPT ![s] = WithDownload(row[s], update, "downloading")]
           /\ UNCHANGED attempt
  <2>1. RowOK(kind[s], WithDownload(row[s], update, "downloading"))
    BY <1>1, <1>2, <1>4, <1>5, MergedIsOK
  <2> QED BY <1>1, <1>8, <2>1, RowPut DEF StateOK
<1>9. CASE row' = [row EXCEPT ![s] = WithDownload(row[s], unwanted, "searching")]
           /\ UNCHANGED attempt
  <2>1. RowOK(kind[s], WithDownload(row[s], unwanted, "searching"))
    BY <1>1, <1>4, <1>6, MergedIsOK
  <2> QED BY <1>1, <1>9, <2>1, RowPut DEF StateOK
<1> QED BY <1>7, <1>8, <1>9 DEF Link

\* What a link attempt knows of the download it links.
LEMMA LinkingFacts ==
  ASSUME NEW s \in Subjects, StateOK, attempt[s] # Null, attempt[s].pc \in LinkPcs
  PROVE  LET a == attempt[s] IN
         /\ {"pc", "update"} \subseteq DOMAIN a
         /\ a.update \in AnyDownload /\ a.update.hash \in Hashes /\ a.update.state = "live"
         /\ a.update.torrent \in Torrents /\ a.update.files \subseteq Names
         /\ RowOK(kind[s], row[s]) /\ row[s].stage = "linking" /\ ~row[s].pending
         /\ \E d \in Recorded(row[s], a.update.torrent) :
              d.hash = a.update.hash /\ d.state # "retired"
<1>1. /\ AttemptShape(attempt[s]) /\ AttemptFits(row[s], attempt[s])
      /\ RowOK(kind[s], row[s])
  BY DEF StateOK, SubjectOK
<1>2. attempt[s].update \in AnyDownload
  BY <1>1 DEF AttemptShape
<1> QED BY <1>1, <1>2 DEF AttemptShape, AttemptFits, RowOK, AnyDownload

LEMMA LinkGivenUpKeepsState ==
  ASSUME NEW s \in Subjects, StateOK, LinkGivenUp(s)
  PROVE  StateOK'
<1> DEFINE q == WithDownload(row[s], attempt[s].update, row[s].stage)
<1>1. /\ attempt[s] # Null /\ attempt[s].pc \in LinkPcs /\ UNCHANGED <<kind, world>>
      /\ DOMAIN attempt' = Subjects /\ attempt'[s] = Null
      /\ \A o \in Subjects \ {s} : attempt'[o] = attempt[o]
  BY DEF LinkGivenUp, At, LinkPcs, StateOK
<1>2. RowOK(kind[s], q)
  BY <1>1, LinkingFacts, MergedIsOK
<1>3. row[s] \in Rows
  BY DEF StateOK, SubjectOK, RowOK
<1>4. q = [row[s] EXCEPT !.downloads = MergedDownload(row[s].downloads, attempt[s].update)]
  BY <1>3 DEF WithDownload, Rows
<1>5. row' = [row EXCEPT ![s] = q]
  BY <1>4 DEF LinkGivenUp
<1> QED BY <1>1, <1>2, <1>5, RowPut

LEMMA ProbeKeepsState ==
  ASSUME NEW s \in Subjects, StateOK, Probe(s)
  PROVE  /\ StateOK' /\ attempt'[s].pc = "link"
         /\ attempt'[s].update = attempt[s].update
         /\ \A n \in attempt[s].update.files :
              attempt'[s].actions[n] =
                Files!ProbedAction(SourceAt(attempt[s].update.hash, n), targets[s][n],
                                   Persisted(row[s], attempt[s].update.torrent, n))
         /\ DOMAIN attempt'[s].actions = attempt[s].update.files
         /\ DOMAIN attempt'[s].outcomes = {}
         /\ \A o \in Subjects \ {s} : attempt'[o] = attempt[o]
<1> DEFINE d == attempt[s].update
           action(n) == Files!ProbedAction(SourceAt(d.hash, n), targets[s][n],
                                           Persisted(row[s], d.torrent, n))
           actions == [n \in d.files |-> action(n)]
           expected == [n \in d.files |-> SourceAt(d.hash, n)]
           outcomes == [n \in {} |-> "pending"]
           more == [actions |-> actions, expected |-> expected, outcomes |-> outcomes]
<1>1. /\ attempt[s] # Null /\ attempt[s].pc \in LinkPcs /\ UNCHANGED <<kind, row, world>>
      /\ Continue(s, "link", more)
  BY DEF Probe, At, LinkPcs
<1>2. /\ DOMAIN actions = d.files /\ DOMAIN outcomes = {}
      /\ \A n \in d.files : actions[n] = action(n)
  OBVIOUS
<1> HIDE DEF actions, expected, outcomes
<1>3. /\ DOMAIN more = {"actions", "expected", "outcomes"}
      /\ more.actions = actions /\ more.expected = expected /\ more.outcomes = outcomes
  OBVIOUS
<1> HIDE DEF more
<1>4. /\ {"pc", "update"} \subseteq DOMAIN attempt[s]
      /\ d \in AnyDownload /\ d.hash \in Hashes /\ d.state = "live"
      /\ row[s].stage = "linking" /\ ~row[s].pending
      /\ \E e \in Recorded(row[s], d.torrent) : e.hash = d.hash /\ e.state # "retired"
  BY <1>1, LinkingFacts
<1>5. /\ DOMAIN attempt' = Subjects
      /\ \A o \in Subjects \ {s} : attempt'[o] = attempt[o]
      /\ DOMAIN attempt'[s] = DOMAIN attempt[s] \cup DOMAIN more
      /\ attempt'[s].pc = "link"
      /\ \A x \in DOMAIN more : attempt'[s][x] = more[x]
      /\ \A x \in DOMAIN attempt[s] \ (DOMAIN more \cup {"pc"}) : attempt'[s][x] = attempt[s][x]
  BY <1>1, <1>3, <1>4, ContinueGives DEF StateOK
<1>6. /\ attempt'[s].update = d /\ attempt'[s].actions = actions
      /\ attempt'[s].outcomes = outcomes
  BY <1>3, <1>4, <1>5
<1>7. {"pc", "update", "actions", "expected", "outcomes"} \subseteq DOMAIN attempt'[s]
  BY <1>3, <1>4, <1>5
<1>8. AttemptShape(attempt'[s])
  BY <1>2, <1>4, <1>5, <1>6, <1>7 DEF AttemptShape, PushPcs, LinkPcs, CleanPcs
<1>9. AttemptFits(row[s], attempt'[s])
  BY <1>4, <1>5, <1>6 DEF AttemptFits, PushPcs, LinkPcs, CleanPcs
<1>10. StateOK'
  BY <1>1, <1>5, <1>8, <1>9, AttemptPut, SameWorld DEF StateOK
<1> QED BY <1>2, <1>5, <1>6, <1>10

\* What the link of one file leaves behind.
LinkedOne(s, n) ==
  LET a == attempt[s]
      source == SourceAt(a.update.hash, n)
      outcome == IF a.actions[n] = "create"
                 THEN Files!LinkedOutcome(a.expected[n], source, targets[s][n])
                 ELSE Files!Untouched(a.actions[n])
  IN  /\ n \in DOMAIN a.actions /\ n \in Names
      /\ attempt'[s].pc = "link" /\ attempt'[s].update = a.update
      /\ attempt'[s].actions = a.actions
      /\ DOMAIN attempt'[s].outcomes = DOMAIN a.outcomes \cup {n}
      /\ \A m \in DOMAIN a.outcomes \ {n} : attempt'[s].outcomes[m] = a.outcomes[m]
      /\ attempt'[s].outcomes[n] = outcome
      /\ targets' = [targets EXCEPT ![s][n] =
                       IF a.actions[n] = "create"
                       THEN Files!LinkedTarget(a.expected[n], source, @) ELSE @]

LEMMA OutcomesAreFinal ==
  /\ \A expected, source, target :
       Files!LinkedOutcome(expected, source, target) \in Files!Outcomes \ {"pending"}
  /\ \A action : Files!Untouched(action) \in Files!Outcomes \ {"pending"}
BY DEF Files!LinkedOutcome, Files!Untouched, Files!Outcomes

LEMMA SourceIsTyped ==
  ASSUME WorldOK, NEW h \in Hashes, NEW n \in Names
  PROVE  SourceAt(h, n) \in Copies \cup {Null}
BY PathsAssumption DEF WorldOK, SourceAt, Copies

LEMMA LinkFileKeepsState ==
  ASSUME NEW s \in Subjects, StateOK, LinkFile(s)
  PROVE  /\ StateOK' /\ \E n : LinkedOne(s, n)
         /\ \A o \in Subjects \ {s} : attempt'[o] = attempt[o]
<1> DEFINE a == attempt[s]
           left == DOMAIN a.actions \ DOMAIN a.outcomes
           n == CHOOSE m \in left : \A o \in left : m <= o
           source == SourceAt(a.update.hash, n)
           outcome == IF a.actions[n] = "create"
                      THEN Files!LinkedOutcome(a.expected[n], source, targets[s][n])
                      ELSE Files!Untouched(a.actions[n])
           outcomes == With(a.outcomes, [m \in {n} |-> outcome])
           more == [outcomes |-> outcomes]
<1>1. /\ attempt[s] # Null /\ attempt[s].pc = "link"
      /\ UNCHANGED <<kind, row, published, qb, importing, doomed, sources, copies, listed, meddling>>
      /\ left # {} /\ Continue(s, "link", more)
      /\ targets' = [targets EXCEPT ![s][n] =
                       IF a.actions[n] = "create"
                       THEN Files!LinkedTarget(a.expected[n], source, @) ELSE @]
  BY DEF LinkFile, At
<1>2. /\ {"pc", "update"} \subseteq DOMAIN a /\ AttemptShape(a)
      /\ a.update \in AnyDownload /\ a.update.hash \in Hashes /\ a.update.state = "live"
      /\ a.update.files \subseteq Names
      /\ row[s].stage = "linking" /\ ~row[s].pending
      /\ \E e \in Recorded(row[s], a.update.torrent) : e.hash = a.update.hash /\ e.state # "retired"
  BY <1>1, LinkingFacts DEF LinkPcs, StateOK, SubjectOK
<1>3. /\ {"actions", "expected", "outcomes"} \subseteq DOMAIN a
      /\ DOMAIN a.actions = a.update.files /\ DOMAIN a.outcomes \subseteq a.update.files
      /\ \A m \in DOMAIN a.outcomes : a.outcomes[m] \in Files!Outcomes \ {"pending"}
  BY <1>1, <1>2 DEF AttemptShape
<1>4. n \in left
  <2>1. left \subseteq Nat /\ left # {}
    BY <1>1, <1>2, <1>3, FilesAssumption
  <2>2. \E m \in left : \A o \in left : m <= o
    BY <2>1, LeastOf
  <2> QED BY <2>2
<1>5. outcome \in Files!Outcomes \ {"pending"}
  BY OutcomesAreFinal
<1>6. n \in Names /\ source \in Copies \cup {Null}
  <2>1. n \in Names
    BY <1>2, <1>3, <1>4
  <2> QED BY <2>1, <1>2, SourceIsTyped DEF StateOK
<1> HIDE DEF left, n, source
<1> HIDE DEF outcome
<1>7. /\ DOMAIN outcomes = DOMAIN a.outcomes \cup {n} /\ outcomes[n] = outcome
      /\ \A m \in DOMAIN a.outcomes \ {n} : outcomes[m] = a.outcomes[m]
  BY DEF With
<1> HIDE DEF outcomes
<1>8. DOMAIN more = {"outcomes"} /\ more.outcomes = outcomes
  OBVIOUS
<1> HIDE DEF more
<1>9. /\ DOMAIN attempt' = Subjects
      /\ \A o \in Subjects \ {s} : attempt'[o] = attempt[o]
      /\ DOMAIN attempt'[s] = DOMAIN a \cup DOMAIN more
      /\ attempt'[s].pc = "link"
      /\ \A x \in DOMAIN more : attempt'[s][x] = more[x]
      /\ \A x \in DOMAIN a \ (DOMAIN more \cup {"pc"}) : attempt'[s][x] = a[x]
  BY <1>1, <1>2, <1>8, ContinueGives DEF StateOK
<1>10. /\ attempt'[s].update = a.update /\ attempt'[s].actions = a.actions
       /\ attempt'[s].outcomes = outcomes
       /\ {"pc", "update", "actions", "expected", "outcomes"} \subseteq DOMAIN attempt'[s]
  BY <1>2, <1>3, <1>8, <1>9
<1>11. \A m \in DOMAIN outcomes : outcomes[m] \in Files!Outcomes \ {"pending"}
  BY <1>3, <1>5, <1>7
<1>12. DOMAIN outcomes \subseteq a.update.files
  BY <1>3, <1>4, <1>7 DEF left
<1>13. AttemptShape(attempt'[s])
  BY <1>2, <1>3, <1>9, <1>10, <1>11, <1>12 DEF AttemptShape, PushPcs, LinkPcs, CleanPcs
<1>14. AttemptFits(row[s], attempt'[s])
  BY <1>2, <1>9, <1>10 DEF AttemptFits, PushPcs, LinkPcs, CleanPcs
<1>15. targets' \in [Subjects -> [Names -> Files!Occupants]]
  <2>1. targets \in [Subjects -> [Names -> Files!Occupants]]
    BY DEF StateOK, WorldOK
  <2>2. Files!LinkedTarget(a.expected[n], source, targets[s][n]) \in Files!Occupants
    BY <1>6, <2>1 DEF Files!LinkedTarget, Files!Occupants
  <2> QED BY <1>1, <1>6, <2>1, <2>2
<1>16. WorldOK'
  BY <1>1, <1>15 DEF StateOK, WorldOK
<1>17. StateOK'
  BY <1>1, <1>9, <1>13, <1>14, <1>16, AttemptPut
<1>18. LinkedOne(s, n)
  BY <1>1, <1>4, <1>6, <1>7, <1>9, <1>10 DEF LinkedOne, left, source, outcome
<1> QED BY <1>9, <1>17, <1>18

\* What a link attempt reports of the row, when every file was tried.
LEMMA LinkReportIsOK ==
  ASSUME NEW s \in Subjects, StateOK, At(s, "link")
  PROVE  LET q == LinkReport(s) IN
         /\ RowOK(kind[s], q) /\ q \in Rows
         /\ q.stage = "linking" /\ q.tv = row[s].tv /\ ~q.pending /\ ~row[s].pending
         /\ q.downloads = MergedDownload(row[s].downloads, attempt[s].update)
         /\ q.links = LinksAfter(row[s], attempt[s].update.torrent, attempt[s].outcomes)
<1> DEFINE a == attempt[s]
           links == LinksAfter(row[s], a.update.torrent, a.outcomes)
           q == LinkReport(s)
<1>1. a # Null /\ a.pc = "link"
  BY DEF At
<1>2. /\ a.update \in AnyDownload /\ a.update.hash \in Hashes /\ a.update.torrent \in Torrents
      /\ a.update.files \subseteq Names
      /\ RowOK(kind[s], row[s]) /\ row[s].stage = "linking" /\ ~row[s].pending
      /\ AttemptShape(a)
  BY <1>1, LinkingFacts DEF LinkPcs, StateOK, SubjectOK
<1>3. /\ row[s] \in Rows /\ row[s].downloads \in Seq(AnyDownload)
      /\ row[s].links \in [Torrents -> [Names -> Files!Outcomes \cup {"none"}]]
  BY <1>2 DEF RowOK, Rows, AnyDownload
<1>4. \A n \in DOMAIN a.outcomes : n \in Names /\ a.outcomes[n] \in Files!Outcomes \ {"pending"}
  BY <1>1, <1>2 DEF AttemptShape
<1>5. /\ links \in [Torrents -> [Names -> Files!Outcomes \cup {"none"}]]
      /\ \A t \in Torrents \ {a.update.torrent} : links[t] = row[s].links[t]
      /\ \A n \in Names : links[a.update.torrent][n] # "pending"
  <2> DEFINE new == [n \in Names |-> IF n \in DOMAIN a.outcomes THEN a.outcomes[n] ELSE "none"]
  <2>1. new \in [Names -> Files!Outcomes \cup {"none"}]
        /\ \A n \in Names : new[n] # "pending"
    BY <1>4
  <2>2. links = [row[s].links EXCEPT ![a.update.torrent] = new]
    BY DEF LinksAfter
  <2> HIDE DEF new, links
  <2> QED BY <1>2, <1>3, <2>1, <2>2
<1>6. MergedDownload(row[s].downloads, a.update) \in Seq(AnyDownload)
  BY <1>2, <1>3, MergedIsTyped
<1>7. q = [row[s] EXCEPT !.downloads = MergedDownload(row[s].downloads, a.update), !.links = links]
  BY DEF LinkReport
<1> HIDE DEF links, q
<1>8. /\ q \in Rows /\ q.downloads = MergedDownload(row[s].downloads, a.update)
      /\ q.links = links /\ q.stage = row[s].stage /\ q.tv = row[s].tv
      /\ q.pending = row[s].pending
  BY <1>3, <1>5, <1>6, <1>7 DEF Rows, AnyDownload
<1>9. Rules!UniqueDownloads(q.downloads)
  BY <1>2, <1>3, <1>8, MergedStaysUnique DEF RowOK
<1>10. \A d : d \in DownloadsOf(q) <=>
               d = a.update \/ (d \in DownloadsOf(row[s]) /\ d.torrent # a.update.torrent)
  BY <1>2, <1>3, <1>8, MergedSet
<1>11. \A t \in Torrents : Recorded(row[s], t) # {} \/ t = a.update.torrent => Recorded(q, t) # {}
  BY <1>10 DEF Recorded
<1>12. RowOK(kind[s], q)
  BY <1>2, <1>5, <1>8, <1>9, <1>10, <1>11 DEF RowOK
<1> QED BY <1>2, <1>8, <1>12 DEF links, q

LEMMA SettleLinkKeepsState ==
  ASSUME NEW s \in Subjects, StateOK, SettleLink(s)
  PROVE  /\ StateOK' /\ \A o \in Subjects \ {s} : attempt'[o] = attempt[o] /\ row'[o] = row[o]
         /\ attempt'[s] = Null
         /\ row'[s].stage \in {"linking", "completed", "searching"}
         /\ row'[s].tv = row[s].tv /\ row'[s].pending = row[s].pending
         /\ row'[s].downloads = MergedDownload(row[s].downloads, attempt[s].update)
         /\ row'[s].links = LinksAfter(row[s], attempt[s].update.torrent, attempt[s].outcomes)
         /\ row'[s].stage = "completed" => CompleteAfter([row'[s] EXCEPT !.stage = row[s].stage])
         /\ row'[s].stage = "searching" => row[s].tv # Null
<1> DEFINE a == attempt[s]
           r == LinkReport(s)
           stage == IF \E n \in DOMAIN a.outcomes : a.outcomes[n] # "linked" THEN "linking"
                    ELSE IF CompleteAfter(r) THEN "completed" ELSE "searching"
           q == [r EXCEPT !.stage = stage]
<1>1. /\ At(s, "link") /\ UNCHANGED <<kind, world>>
      /\ row' = [row EXCEPT ![s] = q]
      /\ DOMAIN attempt' = Subjects /\ attempt'[s] = Null
      /\ \A o \in Subjects \ {s} : attempt'[o] = attempt[o]
  BY DEF SettleLink, EveryFileTried, At, StateOK
<1>2. /\ RowOK(kind[s], r) /\ r \in Rows
      /\ r.stage = "linking" /\ r.tv = row[s].tv /\ ~r.pending /\ ~row[s].pending
      /\ r.downloads = MergedDownload(row[s].downloads, attempt[s].update)
      /\ r.links = LinksAfter(row[s], attempt[s].update.torrent, attempt[s].outcomes)
  BY <1>1, LinkReportIsOK
<1>3. row[s].stage = "linking"
  BY <1>1, LinkingFacts DEF At, LinkPcs
<1>4. stage \in {"linking", "completed", "searching"}
  OBVIOUS
<1>5. /\ stage = "completed" => CompleteAfter(r)
      /\ stage = "searching" => row[s].tv # Null
  BY <1>2 DEF CompleteAfter
<1> HIDE DEF r, stage
<1>6. /\ q \in Rows /\ q.downloads = r.downloads /\ q.links = r.links /\ q.stage = stage
      /\ q.tv = r.tv /\ q.pending = r.pending
  BY <1>2, <1>4 DEF Rows
<1>7. r = [q EXCEPT !.stage = row[s].stage]
  BY <1>2, <1>3, <1>4 DEF Rows
<1> HIDE DEF q
<1>8. DownloadsOf(q) = DownloadsOf(r) /\ \A t : Recorded(q, t) = Recorded(r, t)
  BY <1>6 DEF DownloadsOf, Recorded, Indices
<1>9. RowOK(kind[s], q)
  BY <1>2, <1>4, <1>6, <1>8 DEF RowOK
<1>10. StateOK'
  BY <1>1, <1>9, RowPut
<1>11. row'[s] = q /\ \A o \in Subjects \ {s} : row'[o] = row[o]
  BY <1>1 DEF StateOK
<1>12. q.stage = "completed" => CompleteAfter([q EXCEPT !.stage = row[s].stage])
  BY <1>5, <1>6, <1>7
<1>13. /\ q.stage \in {"linking", "completed", "searching"}
       /\ q.tv = row[s].tv /\ q.pending = row[s].pending
       /\ q.downloads = MergedDownload(row[s].downloads, attempt[s].update)
       /\ q.links = LinksAfter(row[s], attempt[s].update.torrent, attempt[s].outcomes)
       /\ q.stage = "searching" => row[s].tv # Null
  <2>1. q.stage \in {"linking", "completed", "searching"}
    BY <1>4, <1>6
  <2>2. q.tv = row[s].tv /\ q.pending = row[s].pending
    <3>1. r.pending \in BOOLEAN /\ row[s].pending \in BOOLEAN
      BY <1>2 DEF StateOK, Rows
    <3> QED BY <1>2, <1>6, <3>1
  <2>3. q.downloads = MergedDownload(row[s].downloads, attempt[s].update)
    BY <1>2, <1>6
  <2>4. q.links = LinksAfter(row[s], attempt[s].update.torrent, attempt[s].outcomes)
    BY <1>2, <1>6
  <2>5. q.stage = "searching" => row[s].tv # Null
    BY <1>5, <1>6
  <2> QED BY <2>1, <2>2, <2>3, <2>4, <2>5
<1> QED BY <1>1, <1>10, <1>11, <1>12, <1>13

\* A list of downloads where each is still the one of its torrent and hash.
Kept(before, after) ==
  /\ Len(after) = Len(before)
  /\ \A i \in 1 .. Len(before) :
       after[i].torrent = before[i].torrent /\ after[i].hash = before[i].hash

LEMMA MappedIsKept ==
  ASSUME NEW downloads \in Seq(AnyDownload), NEW mapped,
         mapped = [i \in DOMAIN downloads |-> mapped[i]],
         \A i \in 1 .. Len(downloads) : /\ mapped[i] \in AnyDownload
                                        /\ mapped[i].torrent = downloads[i].torrent
                                        /\ mapped[i].hash = downloads[i].hash
  PROVE  mapped \in Seq(AnyDownload) /\ Kept(downloads, mapped)
<1>1. DOMAIN downloads = 1 .. Len(downloads) /\ Len(downloads) \in Nat
  OBVIOUS
<1>2. mapped \in [1 .. Len(downloads) -> AnyDownload]
  BY <1>1
<1>3. mapped \in Seq(AnyDownload) /\ Len(mapped) = Len(downloads)
  BY <1>1, <1>2
<1> QED BY <1>3 DEF Kept

LEMMA KeptIsOK ==
  ASSUME NEW k, NEW r, NEW q \in Rows, RowOK(k, r), r.stage # "meta", q.stage # "meta",
         q.downloads \in Seq(AnyDownload), Kept(r.downloads, q.downloads),
         q.links = r.links, q.tv = r.tv, q.pending => q.stage = "searching"
  PROVE  RowOK(k, q)
<1>1. r.downloads \in Seq(AnyDownload)
  BY DEF RowOK, Rows, AnyDownload
<1>2. Indices(q) = Indices(r) /\ Indices(r) = 1 .. Len(r.downloads)
  BY DEF Kept, Indices
<1>3. \A i \in Indices(r) : /\ q.downloads[i].torrent = r.downloads[i].torrent
                            /\ q.downloads[i].hash = r.downloads[i].hash
  BY <1>2 DEF Kept
<1>4. Rules!UniqueDownloads(q.downloads)
  BY <1>2, <1>3 DEF RowOK, Rules!UniqueDownloads, Indices
<1>5. \A d \in DownloadsOf(q) : d.hash \in Hashes
  BY <1>2, <1>3 DEF RowOK, DownloadsOf
<1>6. \A t \in Torrents : Recorded(r, t) # {} => Recorded(q, t) # {}
  BY <1>2, <1>3 DEF Recorded, DownloadsOf
<1> QED BY <1>4, <1>5, <1>6 DEF RowOK

LEMMA PreparedFacts ==
  ASSUME NEW s \in Subjects, NEW d \in AnyDownload, d.hash \in Hashes
  PROVE  /\ FoundHash(s, d) \in {d.hash, Null}
         /\ MayDelete(s, d) => ListByTag(qb, StableKey(s, d.torrent)) \subseteq {FoundHash(s, d)}
         /\ MayDelete(s, d) /\ FoundHash(s, d) # Null => qb[d.hash].tags # {}
         /\ Prepared(s, d) \in AnyDownload
         /\ Prepared(s, d).torrent = d.torrent /\ Prepared(s, d).hash = d.hash
<1> DEFINE seen == Observed(s, d)
<1>1. /\ seen.decision \in {"use", "add", "conflict"}
      /\ seen.decision = "use" => /\ seen.hash = d.hash
                                  /\ ListByTag(qb, StableKey(s, d.torrent)) \subseteq {d.hash}
      /\ seen.decision = "add" => ListByTag(qb, StableKey(s, d.torrent)) = {}
  BY ObserveFacts DEF Observed
<1> HIDE DEF seen
<1>2. FoundHash(s, d) = IF seen.decision = "use" THEN d.hash ELSE Null
  BY <1>1 DEF FoundHash, seen
<1>3. MayDelete(s, d) => /\ seen.decision # "conflict"
                         /\ seen.decision = "use" => Owned(qb[d.hash], StableKey(s, d.torrent))
  BY <1>1 DEF MayDelete, seen
<1>4. MayDelete(s, d) => ListByTag(qb, StableKey(s, d.torrent)) \subseteq {FoundHash(s, d)}
  BY <1>1, <1>2, <1>3
<1>5. MayDelete(s, d) /\ FoundHash(s, d) # Null => qb[d.hash].tags # {}
  BY <1>2, <1>3 DEF Owned
<1>6. /\ Prepared(s, d) \in AnyDownload
      /\ Prepared(s, d).torrent = d.torrent /\ Prepared(s, d).hash = d.hash
  BY <1>2, InspectedIsLive DEF Prepared
<1> QED BY <1>2, <1>4, <1>5, <1>6

\* The row as a replacement finds its downloads in qBittorrent.
LEMMA ReadiedIsOK ==
  ASSUME NEW s \in Subjects, StateOK, row[s].pending
  PROVE  RowOK(kind[s], Readied(s, row[s]))
<1> DEFINE r == row[s]
           q == Readied(s, r)
           mapped == [i \in DOMAIN r.downloads |-> Prepared(s, r.downloads[i])]
<1>1. RowOK(kind[s], r) /\ r \in Rows /\ r.downloads \in Seq(AnyDownload) /\ r.stage = "searching"
  BY DEF StateOK, SubjectOK, RowOK, Rows, AnyDownload
<1> HIDE DEF r
<1>2. \A d \in DownloadsOf(r) : d \in AnyDownload /\ d.hash \in Hashes
  BY <1>1, RecordedIsTyped DEF RowOK
<1>3. \A i \in 1 .. Len(r.downloads) :
        r.downloads[i] \in AnyDownload /\ r.downloads[i].hash \in Hashes
  BY <1>2 DEF DownloadsOf, Indices
<1>4. \A i \in 1 .. Len(r.downloads) : mapped[i] = Prepared(s, r.downloads[i])
  BY <1>1
<1>5. mapped = [i \in DOMAIN r.downloads |-> mapped[i]]
  OBVIOUS
<1>6. mapped = [i \in DOMAIN r.downloads |-> Prepared(s, r.downloads[i])]
  OBVIOUS
<1> HIDE DEF mapped
<1>7. mapped \in Seq(AnyDownload) /\ Kept(r.downloads, mapped)
  <2>1. \A i \in 1 .. Len(r.downloads) : /\ mapped[i] \in AnyDownload
                                         /\ mapped[i].torrent = r.downloads[i].torrent
                                         /\ mapped[i].hash = r.downloads[i].hash
    BY <1>3, <1>4, PreparedFacts
  <2> QED BY <1>1, <1>5, <2>1, MappedIsKept
<1>8. /\ q \in Rows /\ q.downloads = mapped /\ q.links = r.links /\ q.tv = r.tv
      /\ q.stage = r.stage
  BY <1>1, <1>6, <1>7 DEF Readied, Rows, AnyDownload
<1> HIDE DEF q
<1>9. RowOK(kind[s], q)
  BY <1>1, <1>7, <1>8, KeptIsOK
<1> QED BY <1>9 DEF q, r

LEMMA ReplaceKeepsState ==
  ASSUME NEW s \in Subjects, StateOK, Replace(s)
  PROVE  StateOK'
<1> DEFINE r == row[s]
           found == {FoundHash(s, d) : d \in DownloadsOf(r)} \ {Null}
           a == [pc |-> "unlink", found |-> found]
<1>1. /\ attempt[s] = Null /\ r.stage = "searching" /\ r.pending
      /\ UNCHANGED <<kind, world>>
      /\ \/ attempt' = [attempt EXCEPT ![s] = a] /\ UNCHANGED row
         \/ row' = [row EXCEPT ![s] = Readied(s, r)] /\ UNCHANGED attempt
  BY DEF Replace, Begin
<1>2. RowOK(kind[s], r) /\ r \in Rows /\ r.downloads \in Seq(AnyDownload)
  BY DEF StateOK, SubjectOK, RowOK, Rows, AnyDownload
<1> HIDE DEF r
<1>3. \A d \in DownloadsOf(r) : d \in AnyDownload /\ d.hash \in Hashes
  BY <1>2, RecordedIsTyped DEF RowOK
<1>4. found \subseteq Hashes
  BY <1>3, PreparedFacts
<1> HIDE DEF found
<1>5. CASE attempt' = [attempt EXCEPT ![s] = a] /\ UNCHANGED row
  <2>1. AttemptShape(a)
    BY <1>4 DEF AttemptShape, PushPcs, LinkPcs, CleanPcs
  <2>2. AttemptFits(row[s], a)
    BY <1>1 DEF r, AttemptFits, PushPcs, LinkPcs, CleanPcs
  <2> HIDE DEF a
  <2>3. /\ DOMAIN attempt' = Subjects /\ attempt'[s] = a
        /\ \A o \in Subjects \ {s} : attempt'[o] = attempt[o]
    BY <1>5 DEF StateOK
  <2> QED BY <1>1, <1>5, <2>1, <2>2, <2>3, AttemptPut, SameWorld DEF StateOK
<1>6. CASE row' = [row EXCEPT ![s] = Readied(s, r)] /\ UNCHANGED attempt
  <2> DEFINE q == Readied(s, r)
  <2>1. RowOK(kind[s], q)
    BY <1>1, ReadiedIsOK DEF r
  <2>2. row' = [row EXCEPT ![s] = q]
    BY <1>6
  <2> HIDE DEF q
  <2> QED BY <1>1, <1>6, <2>1, <2>2, RowPut DEF StateOK
<1> QED BY <1>1, <1>5, <1>6

\* What a cleanup knows.
LEMMA CleaningFacts ==
  ASSUME NEW s \in Subjects, StateOK, attempt[s] # Null, attempt[s].pc \in CleanPcs
  PROVE  LET a == attempt[s] IN
         /\ {"pc", "found"} \subseteq DOMAIN a /\ a.found \subseteq Hashes
         /\ a.pc \in {"remove", "deleted"} => "left" \in DOMAIN a /\ a.left \subseteq Names
         /\ a.pc = "deleted" => "doing" \in DOMAIN a /\ a.doing \in a.found
         /\ RowOK(kind[s], row[s]) /\ row[s].stage = "searching" /\ row[s].pending
         /\ row[s].downloads \in Seq(AnyDownload)
<1>1. /\ AttemptShape(attempt[s]) /\ AttemptFits(row[s], attempt[s])
      /\ RowOK(kind[s], row[s])
  BY DEF StateOK, SubjectOK
<1> QED BY <1>1 DEF AttemptShape, AttemptFits, RowOK, Rows, AnyDownload

\* A cleanup moves on: it still knows what it found, except what it has come to know.
LEMMA CleanMovesOn ==
  ASSUME NEW s \in Subjects, NEW pc \in {"remove", "deleted"}, NEW more, StateOK,
         attempt[s] # Null, attempt[s].pc \in CleanPcs, Continue(s, pc, more),
         DOMAIN more \subseteq {"found", "left", "doing"},
         "found" \in DOMAIN more => more.found \subseteq Hashes,
         IF "left" \in DOMAIN more THEN more.left \subseteq Names ELSE attempt[s].pc # "unlink",
         pc = "deleted" => /\ "doing" \in DOMAIN more /\ more.doing \in attempt[s].found
                           /\ "found" \notin DOMAIN more
  PROVE  /\ DOMAIN attempt' = Subjects
         /\ \A o \in Subjects \ {s} : attempt'[o] = attempt[o]
         /\ attempt'[s].pc = pc
         /\ attempt'[s].found = IF "found" \in DOMAIN more THEN more.found ELSE attempt[s].found
         /\ attempt'[s].left = IF "left" \in DOMAIN more THEN more.left ELSE attempt[s].left
         /\ "doing" \in DOMAIN more => attempt'[s].doing = more.doing
         /\ AttemptShape(attempt'[s]) /\ AttemptFits(row[s], attempt'[s])
<1> DEFINE a == attempt[s]
<1>1. /\ {"pc", "found"} \subseteq DOMAIN a /\ a.found \subseteq Hashes
      /\ a.pc \in {"remove", "deleted"} => "left" \in DOMAIN a /\ a.left \subseteq Names
      /\ row[s].stage = "searching" /\ row[s].pending
  BY CleaningFacts
<1>2. /\ DOMAIN attempt' = Subjects
      /\ \A o \in Subjects \ {s} : attempt'[o] = attempt[o]
      /\ DOMAIN attempt'[s] = DOMAIN a \cup DOMAIN more
      /\ attempt'[s].pc = pc
      /\ \A x \in DOMAIN more : attempt'[s][x] = more[x]
      /\ \A x \in DOMAIN a \ (DOMAIN more \cup {"pc"}) : attempt'[s][x] = a[x]
  BY <1>1, ContinueGives DEF StateOK
<1>3. /\ {"pc", "found"} \subseteq DOMAIN attempt'[s]
      /\ attempt'[s].found = IF "found" \in DOMAIN more THEN more.found ELSE a.found
  BY <1>1, <1>2
<1>4. /\ "left" \in DOMAIN attempt'[s]
      /\ attempt'[s].left = IF "left" \in DOMAIN more THEN more.left ELSE a.left
      /\ attempt'[s].left \subseteq Names
  <2>1. CASE "left" \in DOMAIN more
    BY <1>2, <2>1
  <2>2. CASE "left" \notin DOMAIN more
    <3>1. a.pc \in {"remove", "deleted"}
      BY <2>2 DEF CleanPcs
    <3> QED BY <1>1, <1>2, <2>2, <3>1
  <2> QED BY <2>1, <2>2
<1>5. pc = "deleted" => "doing" \in DOMAIN attempt'[s] /\ attempt'[s].doing \in attempt'[s].found
  BY <1>2, <1>3
<1>6. attempt'[s].found \subseteq Hashes
  BY <1>1, <1>3
<1>7. AttemptShape(attempt'[s])
  BY <1>2, <1>3, <1>4, <1>5, <1>6 DEF AttemptShape, PushPcs, LinkPcs, CleanPcs
<1>8. AttemptFits(row[s], attempt'[s])
  BY <1>1, <1>2 DEF AttemptFits, PushPcs, LinkPcs, CleanPcs
<1>9. "doing" \in DOMAIN more => attempt'[s].doing = more.doing
  BY <1>2
<1> QED BY <1>2, <1>3, <1>4, <1>7, <1>8, <1>9

LEMMA AttemptDropped ==
  ASSUME NEW s \in Subjects, StateOK, UNCHANGED <<kind, row, world>>,
         attempt' = [attempt EXCEPT ![s] = Null]
  PROVE  StateOK'
<1>1. /\ DOMAIN attempt' = Subjects /\ attempt'[s] = Null
      /\ \A o \in Subjects \ {s} : attempt'[o] = attempt[o]
  BY DEF StateOK
<1> QED BY <1>1, AttemptPut, SameWorld DEF StateOK

LEMMA VerifyLinksKeepsState ==
  ASSUME NEW s \in Subjects, StateOK, VerifyLinks(s)
  PROVE  /\ StateOK' /\ \A o \in Subjects \ {s} : attempt'[o] = attempt[o]
         /\ attempt'[s] # Null =>
              /\ attempt'[s].pc = "remove" /\ attempt'[s].found = attempt[s].found
              /\ attempt'[s].left = {file[2] : file \in JournaledLinks(row[s])}
              /\ \A file \in JournaledLinks(row[s]) :
                   Files!CleanupAllowed(SourceAt(file[1].hash, file[2]), targets[s][file[2]],
                                        row[s].links[file[1].torrent][file[2]])
<1> DEFINE names == {file[2] : file \in JournaledLinks(row[s])}
           more == [left |-> names]
           allowed == \A file \in JournaledLinks(row[s]) :
                        Files!CleanupAllowed(SourceAt(file[1].hash, file[2]),
                          targets[s][file[2]], row[s].links[file[1].torrent][file[2]])
<1>1. /\ attempt[s] # Null /\ attempt[s].pc = "unlink" /\ UNCHANGED <<kind, row, world>>
      /\ IF allowed THEN Continue(s, "remove", more)
         ELSE attempt' = [attempt EXCEPT ![s] = Null]
  BY DEF VerifyLinks, At
<1>2. names \subseteq Names
  BY DEF JournaledLinks, Journaled
<1> HIDE DEF names, allowed
<1>3. DOMAIN more = {"left"} /\ more.left = names
  OBVIOUS
<1> HIDE DEF more
<1>4. CASE allowed
  <2>1. /\ DOMAIN attempt' = Subjects /\ attempt'[s].pc = "remove"
        /\ attempt'[s].found = attempt[s].found /\ attempt'[s].left = names
        /\ \A o \in Subjects \ {s} : attempt'[o] = attempt[o]
        /\ AttemptShape(attempt'[s]) /\ AttemptFits(row[s], attempt'[s])
    BY <1>1, <1>2, <1>3, <1>4, CleanMovesOn DEF CleanPcs
  <2>2. StateOK'
    BY <1>1, <2>1, AttemptPut, SameWorld DEF StateOK
  <2> QED BY <1>4, <2>1, <2>2 DEF names, allowed
<1>5. CASE ~allowed
  <2>1. attempt' = [attempt EXCEPT ![s] = Null]
    BY <1>1, <1>5
  <2>2. StateOK'
    BY <1>1, <2>1, AttemptDropped
  <2> QED BY <2>1, <2>2 DEF StateOK
<1> QED BY <1>4, <1>5

LEMMA RemoveLinkKeepsState ==
  ASSUME NEW s \in Subjects, StateOK, RemoveLink(s)
  PROVE  /\ StateOK' /\ \A o \in Subjects \ {s} : attempt'[o] = attempt[o]
         /\ attempt'[s].pc = "remove" /\ attempt'[s].found = attempt[s].found
         /\ \E n \in attempt[s].left \cap Names :
              /\ attempt'[s].left = attempt[s].left \ {n}
              /\ targets' = [targets EXCEPT ![s][n] = Null]
<1> DEFINE left == attempt[s].left
           n == CHOOSE m \in left : \A o \in left : m <= o
           more == [left |-> left \ {n}]
<1>1. /\ attempt[s] # Null /\ attempt[s].pc = "remove" /\ left # {}
      /\ UNCHANGED <<kind, row, published, qb, importing, doomed, sources, copies, listed, meddling>>
      /\ targets' = [targets EXCEPT ![s][n] = Null]
      /\ Continue(s, "remove", more)
  BY DEF RemoveLink, At
<1>2. left \subseteq Names
  BY <1>1, CleaningFacts DEF CleanPcs
<1>3. n \in left
  <2>1. \E m \in left : \A o \in left : m <= o
    BY <1>1, <1>2, LeastOf, FilesAssumption
  <2> QED BY <2>1
<1> HIDE DEF n
<1>4. DOMAIN more = {"left"} /\ more.left = left \ {n}
  OBVIOUS
<1> HIDE DEF more
<1>5. /\ DOMAIN attempt' = Subjects /\ attempt'[s].pc = "remove"
      /\ attempt'[s].found = attempt[s].found /\ attempt'[s].left = left \ {n}
      /\ \A o \in Subjects \ {s} : attempt'[o] = attempt[o]
      /\ AttemptShape(attempt'[s]) /\ AttemptFits(row[s], attempt'[s])
  <2>1. more.left \subseteq Names
    BY <1>2, <1>4
  <2> QED BY <1>1, <1>4, <2>1, CleanMovesOn DEF CleanPcs
<1>6. targets' \in [Subjects -> [Names -> Files!Occupants]]
  <2>1. targets \in [Subjects -> [Names -> Files!Occupants]] /\ n \in Names
    BY <1>2, <1>3 DEF StateOK, WorldOK
  <2> QED BY <1>1, <2>1 DEF Files!Occupants
<1>7. WorldOK'
  BY <1>1, <1>6 DEF StateOK, WorldOK
<1>8. StateOK'
  BY <1>1, <1>5, <1>7, AttemptPut
<1> QED BY <1>1, <1>2, <1>3, <1>5, <1>8

LEMMA DeleteTorrentKeepsState ==
  ASSUME NEW s \in Subjects, StateOK, DeleteTorrent(s)
  PROVE  /\ StateOK' /\ \A o \in Subjects \ {s} : attempt'[o] = attempt[o]
         /\ attempt'[s].pc = "deleted" /\ attempt'[s].found = attempt[s].found
         /\ attempt'[s].left = attempt[s].left
<1>1. PICK h \in attempt[s].found :
        /\ doomed' = doomed \cup {g \in {h} : qb[g] # Null}
        /\ Continue(s, "deleted", [doing |-> h])
  BY DEF DeleteTorrent
<1> DEFINE more == [doing |-> h]
<1>2. /\ attempt[s] # Null /\ attempt[s].pc = "remove"
      /\ UNCHANGED <<kind, row, published, qb, importing, sources, copies, targets, listed, meddling>>
  BY DEF DeleteTorrent, At
<1>3. h \in Hashes
  BY <1>1, <1>2, CleaningFacts DEF CleanPcs
<1>4. DOMAIN more = {"doing"} /\ more.doing = h /\ Continue(s, "deleted", more)
  BY <1>1
<1> HIDE DEF more
<1>5. /\ DOMAIN attempt' = Subjects /\ attempt'[s].pc = "deleted"
      /\ attempt'[s].found = attempt[s].found /\ attempt'[s].left = attempt[s].left
      /\ \A o \in Subjects \ {s} : attempt'[o] = attempt[o]
      /\ AttemptShape(attempt'[s]) /\ AttemptFits(row[s], attempt'[s])
  BY <1>1, <1>2, <1>4, CleanMovesOn DEF CleanPcs
<1>6. WorldOK'
  BY <1>1, <1>2, <1>3 DEF StateOK, WorldOK
<1>7. StateOK'
  BY <1>2, <1>5, <1>6, AttemptPut
<1> QED BY <1>5, <1>7

LEMMA TorrentGoneKeepsState ==
  ASSUME NEW s \in Subjects, StateOK, TorrentGone(s)
  PROVE  /\ StateOK' /\ \A o \in Subjects \ {s} : attempt'[o] = attempt[o]
         /\ attempt'[s] # Null =>
              /\ attempt'[s].pc = "remove" /\ attempt'[s].left = attempt[s].left
              /\ qb[attempt[s].doing] = Null
              /\ attempt'[s].found = attempt[s].found \ {attempt[s].doing}
<1> DEFINE found == attempt[s].found \ {attempt[s].doing}
           more == [found |-> found]
<1>1. /\ attempt[s] # Null /\ attempt[s].pc = "deleted" /\ UNCHANGED <<kind, row, world>>
      /\ IF qb[attempt[s].doing] = Null THEN Continue(s, "remove", more)
         ELSE attempt' = [attempt EXCEPT ![s] = Null]
  BY DEF TorrentGone, At
<1>2. found \subseteq Hashes
  BY <1>1, CleaningFacts DEF CleanPcs
<1>3. DOMAIN more = {"found"} /\ more.found = found
  OBVIOUS
<1> HIDE DEF more, found
<1>4. CASE qb[attempt[s].doing] = Null
  <2>1. /\ DOMAIN attempt' = Subjects /\ attempt'[s].pc = "remove"
        /\ attempt'[s].found = found /\ attempt'[s].left = attempt[s].left
        /\ \A o \in Subjects \ {s} : attempt'[o] = attempt[o]
        /\ AttemptShape(attempt'[s]) /\ AttemptFits(row[s], attempt'[s])
    BY <1>1, <1>2, <1>3, <1>4, CleanMovesOn DEF CleanPcs
  <2>2. StateOK'
    BY <1>1, <2>1, AttemptPut, SameWorld DEF StateOK
  <2> QED BY <1>4, <2>1, <2>2 DEF found
<1>5. CASE qb[attempt[s].doing] # Null
  <2>1. attempt' = [attempt EXCEPT ![s] = Null]
    BY <1>1, <1>5
  <2>2. StateOK'
    BY <1>1, <2>1, AttemptDropped
  <2> QED BY <2>1, <2>2 DEF StateOK
<1> QED BY <1>4, <1>5

LEMMA SettleReplacementKeepsState ==
  ASSUME NEW s \in Subjects, StateOK, SettleReplacement(s)
  PROVE  StateOK'
<1> DEFINE r == IF NothingLeft(row[s]) THEN Cleaned(row[s]) ELSE row[s]
<1>1. /\ attempt[s] # Null /\ attempt[s].pc \in CleanPcs /\ UNCHANGED <<kind, world>>
      /\ row' = [row EXCEPT ![s] = r]
      /\ DOMAIN attempt' = Subjects /\ attempt'[s] = Null
      /\ \A o \in Subjects \ {s} : attempt'[o] = attempt[o]
  BY DEF SettleReplacement, At, CleanPcs, StateOK
<1>2. RowOK(kind[s], row[s]) /\ row[s].stage = "searching" /\ row[s] \in Rows
  BY <1>1, CleaningFacts DEF RowOK
<1>3. RowOK(kind[s], Cleaned(row[s]))
  <2> DEFINE q == Cleaned(row[s])
  <2>1. /\ q \in Rows /\ q.downloads = <<>> /\ q.links = NoLinks /\ q.pending = FALSE
        /\ q.stage = "searching" /\ q.tv = row[s].tv
    <3>1. NoLinks \in [Torrents -> [Names -> Files!Outcomes \cup {"none"}]]
      BY DEF NoLinks
    <3>2. <<>> \in Seq(AnyDownload)
      OBVIOUS
    <3> QED BY <1>2, <3>1, <3>2 DEF Cleaned, Rows, AnyDownload
  <2> HIDE DEF q
  <2>2. DownloadsOf(q) = {} /\ Rules!UniqueDownloads(q.downloads)
    BY <2>1 DEF DownloadsOf, Indices, Rules!UniqueDownloads
  <2>3. RowOK(kind[s], q)
    BY <1>2, <2>1, <2>2 DEF RowOK, NoLinks
  <2> QED BY <2>3 DEF q
<1> QED BY <1>1, <1>2, <1>3, RowPut

\* What is loaded of a series has episodes; its season may be the zeroth.
LEMMA DetailIsTyped ==
  ASSUME NEW tv \in Details
  PROVE  tv # Null /\ tv \in [season: Nat, last: Nat] /\ tv.last > 0
<1>1. PICK count \in DoubanCounts, listing \in DoubanSeasons, inTitle \in TitleSeasons,
           elsewhere \in TitleSeasons, seasons \in TmdbAnswers :
        tv = Detail(count, listing, inTitle, elsewhere, seasons)
  BY DEF Details
<1>2. /\ count \in Nat /\ inTitle \in Nat \cup {Null} /\ elsewhere \in Nat \cup {Null}
      /\ listing \subseteq [own: BOOLEAN, number: Nat \cup {Null}]
      /\ IsFiniteSet(seasons) /\ seasons \subseteq [number: Nat, count: Nat]
  BY DetailsAssumption
<1> DEFINE douban == Series!FromDouban(count, listing, inTitle)
           resolved == Series!ResolvedSeason(listing, inTitle)
           requested == Series!OrElse(inTitle, elsewhere)
           season == Series!TmdbSeason(seasons, requested)
<1>3. tv # Null
  BY DEF Details
<1>4. tv = douban \/ tv = Series!FromTmdb(seasons, requested)
  BY <1>1, <1>3 DEF Detail, Series!LoadedDetail
<1>5. resolved \in Nat
  <2> DEFINE own == {x.number : x \in {y \in listing : y.own /\ y.number # Null}}
  <2>1. own \subseteq Nat
    BY <1>2
  <2>2. resolved = IF own # {} THEN CHOOSE n \in own : TRUE ELSE Series!OrElse(inTitle, 1)
    BY DEF Series!ResolvedSeason
  <2> HIDE DEF own, resolved
  <2>3. CASE own # {}
    BY <2>1, <2>2, <2>3
  <2>4. CASE own = {}
    BY <1>2, <2>2, <2>4 DEF Series!OrElse
  <2> QED BY <2>3, <2>4
<1>6. CASE tv = douban
  <2>1. count > 0 /\ tv = [season |-> resolved, last |-> count]
    BY <1>2, <1>3, <1>6 DEF Series!FromDouban, Series!TvDetail
  <2> HIDE DEF douban, resolved
  <2>2. tv.season = resolved /\ tv.last = count /\ tv \in [season: Nat, last: Nat]
    BY <1>2, <1>5, <2>1, SMT
  <2> QED BY <1>3, <2>1, <2>2
<1>7. CASE tv = Series!FromTmdb(seasons, requested)
  <2>1. /\ season # Null /\ season.number # 0 /\ season.count # 0
        /\ tv = [season |-> season.number, last |-> season.count]
    BY <1>3, <1>7 DEF Series!FromTmdb, Series!TvDetail
  <2>2. season \in seasons
    <3> DEFINE asked == {x \in seasons : x.number = requested}
               regular == {x \in seasons : x.number > 0 /\ x.count > 0}
    <3>1. season = IF asked # {} THEN CHOOSE x \in asked : TRUE
                   ELSE IF regular # {}
                   THEN CHOOSE x \in regular : \A y \in regular : y.number <= x.number
                   ELSE Null
      BY DEF Series!TmdbSeason
    <3>2. asked \subseteq seasons /\ regular \subseteq seasons /\ IsFiniteSet(regular)
      BY <1>2, FS_Subset
    <3> DEFINE number == [x \in regular |-> x.number]
    <3>3. \A x \in regular : number[x] \in Nat /\ number[x] = x.number
      BY <1>2
    <3> HIDE DEF number, regular, asked, season
    <3>4. CASE asked # {}
      BY <3>1, <3>2, <3>4
    <3>5. CASE asked = {}
      <4>1. regular # {} /\ season = CHOOSE x \in regular : \A y \in regular : y.number <= x.number
        BY <2>1, <3>1, <3>5
      <4>2. PICK x \in regular : \A y \in regular : number[y] <= number[x]
        BY <3>2, <3>3, <4>1, GreatestOfFinite
      <4>3. season \in regular
        BY <3>3, <4>1, <4>2
      <4> QED BY <3>2, <4>3
    <3> QED BY <3>4, <3>5
  <2>3. season.number \in Nat /\ season.count \in Nat
    BY <1>2, <2>2
  <2> HIDE DEF season
  <2>4. tv.season = season.number /\ tv.last = season.count /\ tv \in [season: Nat, last: Nat]
    BY <2>1, <2>3, SMT
  <2> QED BY <1>3, <2>1, <2>3, <2>4
<1> QED BY <1>4, <1>6, <1>7

\* The row of a series whose metadata is there.
LEMMA LoadedIsOK ==
  ASSUME NEW s \in Subjects, StateOK, row[s].stage = "meta", kind[s] # "movie", NEW tv \in Details
  PROVE  LET q == Loaded(row[s], tv) IN
         /\ q \in Rows /\ q.downloads = <<>> /\ q.links = row[s].links /\ q.tv = tv
         /\ q.stage = "searching"
         /\ \A t \in Torrents, n \in Names : q.links[t][n] = "none"
         /\ tv.season > 0 => RowOK(kind[s], q)
<1> DEFINE r == row[s]
           q == Loaded(r, tv)
<1>1. RowOK(kind[s], r) /\ r \in Rows
  BY DEF StateOK, SubjectOK, RowOK
<1>2. r.downloads = <<>> /\ r.tv = Null /\ ~r.pending
  BY <1>1 DEF RowOK
<1>3. tv # Null /\ tv \in [season: Nat, last: Nat] /\ tv.last > 0
  BY DetailIsTyped
<1>4. /\ q \in Rows /\ q.downloads = r.downloads /\ q.links = r.links /\ q.pending = r.pending
      /\ q.stage = "searching" /\ q.tv = tv
  BY <1>1, <1>3 DEF Loaded, Rows
<1> HIDE DEF q
<1>5. DownloadsOf(q) = DownloadsOf(r) /\ \A t : Recorded(q, t) = Recorded(r, t)
  BY <1>4 DEF DownloadsOf, Recorded, Indices
<1>6. DownloadsOf(r) = {}
  BY <1>2 DEF DownloadsOf, Indices
<1>7. \A t \in Torrents, n \in Names : r.links[t][n] = "none"
  BY <1>1, <1>6 DEF RowOK, Recorded
<1>8. tv.season > 0 => RowOK(kind[s], q)
  BY <1>1, <1>2, <1>3, <1>4, <1>5 DEF RowOK, Rules!TvValid
<1> QED BY <1>2, <1>4, <1>7, <1>8 DEF q

LEMMA LoadMetaKeepsState ==
  ASSUME NEW s \in Subjects, StateOK, LoadMeta(s)
  PROVE  StateOK'
<1> DEFINE r == row[s]
<1>1. /\ attempt[s] = Null /\ r.stage = "meta" /\ UNCHANGED <<kind, attempt, world>>
      /\ RowOK(kind[s], r) /\ r \in Rows
  BY DEF LoadMeta, Begin, StateOK, SubjectOK, RowOK
<1>2. CASE kind[s] = "movie"
  <2> DEFINE q == [r EXCEPT !.stage = "searching"]
  <2>1. /\ q \in Rows /\ q.downloads = r.downloads /\ q.links = r.links /\ q.pending = r.pending
        /\ q.stage = "searching" /\ q.tv = r.tv
    BY <1>1 DEF Rows
  <2>2. row' = [row EXCEPT ![s] = q]
    BY <1>2 DEF LoadMeta
  <2> HIDE DEF q
  <2>3. DownloadsOf(q) = DownloadsOf(r) /\ \A t : Recorded(q, t) = Recorded(r, t)
    BY <2>1 DEF DownloadsOf, Recorded, Indices
  <2>4. RowOK(kind[s], q)
    BY <1>1, <1>2, <2>1, <2>3 DEF RowOK
  <2> QED BY <1>1, <2>2, <2>4, RowPut DEF StateOK
<1>3. CASE kind[s] # "movie"
  <2>1. PICK tv \in Details : row' = [row EXCEPT ![s] = Loaded(r, tv)]
    BY <1>3 DEF LoadMeta
  <2> DEFINE q == Loaded(r, tv)
  <2>2. /\ q.tv = tv /\ tv # Null /\ tv \in [season: Nat, last: Nat]
        /\ tv.season > 0 => RowOK(kind[s], q)
    BY <1>1, <1>3, LoadedIsOK, DetailIsTyped
  <2> HIDE DEF q
  <2>3. row'[s] = q /\ Accepted(q)
    BY <2>1 DEF LoadMeta, StateOK, q
  <2>4. tv.season > 0
    BY <2>2, <2>3 DEF Accepted, Rules!PayloadValid, Rules!TvValid
  <2>5. RowOK(kind[s], q) /\ row' = [row EXCEPT ![s] = q]
    BY <2>1, <2>2, <2>4 DEF q
  <2> QED BY <1>1, <2>5, RowPut DEF StateOK
<1> QED BY <1>2, <1>3

LEMMA CommandKeepsState ==
  ASSUME NEW s \in Subjects, NEW q \in Rows, StateOK, attempt[s] = Null,
         UNCHANGED <<kind, attempt, world>>, row' = [row EXCEPT ![s] = q],
         q.downloads = row[s].downloads, q.links = row[s].links, q.tv = row[s].tv,
         q.stage = "meta" => row[s].stage = "meta", q.pending => q.stage = "searching",
         q.stage # "meta" /\ kind[s] # "movie" => row[s].tv # Null
  PROVE  StateOK'
<1>1. DownloadsOf(q) = DownloadsOf(row[s]) /\ \A t : Recorded(q, t) = Recorded(row[s], t)
  BY DEF DownloadsOf, Recorded, Indices
<1>2. RowOK(kind[s], q)
  BY <1>1 DEF RowOK, StateOK, SubjectOK
<1> QED BY <1>2, RowPut DEF StateOK

LEMMA CommandsKeepState ==
  ASSUME NEW s \in Subjects, StateOK, Commands(s)
  PROVE  StateOK'
<1> DEFINE r == row[s]
<1>0. RowOK(kind[s], r) /\ r \in Rows /\ r.downloads \in Seq(AnyDownload)
  BY DEF StateOK, SubjectOK, RowOK, Rows, AnyDownload
<1>1. CASE LoadMeta(s)
  BY <1>1, LoadMetaKeepsState
<1>2. CASE \E t \in Torrents : AddManual(s, t)
  <2>1. PICK t \in Torrents : AddManual(s, t)
    BY <1>2
  <2> DEFINE q == [r EXCEPT !.candidates[t] = "keyword"]
  <2>2. /\ q \in Rows /\ q.downloads = r.downloads /\ q.links = r.links /\ q.tv = r.tv
        /\ q.stage = r.stage /\ q.pending = r.pending
    BY <1>0 DEF Rows
  <2>3. /\ row' = [row EXCEPT ![s] = q] /\ attempt[s] = Null
        /\ UNCHANGED <<kind, attempt, world>>
    BY <2>1 DEF AddManual, StateOK
  <2> HIDE DEF q
  <2> QED BY <1>0, <2>2, <2>3, CommandKeepsState DEF RowOK
<1>3. CASE \E t \in Torrents, replace \in BOOLEAN : Confirm(s, t, replace)
  <2>1. PICK t \in Torrents, replace \in BOOLEAN : Confirm(s, t, replace)
    BY <1>3
  <2> DEFINE q == [r EXCEPT !.stage = "searching", !.confirmed = t,
                            !.pending = replace, !.prepared = FALSE]
  <2>2. /\ q \in Rows /\ q.downloads = r.downloads /\ q.links = r.links /\ q.tv = r.tv
        /\ q.stage = "searching"
    BY <1>0 DEF Rows
  <2>3. /\ row' = [row EXCEPT ![s] = q] /\ attempt[s] = Null
        /\ UNCHANGED <<kind, attempt, world>>
    BY <2>1 DEF Confirm, StateOK
  <2>4. kind[s] = "movie" \/ r.tv # Null
    <3>1. kind[s] \in {"movie", "tv"}
      BY DEF StateOK, SubjectOK
    <3>2. kind[s] = "tv" => r.tv # Null
      BY <2>1, Zenon DEF Confirm
    <3> QED BY <3>1, <3>2
  <2> HIDE DEF q
  <2> QED BY <1>0, <2>2, <2>3, <2>4, CommandKeepsState
<1>4. CASE Restart(s)
  <2> DEFINE q == Restarted(r)
             retired == [i \in DOMAIN r.downloads |-> [r.downloads[i] EXCEPT !.state = "retired"]]
  <2>1. \A i \in 1 .. Len(r.downloads) : /\ retired[i] \in AnyDownload
                                         /\ retired[i].torrent = r.downloads[i].torrent
                                         /\ retired[i].hash = r.downloads[i].hash
    <3> TAKE i \in 1 .. Len(r.downloads)
    <3>1. r.downloads[i] \in AnyDownload /\ i \in DOMAIN r.downloads
      BY <1>0
    <3> DEFINE d == r.downloads[i]
    <3>2. retired[i] = [d EXCEPT !.state = "retired"]
      BY <3>1
    <3> HIDE DEF retired, d
    <3>3. [d EXCEPT !.state = "retired"] \in AnyDownload
          /\ [d EXCEPT !.state = "retired"].torrent = d.torrent
          /\ [d EXCEPT !.state = "retired"].hash = d.hash
      BY <3>1 DEF d, AnyDownload
    <3> QED BY <3>2, <3>3 DEF d
  <2>2. retired = [i \in DOMAIN r.downloads |-> retired[i]]
    OBVIOUS
  <2>3. retired \in Seq(AnyDownload) /\ Kept(r.downloads, retired)
    <3> HIDE DEF retired
    <3> QED BY <1>0, <2>1, <2>2, MappedIsKept
  <2>4. q.downloads = retired
    BY <1>0 DEF Restarted, Rows
  <2> HIDE DEF retired
  <2>5. /\ q \in Rows /\ q.links = r.links /\ q.tv = r.tv
        /\ q.stage = "searching" /\ q.pending = r.pending
    BY <1>0, <2>3, <2>4 DEF Restarted, Rows, AnyDownload
  <2>6. /\ r.stage # "meta" /\ attempt[s] = Null /\ UNCHANGED <<kind, attempt, world>>
        /\ row' = [row EXCEPT ![s] = q]
    BY <1>4 DEF Restart
  <2> HIDE DEF q
  <2>7. RowOK(kind[s], q)
    BY <1>0, <2>3, <2>4, <2>5, <2>6, KeptIsOK
  <2> QED BY <2>6, <2>7, RowPut DEF StateOK
<1> QED BY <1>1, <1>2, <1>3, <1>4 DEF Commands

\* qBittorrent notes how far it is with a torrent.
LEMMA MarkedIsServer ==
  ASSUME NEW h \in Hashes, NEW value \in BOOLEAN, WorldOK, qb[h] # Null,
         qb' = [qb EXCEPT ![h].complete = value]
  PROVE  qb' \in Servers
<1>1. qb \in Servers /\ qb[h] \in QbTorrents
  BY DEF WorldOK, Servers
<1>2. [qb[h] EXCEPT !.complete = value] \in QbTorrents
  BY <1>1 DEF QbTorrents
<1>3. qb' = [qb EXCEPT ![h] = [qb[h] EXCEPT !.complete = value]]
  OBVIOUS
<1> QED BY <1>1, <1>2, <1>3 DEF Servers

\* A torrent comes to be listed, and its files come to exist.
LEMMA ComingKeepsTypes ==
  ASSUME NEW h \in Hashes, NEW tags \in SUBSET EffectKeys, WorldOK, Comes(h, tags)
  PROVE  /\ qb' \in Servers /\ copies' \in 1 .. MaxCopies /\ listed' \subseteq Hashes
         /\ sources' \in [Hashes -> [Names -> 0 .. MaxCopies]]
<1>1. [tags |-> tags, complete |-> FALSE] \in QbTorrents
  BY DEF QbTorrents
<1>2. qb' \in Servers
  BY <1>1 DEF Comes, WorldOK, Servers
<1>3. copies' \in 1 .. MaxCopies /\ copies' = copies + 1
  BY PathsAssumption DEF WorldOK, Comes
<1>4. [n \in Names |-> IF n \in FilesOf[h] /\ sources[h][n] = 0 THEN copies + 1 ELSE sources[h][n]]
        \in [Names -> 0 .. MaxCopies]
  BY <1>3, PathsAssumption DEF WorldOK
<1>5. sources' \in [Hashes -> [Names -> 0 .. MaxCopies]]
  BY <1>4 DEF WorldOK, Comes
<1>6. listed' \subseteq Hashes
  BY DEF WorldOK, Comes
<1> QED BY <1>2, <1>3, <1>5, <1>6

LEMMA WorldKeepsState ==
  ASSUME StateOK, World
  PROVE  /\ StateOK' /\ UNCHANGED <<kind, row>>
         /\ \A s \in Subjects : attempt'[s] \in {attempt[s], Null}
<1>1. WorldOK
  BY DEF StateOK
<1>2. CASE AttemptsLost
  <2>1. /\ \A s \in Subjects : attempt'[s] \in {attempt[s], Null}
        /\ DOMAIN attempt' = Subjects /\ UNCHANGED <<kind, row, world>>
    BY <1>2 DEF AttemptsLost
  <2>2. WorldOK'
    BY <1>1, <2>1, SameWorld
  <2> QED BY <2>1, <2>2 DEF StateOK, SubjectOK
<1>3. CASE World /\ ~AttemptsLost
  <2>1. UNCHANGED <<kind, row, attempt>>
    BY <1>3 DEF World, QbLists, QbCompletes, QbForgets, QbErases, Republish, UserRemovesTorrent,
                UserAddsTorrent, UserRechecks, UserFillsTarget
  <2>2. ASSUME QbLists PROVE WorldOK'
    <3>1. PICK h \in Hashes, key \in EffectKeys :
            /\ importing' = importing \ {<<h, key>>}
            /\ IF qb[h] # Null THEN UNCHANGED <<qb, sources, copies, listed>> ELSE Comes(h, {key})
            /\ UNCHANGED <<published, doomed, targets>>
      BY <2>2 DEF QbLists
    <3>2. importing' \subseteq Hashes \X EffectKeys
      BY <1>1, <3>1 DEF WorldOK
    <3>3. CASE qb[h] # Null
      BY <1>1, <3>1, <3>2, <3>3 DEF WorldOK
    <3>4. CASE qb[h] = Null
      BY <1>1, <3>1, <3>2, <3>4, ComingKeepsTypes DEF WorldOK
    <3> QED BY <3>3, <3>4
  <2>3. ASSUME QbCompletes PROVE WorldOK'
    <3>1. PICK h \in Hashes : qb[h] # Null /\ qb' = [qb EXCEPT ![h].complete = TRUE]
      BY <2>3 DEF QbCompletes
    <3>2. qb' \in Servers
      BY <1>1, <3>1, MarkedIsServer
    <3> QED BY <1>1, <2>3, <3>2 DEF QbCompletes, WorldOK
  <2>4. ASSUME QbForgets PROVE WorldOK'
    <3>1. qb' \in Servers
      BY <1>1, <2>4 DEF QbForgets, WorldOK, Servers
    <3> QED BY <1>1, <2>4, <3>1 DEF QbForgets, WorldOK
  <2>5. ASSUME QbErases PROVE WorldOK'
    <3>1. doomed' \subseteq Hashes /\ sources' \in [Hashes -> [Names -> 0 .. MaxCopies]]
      BY <1>1, <2>5, PathsAssumption DEF QbErases, WorldOK
    <3> QED BY <1>1, <2>5, <3>1 DEF QbErases, WorldOK
  <2>6. ASSUME Republish PROVE WorldOK'
    <3>1. published' \in [Torrents -> Hashes]
      BY <1>1, <2>6 DEF Republish, WorldOK
    <3> QED BY <1>1, <2>6, <3>1 DEF Republish, WorldOK
  <2>7. ASSUME UserRemovesTorrent PROVE WorldOK'
    <3>1. qb' \in Servers
      BY <1>1, <2>7 DEF UserRemovesTorrent, WorldOK, Servers
    <3>2. sources' \in [Hashes -> [Names -> 0 .. MaxCopies]]
      BY <1>1, <2>7, PathsAssumption DEF UserRemovesTorrent, WorldOK
    <3> QED BY <1>1, <2>7, <3>1, <3>2 DEF UserRemovesTorrent, WorldOK
  <2>8. ASSUME UserAddsTorrent PROVE WorldOK'
    <3>1. PICK h \in UsersOwn \ doomed : Comes(h, {})
      BY <2>8 DEF UserAddsTorrent
    <3>2. h \in Hashes /\ UNCHANGED <<published, importing, doomed, targets>>
      BY <2>8, TorrentsAssumption DEF UserAddsTorrent
    <3> QED BY <1>1, <3>1, <3>2, ComingKeepsTypes DEF WorldOK
  <2>9. ASSUME UserRechecks PROVE WorldOK'
    <3>1. PICK h \in Hashes : qb[h] # Null /\ qb' = [qb EXCEPT ![h].complete = FALSE]
      BY <2>9 DEF UserRechecks
    <3>2. qb' \in Servers
      BY <1>1, <3>1, MarkedIsServer
    <3> QED BY <1>1, <2>9, <3>2 DEF UserRechecks, WorldOK
  <2>10. ASSUME UserFillsTarget PROVE WorldOK'
    <3>1. targets' \in [Subjects -> [Names -> Files!Occupants]]
      BY <1>1, <2>10 DEF UserFillsTarget, WorldOK, Files!Occupants
    <3> QED BY <1>1, <2>10, <3>1 DEF UserFillsTarget, WorldOK
  <2>11. WorldOK'
    BY <1>3, <2>2, <2>3, <2>4, <2>5, <2>6, <2>7, <2>8, <2>9, <2>10 DEF World
  <2> QED BY <2>1, <2>11 DEF StateOK, SubjectOK
<1> QED BY <1>2, <1>3

LEMMA StateStep == StateOK /\ [Next]_vars => StateOK'
<1> SUFFICES ASSUME StateOK, [Next]_vars PROVE StateOK'
  OBVIOUS
<1>1. CASE UNCHANGED vars
  <2>1. UNCHANGED <<kind, row, attempt, world>>
    BY <1>1 DEF vars, world
  <2>2. WorldOK'
    BY <2>1, SameWorld DEF StateOK
  <2> QED BY <2>1, <2>2 DEF StateOK, SubjectOK
<1>2. CASE World
  BY <1>2, WorldKeepsState
<1>3. CASE \E s \in Subjects : Pushing(s)
  <2>1. PICK s \in Subjects : Pushing(s)
    BY <1>3
  <2> QED BY <2>1, SearchKeepsState, FetchKeepsState, PushKeepsState, SettlePushKeepsState
          DEF Pushing
<1>4. CASE \E s \in Subjects : Linking(s)
  <2>1. PICK s \in Subjects : Linking(s)
    BY <1>4
  <2> QED BY <2>1, ProgressKeepsState, LinkKeepsState, LinkGivenUpKeepsState, ProbeKeepsState,
             LinkFileKeepsState, SettleLinkKeepsState DEF Linking
<1>5. CASE \E s \in Subjects : Replacing(s)
  <2>1. PICK s \in Subjects : Replacing(s)
    BY <1>5
  <2> QED BY <2>1, ReplaceKeepsState, VerifyLinksKeepsState, RemoveLinkKeepsState,
             DeleteTorrentKeepsState, TorrentGoneKeepsState, SettleReplacementKeepsState
          DEF Replacing
<1>6. CASE \E s \in Subjects : Commands(s)
  BY <1>6, CommandsKeepState
<1> QED BY <1>1, <1>2, <1>3, <1>4, <1>5, <1>6 DEF Next

\* Whatever answers come late, get lost or come twice, and whenever the process dies:
\* the rows, qBittorrent's listings, the sources and the paths in the library are of the
\* kinds the code takes them for.
THEOREM EffectsAreTyped == Spec => []TypeOK
<1>1. StateOK => TypeOK
  BY DEF StateOK, WorldOK, TypeOK
<1> QED BY <1>1, StateInit, StateStep, PTL DEF Spec

-----------------------------------------------------------------------------
(* What the steps make of a row.                                            *)

\* A row learns of a download, or what became of one; what was linked stays as it was.
Learns(r, q, update) ==
  /\ q.downloads = MergedDownload(r.downloads, update)
  /\ q.links = r.links /\ q.tv = r.tv /\ q.pending = r.pending

LEMMA LearnsFrom ==
  ASSUME NEW r \in Rows, NEW update, NEW stage
  PROVE  LET q == WithDownload(r, update, stage) IN
         /\ Learns(r, q, update) /\ q.stage = stage
         /\ q.candidates = r.candidates /\ q.confirmed = r.confirmed
<1> DEFINE merged == MergedDownload(r.downloads, update)
           q == WithDownload(r, update, stage)
<1>1. q = [r EXCEPT !.downloads = merged, !.stage = stage]
  BY DEF WithDownload
<1> HIDE DEF merged, q
<1>2. /\ q.downloads = merged /\ q.stage = stage /\ q.links = r.links /\ q.tv = r.tv
      /\ q.pending = r.pending /\ q.candidates = r.candidates /\ q.confirmed = r.confirmed
  BY <1>1 DEF Rows
<1> QED BY <1>2 DEF Learns, q, merged

LEMMA SettlePushChanges ==
  ASSUME NEW s \in Subjects, StateOK, SettlePush(s)
  PROVE  \E q, update :
           /\ row' = [row EXCEPT ![s] = q] /\ Learns(row[s], q, update)
           /\ update \in AnyDownload /\ update.torrent = attempt[s].torrent
           /\ update.hash = attempt[s].hash /\ update.files = {}
           /\ update.state = IF attempt[s].pushed THEN "live" ELSE "failed"
           /\ q.stage = IF attempt[s].pushed THEN "downloading" ELSE "searching"
           /\ q.candidates = attempt[s].candidates /\ q.confirmed = attempt[s].confirmed
<1> DEFINE a == attempt[s]
           update == Download(a.torrent, a.hash, IF a.pushed THEN "live" ELSE "failed", {})
           stage == IF a.pushed THEN "downloading" ELSE row[s].stage
           base == Searched(row[s], a)
           q == WithDownload(base, update, stage)
<1>1. AttemptShape(a) /\ AttemptFits(row[s], a) /\ a.pc = "settle" /\ row[s] \in Rows
  BY DEF StateOK, SubjectOK, At, SettlePush
<1>2. /\ a.torrent \in Torrents /\ a.hash \in Hashes /\ a.pushed \in BOOLEAN
      /\ a.candidates \in Choice!Candidates /\ a.confirmed \in Torrents \cup {Null}
  BY <1>1 DEF AttemptShape, PushPcs
<1>3. row[s].stage = "searching"
  BY <1>1 DEF AttemptFits, PushPcs
<1>4. /\ base \in Rows /\ base.downloads = row[s].downloads /\ base.links = row[s].links
      /\ base.tv = row[s].tv /\ base.pending = row[s].pending
      /\ base.candidates = a.candidates /\ base.confirmed = a.confirmed
  BY <1>1, <1>2 DEF Searched, Rows, Choice!Candidates
<1>5. /\ update \in AnyDownload /\ update.torrent = a.torrent /\ update.hash = a.hash
      /\ update.files = {}
      /\ update.state = IF a.pushed THEN "live" ELSE "failed"
  BY <1>2 DEF AnyDownload, Download
<1>6. row' = [row EXCEPT ![s] = q]
  BY DEF SettlePush
<1> HIDE DEF update, base
<1>7. /\ Learns(base, q, update) /\ q.stage = stage
      /\ q.candidates = base.candidates /\ q.confirmed = base.confirmed
  BY <1>4, LearnsFrom
<1>8. Learns(row[s], q, update)
  BY <1>4, <1>7 DEF Learns
<1> HIDE DEF q
<1> QED BY <1>3, <1>4, <1>5, <1>6, <1>7, <1>8

LEMMA ProgressChanges ==
  ASSUME NEW s \in Subjects, StateOK, Progress(s), row' # row
  PROVE  \E q, update : LET d == CurrentDownload(row[s]) IN
           /\ row' = [row EXCEPT ![s] = q] /\ Learns(row[s], q, update)
           /\ update \in AnyDownload /\ update.torrent = d.torrent /\ update.hash = d.hash
           /\ \/ update.state = "live" /\ qb[d.hash] # Null
              \/ update.state = "missing"
           /\ q.stage \in {"linking", "downloading"}
<1> DEFINE d == CurrentDownload(row[s])
           seen == Observed(s, d)
           found == IF qb[seen.hash].complete THEN "linking" ELSE "downloading"
           gone == [d EXCEPT !.state = "missing"]
<1>1. d # Null /\ row[s].stage = "downloading"
  BY DEF Progress
<1>2. d \in AnyDownload /\ d.hash \in Hashes
  BY <1>1, CurrentFacts
<1>3. seen.decision = "use" => seen.hash = d.hash /\ qb[d.hash] # Null
  BY <1>2, ObserveFacts DEF Observed
<1>4. row[s] \in Rows /\ row \in [Subjects -> Rows]
  BY DEF StateOK
<1>5. CASE seen.decision = "use"
  <2> DEFINE update == Inspected(d, seen.hash)
             q == WithDownload(row[s], update, found)
  <2>1. /\ update \in AnyDownload /\ update.hash = d.hash /\ update.torrent = d.torrent
        /\ update.state = "live"
    BY <1>2, <1>3, <1>5, InspectedIsLive
  <2>2. row' = [row EXCEPT ![s] = q]
    BY <1>5 DEF Progress
  <2> HIDE DEF update
  <2>3. Learns(row[s], q, update) /\ q.stage = found
    BY <1>4, LearnsFrom
  <2>4. q.stage \in {"linking", "downloading"}
    BY <2>3
  <2> HIDE DEF q
  <2> QED BY <1>3, <1>5, <2>1, <2>2, <2>3, <2>4
<1>6. CASE seen.decision = "add"
  <2> DEFINE q == WithDownload(row[s], gone, row[s].stage)
  <2>1. /\ gone \in AnyDownload /\ gone.hash = d.hash /\ gone.torrent = d.torrent
        /\ gone.state = "missing"
    BY <1>2 DEF AnyDownload
  <2>2. row' = [row EXCEPT ![s] = q]
    BY <1>6 DEF Progress
  <2> HIDE DEF gone
  <2>3. Learns(row[s], q, gone) /\ q.stage = row[s].stage
    BY <1>4, LearnsFrom
  <2> HIDE DEF q
  <2> QED BY <1>1, <2>1, <2>2, <2>3
<1>7. CASE seen.decision \notin {"use", "add"}
  <2>1. row' = [row EXCEPT ![s] = row[s]]
    BY <1>7 DEF Progress
  <2> QED BY <1>4, <2>1
<1> QED BY <1>5, <1>6, <1>7

LEMMA LinkChanges ==
  ASSUME NEW s \in Subjects, StateOK, Link(s)
  PROVE  \E update : LET d == CurrentDownload(row[s]) IN
           /\ update \in AnyDownload /\ update.torrent = d.torrent /\ update.hash = d.hash
           /\ qb[d.hash] # Null
           /\ \/ /\ attempt' = [attempt EXCEPT ![s] = [pc |-> "probe", update |-> update]]
                 /\ UNCHANGED row
              \/ /\ UNCHANGED attempt
                 /\ \E q : /\ row' = [row EXCEPT ![s] = q] /\ Learns(row[s], q, update)
                           /\ \/ q.stage = "downloading" /\ update.state = "live"
                              \/ /\ q.stage = "searching" /\ update.state = "retired"
                                 /\ row[s].tv # Null
<1> DEFINE d == CurrentDownload(row[s])
           seen == Observed(s, d)
           update == Inspected(d, seen.hash)
           unwanted == [update EXCEPT !.state = "retired"]
<1>1. d # Null /\ seen.decision = "use" /\ row[s] \in Rows
  BY DEF Link, StateOK
<1>2. d \in AnyDownload /\ d.hash \in Hashes
  BY <1>1, CurrentFacts
<1>3. seen.hash = d.hash /\ qb[d.hash] # Null
  BY <1>1, <1>2, ObserveFacts DEF Observed
<1>4. /\ update \in AnyDownload /\ update.hash = d.hash /\ update.torrent = d.torrent
      /\ update.state = "live"
  BY <1>2, <1>3, InspectedIsLive
<1>5. \/ /\ attempt' = [attempt EXCEPT ![s] = [pc |-> "probe", update |-> update]]
         /\ UNCHANGED row
      \/ row' = [row EXCEPT ![s] = WithDownload(row[s], update, "downloading")] /\ UNCHANGED attempt
      \/ /\ row' = [row EXCEPT ![s] = WithDownload(row[s], unwanted, "searching")]
         /\ UNCHANGED attempt /\ row[s].tv # Null
  BY DEF Link, NoEpisodeWanted
<1> HIDE DEF update
<1>6. /\ unwanted \in AnyDownload /\ unwanted.hash = d.hash /\ unwanted.torrent = d.torrent
      /\ unwanted.state = "retired"
  BY <1>4 DEF AnyDownload
<1> HIDE DEF unwanted, d
<1>7. CASE attempt' = [attempt EXCEPT ![s] = [pc |-> "probe", update |-> update]] /\ UNCHANGED row
  BY <1>3, <1>4, <1>7 DEF d
<1>8. CASE row' = [row EXCEPT ![s] = WithDownload(row[s], update, "downloading")]
           /\ UNCHANGED attempt
  <2> DEFINE q == WithDownload(row[s], update, "downloading")
  <2>1. Learns(row[s], q, update) /\ q.stage = "downloading"
    BY <1>1, LearnsFrom
  <2> HIDE DEF q
  <2>2. row' = [row EXCEPT ![s] = q]
    BY <1>8 DEF q
  <2> QED BY <1>3, <1>4, <1>8, <2>1, <2>2 DEF d
<1>9. CASE row' = [row EXCEPT ![s] = WithDownload(row[s], unwanted, "searching")]
           /\ UNCHANGED attempt /\ row[s].tv # Null
  <2> DEFINE q == WithDownload(row[s], unwanted, "searching")
  <2>1. Learns(row[s], q, unwanted) /\ q.stage = "searching"
    BY <1>1, LearnsFrom
  <2> HIDE DEF q
  <2>2. row' = [row EXCEPT ![s] = q]
    BY <1>9 DEF q
  <2> QED BY <1>3, <1>6, <1>9, <2>1, <2>2 DEF d
<1> QED BY <1>5, <1>7, <1>8, <1>9

LEMMA LinkGivenUpChanges ==
  ASSUME NEW s \in Subjects, StateOK, LinkGivenUp(s)
  PROVE  \E q : /\ row' = [row EXCEPT ![s] = q] /\ Learns(row[s], q, attempt[s].update)
                /\ q.stage = row[s].stage
<1> DEFINE merged == MergedDownload(row[s].downloads, attempt[s].update)
           q == [row[s] EXCEPT !.downloads = merged]
<1>1. row[s] \in Rows /\ row \in [Subjects -> Rows]
  BY DEF StateOK
<1>2. row' = [row EXCEPT ![s] = q]
  BY DEF LinkGivenUp
<1> HIDE DEF merged
<1>3. /\ q.downloads = merged /\ q.stage = row[s].stage /\ q.links = row[s].links
      /\ q.tv = row[s].tv /\ q.pending = row[s].pending
  BY <1>1 DEF Rows
<1> HIDE DEF q
<1>4. Learns(row[s], q, attempt[s].update)
  BY <1>3 DEF Learns, merged
<1> QED BY <1>2, <1>3, <1>4

\* Each download stays that of its torrent and its hash; one that is found counts as live.
LEMMA ReplaceChanges ==
  ASSUME NEW s \in Subjects, StateOK, Replace(s)
  PROVE  \/ /\ UNCHANGED row
            /\ attempt' = [attempt EXCEPT ![s] =
                 [pc |-> "unlink",
                  found |-> {FoundHash(s, d) : d \in DownloadsOf(row[s])} \ {Null}]]
         \/ /\ UNCHANGED attempt
            /\ \E q : /\ row' = [row EXCEPT ![s] = q]
                      /\ q.pending /\ q.stage = row[s].stage
                      /\ \A d \in DownloadsOf(q) : \E e \in DownloadsOf(row[s]) : d = Prepared(s, e)
<1>1. row[s] \in Rows /\ row \in [Subjects -> Rows] /\ row[s].pending
  BY DEF StateOK, Replace
<1>2. CASE row[s].prepared
  BY <1>2 DEF Replace
<1>3. CASE ~row[s].prepared
  <2> DEFINE downloads == [i \in DOMAIN row[s].downloads |-> Prepared(s, row[s].downloads[i])]
             q == [row[s] EXCEPT !.downloads = downloads, !.prepared = TRUE]
  <2>1. row' = [row EXCEPT ![s] = q] /\ UNCHANGED attempt
    BY <1>3 DEF Replace, Readied
  <2>2. q.downloads = downloads /\ q.pending /\ q.stage = row[s].stage
    BY <1>1 DEF Rows
  <2>3. row[s].downloads \in Seq(AnyDownload)
    BY <1>1 DEF Rows, AnyDownload
  <2>4. \A d \in DownloadsOf(q) : \E e \in DownloadsOf(row[s]) : d = Prepared(s, e)
    <3>1. downloads \in Seq({Prepared(s, e) : e \in DownloadsOf(row[s])})
          /\ Len(downloads) = Len(row[s].downloads)
      BY <2>3 DEF DownloadsOf, Indices
    <3> HIDE DEF q
    <3> QED BY <2>2, <2>3, <3>1 DEF DownloadsOf, Indices
  <2> HIDE DEF q
  <2> QED BY <2>1, <2>2, <2>4
<1> QED BY <1>2, <1>3

LEMMA SettleReplacementChanges ==
  ASSUME NEW s \in Subjects, StateOK, SettleReplacement(s), row' # row
  PROVE  \E q : /\ row' = [row EXCEPT ![s] = q] /\ NothingLeft(row[s])
                /\ q.stage = row[s].stage /\ DownloadsOf(q) = {} /\ q.links = NoLinks
                /\ ~q.pending /\ q.tv = row[s].tv
<1>1. row[s] \in Rows /\ row \in [Subjects -> Rows]
  BY DEF StateOK
<1>2. row' = [row EXCEPT ![s] = IF NothingLeft(row[s]) THEN Cleaned(row[s]) ELSE row[s]]
  BY DEF SettleReplacement
<1>3. NothingLeft(row[s])
  <2>1. CASE ~NothingLeft(row[s])
    BY <1>1, <1>2, <2>1
  <2> QED BY <2>1
<1> DEFINE q == Cleaned(row[s])
<1>4. /\ q.stage = row[s].stage /\ q.downloads = <<>> /\ q.links = NoLinks
      /\ ~q.pending /\ q.tv = row[s].tv
  BY <1>1 DEF Cleaned, Rows
<1>5. row' = [row EXCEPT ![s] = q]
  BY <1>2, <1>3
<1> HIDE DEF q
<1>6. DownloadsOf(q) = {}
  BY <1>4 DEF DownloadsOf, Indices
<1> QED BY <1>3, <1>4, <1>5, <1>6

\* What the user asks for, while no attempt runs.
LEMMA CommandsChange ==
  ASSUME NEW s \in Subjects, StateOK, Commands(s)
  PROVE  /\ UNCHANGED <<kind, attempt, world>> /\ attempt[s] = Null
         /\ \E q : /\ row' = [row EXCEPT ![s] = q] /\ q.links = row[s].links
                   /\ \/ q.downloads = row[s].downloads
                      \/ \A d \in DownloadsOf(q) : d.state = "retired"
                   /\ \A d \in DownloadsOf(q) : \E e \in DownloadsOf(row[s]) :
                        d.torrent = e.torrent /\ d.hash = e.hash
                   /\ q.stage = "completed" => /\ row[s].stage = "completed" /\ q.tv = row[s].tv
                                               /\ q.pending = row[s].pending
                   /\ row[s].pending => q.pending
                   /\ ~LoadMeta(s) => /\ q.tv = row[s].tv
                                      /\ \A d \in DownloadsOf(q) : \E e \in DownloadsOf(row[s]) :
                                           d.files = e.files
<1> DEFINE r == row[s]
<1>1. r \in Rows /\ row \in [Subjects -> Rows] /\ r.downloads \in Seq(AnyDownload)
  BY DEF StateOK, Rows, AnyDownload
<1>2. \A q : q.downloads = r.downloads => DownloadsOf(q) = DownloadsOf(r)
  BY DEF DownloadsOf, Indices
<1>3. CASE LoadMeta(s)
  <2>1. PICK q : /\ row' = [row EXCEPT ![s] = q] /\ q.links = r.links /\ q.stage = "searching"
                 /\ q.downloads = r.downloads /\ q.pending = r.pending
    <3>1. CASE kind[s] = "movie"
      <4> DEFINE q == [r EXCEPT !.stage = "searching"]
      <4>1. row' = [row EXCEPT ![s] = q]
        BY <1>1, <1>3, <3>1 DEF LoadMeta
      <4>2. /\ q.links = r.links /\ q.stage = "searching" /\ q.downloads = r.downloads
            /\ q.pending = r.pending
        BY <1>1 DEF Rows
      <4> QED BY <4>1, <4>2
    <3>2. CASE kind[s] # "movie"
      <4>1. PICK tv : row' = [row EXCEPT ![s] = Loaded(r, tv)]
        BY <1>3, <3>2 DEF LoadMeta
      <4> DEFINE q == Loaded(r, tv)
      <4>2. row' = [row EXCEPT ![s] = q]
        BY <4>1
      <4>3. /\ q.links = r.links /\ q.stage = "searching" /\ q.downloads = r.downloads
            /\ q.pending = r.pending
        BY <1>1 DEF Loaded, Rows
      <4> HIDE DEF q
      <4> QED BY <4>2, <4>3
    <3> QED BY <3>1, <3>2
  <2>2. UNCHANGED <<kind, attempt, world>> /\ attempt[s] = Null
    BY <1>3 DEF LoadMeta, Begin
  <2>3. \A d \in DownloadsOf(q) : \E e \in DownloadsOf(r) : d.torrent = e.torrent /\ d.hash = e.hash
    BY <1>2, <2>1
  <2> QED BY <1>3, <2>1, <2>2, <2>3
<1>4. CASE \E t \in Torrents : AddManual(s, t)
  <2>1. PICK t \in Torrents : AddManual(s, t)
    BY <1>4
  <2> DEFINE q == [r EXCEPT !.candidates[t] = "keyword"]
  <2>2. /\ row' = [row EXCEPT ![s] = q] /\ attempt[s] = Null
        /\ UNCHANGED <<kind, attempt, world>>
    BY <1>1, <2>1 DEF AddManual
  <2>3. /\ q.downloads = r.downloads /\ q.links = r.links /\ q.tv = r.tv
        /\ q.stage = r.stage /\ q.pending = r.pending
    BY <1>1 DEF Rows
  <2> HIDE DEF q
  <2> QED BY <1>2, <2>2, <2>3
<1>5. CASE \E t \in Torrents, replace \in BOOLEAN : Confirm(s, t, replace)
  <2>1. PICK t \in Torrents, replace \in BOOLEAN : Confirm(s, t, replace)
    BY <1>5
  <2> DEFINE q == [r EXCEPT !.stage = "searching", !.confirmed = t,
                            !.pending = replace, !.prepared = FALSE]
  <2>2. /\ row' = [row EXCEPT ![s] = q] /\ attempt[s] = Null /\ ~r.pending
        /\ UNCHANGED <<kind, attempt, world>>
    BY <1>1, <2>1 DEF Confirm
  <2>3. /\ q.downloads = r.downloads /\ q.links = r.links /\ q.stage = "searching"
        /\ q.tv = r.tv
    BY <1>1 DEF Rows
  <2> HIDE DEF q
  <2> QED BY <1>2, <2>2, <2>3
<1>6. CASE Restart(s)
  <2> DEFINE Retired(d) == [d EXCEPT !.state = "retired"]
             downloads == [i \in DOMAIN r.downloads |-> Retired(r.downloads[i])]
             q == [r EXCEPT !.stage = "searching", !.candidates = [t \in Torrents |-> "absent"],
                            !.confirmed = Null, !.downloads = downloads]
  <2>1. /\ row' = [row EXCEPT ![s] = q] /\ attempt[s] = Null /\ ~r.pending
        /\ UNCHANGED <<kind, attempt, world>>
    BY <1>1, <1>6 DEF Restart, Restarted
  <2>2. /\ q.downloads = downloads /\ q.links = r.links /\ q.stage = "searching"
        /\ q.tv = r.tv
    BY <1>1 DEF Rows
  <2>3. \A d \in AnyDownload : /\ Retired(d).state = "retired"
                               /\ Retired(d).torrent = d.torrent
                               /\ Retired(d).hash = d.hash /\ Retired(d).files = d.files
    BY DEF AnyDownload
  <2> HIDE DEF Retired
  <2>4. /\ DOMAIN downloads = 1 .. Len(r.downloads) /\ Len(downloads) = Len(r.downloads)
        /\ \A i \in 1 .. Len(r.downloads) : downloads[i] = Retired(r.downloads[i])
    BY <1>1
  <2> HIDE DEF q, downloads
  <2>5. \A d \in DownloadsOf(q) : \E e \in DownloadsOf(r) : d = Retired(e)
    BY <2>2, <2>4 DEF DownloadsOf, Indices
  <2>6. DownloadsOf(r) \subseteq AnyDownload
    BY <1>1, RecordedIsTyped
  <2>7. \A d \in DownloadsOf(q) : d.state = "retired" /\ \E e \in DownloadsOf(r) :
          d.torrent = e.torrent /\ d.hash = e.hash /\ d.files = e.files
    BY <2>3, <2>5, <2>6
  <2> HIDE DEF r
  <2> QED BY <2>1, <2>2, <2>7 DEF r
<1> QED BY <1>3, <1>4, <1>5, <1>6 DEF Commands

-----------------------------------------------------------------------------
(* One torrent per effect: the keys, the adds under way and the listings.   *)

\* A running attempt keeps what it knew.
LEMMA MovesOn ==
  ASSUME NEW s \in Subjects, NEW pc, NEW more, StateOK, attempt[s] # Null,
         Continue(s, pc, more), "pc" \notin DOMAIN more
  PROVE  /\ DOMAIN attempt' = Subjects
         /\ \A o \in Subjects \ {s} : attempt'[o] = attempt[o]
         /\ DOMAIN attempt'[s] = DOMAIN attempt[s] \cup DOMAIN more
         /\ attempt'[s].pc = pc
         /\ \A x \in DOMAIN more : attempt'[s][x] = more[x]
         /\ \A x \in DOMAIN attempt[s] \ (DOMAIN more \cup {"pc"}) : attempt'[s][x] = attempt[s][x]
<1>1. "pc" \in DOMAIN attempt[s] /\ DOMAIN attempt = Subjects
  BY DEF StateOK, SubjectOK, AttemptShape
<1> QED BY <1>1, ContinueGives

\* A step of one subscription that leaves what qBittorrent has and takes alone.
LEMMA QuietFlow ==
  ASSUME NEW s \in Subjects, FlowInv, UNCHANGED <<qb, importing, listed>>,
         \A o \in Subjects \ {s} : row'[o] = row[o] /\ attempt'[o] = attempt[o],
         attempt'[s] # Null => AttemptFlow(s, attempt'[s]),
         \A d \in DownloadsOf(row'[s]) : d.state = "live" => d.hash \in listed
  PROVE  FlowInv'
<1>1. \A key \in EffectKeys : Claimants(key)' = Claimants(key)
  BY DEF Claimants
<1>2. \A h \in Hashes : qb'[h] # Null => h \in listed'
  BY DEF FlowInv
<1>3. \A key \in EffectKeys : \A g, h \in Claimants(key)' : g = h
  BY <1>1 DEF FlowInv
<1>4. ASSUME NEW o \in Subjects, attempt'[o] # Null
      PROVE  AttemptFlow(o, attempt[o])'
  <2>1. AttemptFlow(o, attempt'[o])
    BY <1>4 DEF FlowInv
  <2> QED BY <2>1 DEF AttemptFlow, NothingImported
<1>5. PushedWasListed'
  <2>1. \A o \in Subjects : \A d \in DownloadsOf(row'[o]) : d.state = "live" => d.hash \in listed
    BY DEF FlowInv, PushedWasListed
  <2> QED BY <2>1 DEF PushedWasListed, DownloadsOf, Indices
<1> QED BY <1>2, <1>3, <1>4, <1>5 DEF FlowInv

\* Its attempt moves on, the row stays.
LEMMA QuietMove ==
  ASSUME NEW s \in Subjects, FlowInv, UNCHANGED <<qb, importing, listed, row>>,
         \A o \in Subjects \ {s} : attempt'[o] = attempt[o],
         attempt'[s] # Null => AttemptFlow(s, attempt'[s])
  PROVE  FlowInv'
<1>1. \A d \in DownloadsOf(row'[s]) : d.state = "live" => d.hash \in listed
  BY DEF FlowInv, PushedWasListed
<1> QED BY <1>1, QuietFlow

\* Its row changes, and no attempt is left.
LEMMA QuietRow ==
  ASSUME NEW s \in Subjects, NEW r, StateOK, FlowInv, UNCHANGED <<qb, importing, listed>>,
         row' = [row EXCEPT ![s] = r], attempt'[s] = Null,
         \A o \in Subjects \ {s} : attempt'[o] = attempt[o],
         \A d \in DownloadsOf(r) : d.state = "live" => d.hash \in listed
  PROVE  FlowInv'
<1>1. /\ \A o \in Subjects \ {s} : row'[o] = row[o]
      /\ row'[s] = r
  BY DEF StateOK
<1> QED BY <1>1, QuietFlow

LEMMA SearchKeepsFlow ==
  ASSUME NEW s \in Subjects, StateOK, FlowInv, Search(s)
  PROVE  FlowInv'
<1>1. /\ importing = {} /\ attempt[s] = Null /\ UNCHANGED <<qb, importing, listed>>
      /\ DOMAIN attempt = Subjects
  BY DEF Search, Begin, world, StateOK
<1>2. PICK a : /\ a.pc = "fetch"
               /\ \/ row' = [row EXCEPT ![s] = Searched(row[s], a)] /\ UNCHANGED attempt
                  \/ attempt' = [attempt EXCEPT ![s] = a] /\ UNCHANGED row
  <2>1. PICK selection \in Selections(row[s]) :
          LET t == Selected(s, selection)
              a == [pc |-> "fetch", torrent |-> t, candidates |-> selection.candidates,
                    confirmed |-> selection.confirmed]
          IN  IF t = Null
              THEN /\ row' = [row EXCEPT ![s] = Searched(@, a)]
                   /\ UNCHANGED attempt
              ELSE /\ attempt' = [attempt EXCEPT ![s] = a]
                   /\ UNCHANGED row
    BY DEF Search
  <2> QED BY <2>1
<1>3. CASE row' = [row EXCEPT ![s] = Searched(row[s], a)] /\ UNCHANGED attempt
  <2>1. DownloadsOf(Searched(row[s], a)) = DownloadsOf(row[s])
    BY DEF Searched, DownloadsOf, Indices, StateOK, Rows
  <2>2. \A d \in DownloadsOf(Searched(row[s], a)) : d.state = "live" => d.hash \in listed
    BY <2>1 DEF FlowInv, PushedWasListed
  <2> QED BY <1>1, <1>3, <2>2, QuietRow
<1>4. CASE attempt' = [attempt EXCEPT ![s] = a] /\ UNCHANGED row
  <2>1. AttemptFlow(s, a)
    BY <1>1, <1>2 DEF AttemptFlow, NothingImported, LinkPcs
  <2>2. attempt'[s] = a /\ \A o \in Subjects \ {s} : attempt'[o] = attempt[o]
    BY <1>1, <1>4
  <2> QED BY <1>1, <1>4, <2>1, <2>2, QuietMove
<1> QED BY <1>2, <1>3, <1>4

LEMMA FetchKeepsFlow ==
  ASSUME NEW s \in Subjects, StateOK, FlowInv, FetchTorrent(s) \/ FetchFails(s)
  PROVE  FlowInv'
<1>1. At(s, "fetch") /\ UNCHANGED <<qb, importing, listed>>
  BY DEF FetchTorrent, FetchFails, world
<1>2. CASE GiveUpSearch(s)
  <2>1. DownloadsOf(Searched(row[s], attempt[s])) = DownloadsOf(row[s])
    BY DEF Searched, DownloadsOf, Indices, StateOK, Rows
  <2>2. \A d \in DownloadsOf(Searched(row[s], attempt[s])) : d.state = "live" => d.hash \in listed
    BY <2>1 DEF FlowInv, PushedWasListed
  <2>3. /\ row' = [row EXCEPT ![s] = Searched(row[s], attempt[s])] /\ attempt'[s] = Null
        /\ \A o \in Subjects \ {s} : attempt'[o] = attempt[o]
    BY <1>2 DEF GiveUpSearch, StateOK
  <2> QED BY <1>1, <2>2, <2>3, QuietRow
<1>3. CASE ~GiveUpSearch(s)
  <2>1. PICK h : Continue(s, "tag", [hash |-> h]) /\ UNCHANGED row
    BY <1>3 DEF FetchTorrent, FetchFails
  <2>2. attempt'[s].pc = "tag" /\ \A o \in Subjects \ {s} : attempt'[o] = attempt[o]
    BY <1>1, <2>1, MovesOn DEF At
  <2>3. AttemptFlow(s, attempt'[s])
    BY <1>1, <2>2 DEF FlowInv, AttemptFlow, At, LinkPcs
  <2> QED BY <1>1, <2>1, <2>2, <2>3, QuietMove
<1> QED BY <1>2, <1>3

\* The push is over, one way or the other.
LEMMA PushSettles ==
  ASSUME NEW s \in Subjects, NEW value \in BOOLEAN, StateOK, attempt[s] # Null,
         attempt[s].pc \in PushPcs \ {"fetch"}, Continue(s, "settle", [pushed |-> value])
  PROVE  /\ attempt'[s].pc = "settle" /\ attempt'[s].hash = attempt[s].hash
         /\ attempt'[s].pushed = value
         /\ \A o \in Subjects \ {s} : attempt'[o] = attempt[o]
<1> DEFINE more == [pushed |-> value]
<1>1. DOMAIN more = {"pushed"} /\ more.pushed = value
  OBVIOUS
<1>2. Continue(s, "settle", more)
  OBVIOUS
<1> HIDE DEF more
<1> QED BY <1>1, <1>2, PushMovesOn DEF PushPcs

LEMMA PushKeepsFlow ==
  ASSUME NEW s \in Subjects, StateOK, FlowInv,
         ListTagged(s) \/ ListHashed(s) \/ VerifyAdded(s) \/ CallFails(s)
  PROVE  FlowInv'
<1> DEFINE a == attempt[s]
           key == StableKey(s, a.torrent)
<1>1. /\ a # Null /\ a.pc \in {"tag", "hash", "verify"}
      /\ UNCHANGED <<row, qb, importing, listed>>
  BY DEF ListTagged, ListHashed, VerifyAdded, CallFails, At, world
<1>2. AttemptShape(a) /\ AttemptFlow(s, a) /\ a.torrent \in Torrents /\ a.hash \in Hashes
  BY <1>1 DEF StateOK, SubjectOK, AttemptShape, FlowInv, PushPcs
<1>3. ListByTag(qb, key) \subseteq listed
  BY DEF ListByTag, FlowInv
<1>4. CASE ListTagged(s)
  <2>1. Continue(s, "hash", [tagged |-> ListByTag(qb, key)]) /\ a.pc = "tag"
    BY <1>4 DEF ListTagged, At
  <2>2. /\ attempt'[s].pc = "hash" /\ attempt'[s].torrent = a.torrent
        /\ attempt'[s].tagged = ListByTag(qb, key)
        /\ \A o \in Subjects \ {s} : attempt'[o] = attempt[o]
    BY <1>1, <2>1, PushMovesOn DEF PushPcs
  <2>3. AttemptFlow(s, attempt'[s])
    BY <1>2, <1>3, <2>1, <2>2 DEF AttemptFlow, LinkPcs
  <2> QED BY <1>1, <2>2, <2>3, QuietMove
<1>5. CASE ListHashed(s)
  <2> DEFINE decided == Reconcile(key, a.hash, a.tagged, ListByHash(qb, a.hash))
  <2>1. a.pc = "hash"
    BY <1>5 DEF ListHashed, At
  <2>2. /\ ListByHash(qb, a.hash) \subseteq {a.hash}
        /\ a.hash \in ListByHash(qb, a.hash) => a.hash \in listed
    BY <1>2 DEF ListByHash, FlowInv
  <2>3. /\ decided.decision \in {"use", "add", "conflict"}
        /\ decided.decision = "use" => a.hash \in a.tagged \cup ListByHash(qb, a.hash)
        /\ decided.decision = "add" => a.tagged = {}
    BY <1>2, <2>2, ReconcileFacts
  <2>4. CASE decided.decision = "use"
    <3>1. Continue(s, "settle", [pushed |-> TRUE])
      BY <1>5, <2>4 DEF ListHashed
    <3>2. /\ attempt'[s].pc = "settle" /\ attempt'[s].hash = a.hash
          /\ \A o \in Subjects \ {s} : attempt'[o] = attempt[o]
      BY <1>1, <2>1, <3>1, PushMovesOn DEF PushPcs
    <3>3. a.hash \in listed
      BY <1>2, <2>1, <2>2, <2>3, <2>4 DEF AttemptFlow
    <3>4. AttemptFlow(s, attempt'[s])
      BY <3>2, <3>3 DEF AttemptFlow, LinkPcs
    <3> QED BY <1>1, <3>2, <3>4, QuietMove
  <2>5. CASE decided.decision = "conflict"
    <3>1. Continue(s, "settle", [pushed |-> FALSE])
      BY <1>5, <2>5 DEF ListHashed
    <3>2. /\ attempt'[s].pc = "settle" /\ attempt'[s].pushed = FALSE
          /\ \A o \in Subjects \ {s} : attempt'[o] = attempt[o]
      BY <1>1, <2>1, <3>1, PushSettles DEF PushPcs
    <3>3. AttemptFlow(s, attempt'[s])
      BY <3>2 DEF AttemptFlow, LinkPcs
    <3> QED BY <1>1, <3>2, <3>3, QuietMove
  <2>6. CASE decided.decision = "add"
    <3>1. Continue(s, "add", <<>>)
      BY <1>5, <2>6 DEF ListHashed
    <3>2. DOMAIN <<>> = {}
      OBVIOUS
    <3>3. /\ attempt'[s].pc = "add" /\ attempt'[s].torrent = a.torrent
          /\ \A o \in Subjects \ {s} : attempt'[o] = attempt[o]
      BY <1>1, <2>1, <3>1, <3>2, PushMovesOn DEF PushPcs
    <3>4. ListByTag(qb, key) = {}
      BY <1>2, <2>1, <2>3, <2>6 DEF AttemptFlow
    <3>5. AttemptFlow(s, attempt'[s])
      BY <1>2, <2>1, <3>3, <3>4 DEF AttemptFlow, LinkPcs
    <3> QED BY <1>1, <3>3, <3>5, QuietMove
  <2> QED BY <2>3, <2>4, <2>5, <2>6
<1>6. CASE VerifyAdded(s)
  <2>1. Continue(s, "settle", [pushed |-> Verified(s)]) /\ a.pc = "verify"
    BY <1>6 DEF VerifyAdded, At
  <2>2. Verified(s) \in BOOLEAN
    BY DEF Verified
  <2>3. /\ attempt'[s].pc = "settle" /\ attempt'[s].hash = a.hash
        /\ attempt'[s].pushed = Verified(s)
        /\ \A o \in Subjects \ {s} : attempt'[o] = attempt[o]
    BY <1>1, <2>1, <2>2, PushSettles DEF PushPcs
  <2>4. AttemptFlow(s, attempt'[s])
    BY <1>2, <2>3 DEF AttemptFlow, LinkPcs, Verified, FlowInv
  <2> QED BY <1>1, <2>3, <2>4, QuietMove
<1>7. CASE CallFails(s)
  <2>1. Continue(s, "settle", [pushed |-> FALSE])
    BY <1>7 DEF CallFails
  <2>2. /\ attempt'[s].pc = "settle" /\ attempt'[s].pushed = FALSE
        /\ \A o \in Subjects \ {s} : attempt'[o] = attempt[o]
    BY <1>1, <2>1, PushSettles DEF PushPcs
  <2>3. AttemptFlow(s, attempt'[s])
    BY <2>2 DEF AttemptFlow, LinkPcs
  <2> QED BY <1>1, <2>2, <2>3, QuietMove
<1> QED BY <1>4, <1>5, <1>6, <1>7

LEMMA LearnsListed ==
  ASSUME NEW s \in Subjects, NEW q, NEW update \in AnyDownload, StateOK, FlowInv,
         Learns(row[s], q, update), update.state = "live" => update.hash \in listed
  PROVE  \A d \in DownloadsOf(q) : d.state = "live" => d.hash \in listed
<1>1. row[s].downloads \in Seq(AnyDownload)
  BY DEF StateOK, Rows, AnyDownload
<1>2. \A d \in DownloadsOf(q) : d = update \/ d \in DownloadsOf(row[s])
  BY <1>1, MergedSet DEF Learns
<1> QED BY <1>2 DEF FlowInv, PushedWasListed

\* The add is what gives a key to a torrent, and nothing else had it.
LEMMA AddKeepsFlow ==
  ASSUME NEW s \in Subjects, StateOK, FlowInv, AddTorrent(s)
  PROVE  FlowInv'
<1> DEFINE a == attempt[s]
<1>1. a # Null /\ a.pc = "add" /\ UNCHANGED <<row, qb, listed>>
  BY DEF AddTorrent, At
<1>2. a.torrent \in Torrents /\ a.hash \in Hashes /\ AttemptFlow(s, a)
  BY <1>1 DEF StateOK, SubjectOK, AttemptShape, FlowInv, PushPcs
<1>3. PICK own \in EffectKeys, hash \in Hashes :
        /\ own = StableKey(s, a.torrent) /\ hash = a.hash
        /\ ListByTag(qb, own) = {} /\ \A h \in Hashes : <<h, own>> \notin importing
  BY <1>1, <1>2 DEF AttemptFlow, StableKey, EffectKeys, NothingImported
<1>4. CASE UNCHANGED importing
  <2>1. \/ Continue(s, "verify", <<>>)
        \/ Continue(s, "settle", [pushed |-> FALSE])
    BY DEF AddTorrent
  <2>2. CASE Continue(s, "settle", [pushed |-> FALSE])
    <3>1. /\ attempt'[s].pc = "settle" /\ attempt'[s].pushed = FALSE
          /\ \A o \in Subjects \ {s} : attempt'[o] = attempt[o]
      BY <1>1, <2>2, PushSettles DEF PushPcs
    <3>2. AttemptFlow(s, attempt'[s])
      BY <3>1 DEF AttemptFlow, LinkPcs
    <3> QED BY <1>1, <1>4, <3>1, <3>2, QuietMove
  <2>3. CASE Continue(s, "verify", <<>>)
    <3>1. DOMAIN <<>> = {}
      OBVIOUS
    <3>2. /\ attempt'[s].pc = "verify"
          /\ \A o \in Subjects \ {s} : attempt'[o] = attempt[o]
      BY <1>1, <2>3, <3>1, PushMovesOn DEF PushPcs
    <3>3. AttemptFlow(s, attempt'[s])
      BY <3>2 DEF AttemptFlow, LinkPcs
    <3> QED BY <1>1, <1>4, <3>2, <3>3, QuietMove
  <2> QED BY <2>1, <2>2, <2>3
<1>5. CASE importing' = importing \cup {<<hash, own>>}
  <2>1. \/ Continue(s, "verify", <<>>)
        \/ Continue(s, "settle", [pushed |-> FALSE])
    BY DEF AddTorrent
  <2>2. /\ attempt'[s].pc = "verify" \/ (attempt'[s].pc = "settle" /\ attempt'[s].pushed = FALSE)
        /\ \A o \in Subjects \ {s} : attempt'[o] = attempt[o]
    <3>1. DOMAIN <<>> = {}
      OBVIOUS
    <3>2. CASE Continue(s, "verify", <<>>)
      BY <1>1, <3>1, <3>2, PushMovesOn DEF PushPcs
    <3>3. CASE Continue(s, "settle", [pushed |-> FALSE])
      BY <1>1, <3>3, PushSettles DEF PushPcs
    <3> QED BY <2>1, <3>2, <3>3
  <2>3. Claimants(own)' = {hash}
    BY <1>1, <1>3, <1>5 DEF Claimants, ListByTag
  <2>4. \A key \in EffectKeys \ {own} : Claimants(key)' = Claimants(key)
    BY <1>1, <1>5 DEF Claimants
  <2>5. \A key \in EffectKeys : \A g, h \in Claimants(key)' : g = h
    BY <2>3, <2>4 DEF FlowInv
  <2>6. AttemptFlow(s, attempt[s])'
    BY <2>2 DEF AttemptFlow, LinkPcs
  <2>7. ASSUME NEW o \in Subjects \ {s}, attempt'[o] # Null
        PROVE  AttemptFlow(o, attempt[o])'
    <3>1. AttemptFlow(o, attempt[o]) /\ attempt'[o] = attempt[o]
      BY <2>2, <2>7 DEF FlowInv
    <3>2. NothingImported(o) => NothingImported(o)'
      BY <1>3, <1>5 DEF NothingImported, StableKey
    <3> QED BY <1>1, <3>1, <3>2 DEF AttemptFlow
  <2>8. PushedWasListed'
    BY <1>1 DEF FlowInv, PushedWasListed
  <2>9. \A h \in Hashes : qb'[h] # Null => h \in listed'
    BY <1>1 DEF FlowInv
  <2> QED BY <2>5, <2>6, <2>7, <2>8, <2>9 DEF FlowInv
<1> QED BY <1>3, <1>4, <1>5 DEF AddTorrent

LEMMA SettlePushKeepsFlow ==
  ASSUME NEW s \in Subjects, StateOK, FlowInv, SettlePush(s)
  PROVE  FlowInv'
<1>1. /\ At(s, "settle") /\ UNCHANGED <<qb, importing, listed>> /\ attempt'[s] = Null
      /\ \A o \in Subjects \ {s} : attempt'[o] = attempt[o]
  BY DEF SettlePush, world, StateOK
<1>2. PICK q, update :
        /\ row' = [row EXCEPT ![s] = q] /\ Learns(row[s], q, update) /\ update \in AnyDownload
        /\ update.hash = attempt[s].hash
        /\ update.state = IF attempt[s].pushed THEN "live" ELSE "failed"
  BY SettlePushChanges
<1>3. update.state = "live" => update.hash \in listed
  BY <1>1, <1>2 DEF At, FlowInv, AttemptFlow
<1>4. \A d \in DownloadsOf(q) : d.state = "live" => d.hash \in listed
  BY <1>2, <1>3, LearnsListed
<1> QED BY <1>1, <1>2, <1>4, QuietRow

LEMMA ProgressKeepsFlow ==
  ASSUME NEW s \in Subjects, StateOK, FlowInv, Progress(s)
  PROVE  FlowInv'
<1>1. attempt[s] = Null /\ UNCHANGED <<qb, importing, listed, attempt>>
  BY DEF Progress, Begin, world
<1>2. CASE row' = row
  BY <1>1, <1>2, QuietMove
<1>3. CASE row' # row
  <2> DEFINE d == CurrentDownload(row[s])
  <2>1. d.hash \in Hashes
    BY CurrentFacts DEF Progress
  <2>2. PICK q, update :
          /\ row' = [row EXCEPT ![s] = q] /\ Learns(row[s], q, update) /\ update \in AnyDownload
          /\ update.hash = d.hash
          /\ (update.state = "live" /\ qb[d.hash] # Null) \/ update.state = "missing"
    BY <1>3, ProgressChanges
  <2>3. update.state = "live" => update.hash \in listed
    BY <2>1, <2>2 DEF FlowInv
  <2>4. \A e \in DownloadsOf(q) : e.state = "live" => e.hash \in listed
    BY <2>2, <2>3, LearnsListed
  <2> QED BY <1>1, <2>2, <2>4, QuietRow
<1> QED BY <1>2, <1>3

LEMMA LinkKeepsFlow ==
  ASSUME NEW s \in Subjects, StateOK, FlowInv, Link(s)
  PROVE  FlowInv'
<1> DEFINE d == CurrentDownload(row[s])
<1>1. importing = {} /\ attempt[s] = Null /\ UNCHANGED <<qb, importing, listed>>
  BY DEF Link, Begin, world
<1>2. d.hash \in Hashes
  BY CurrentFacts DEF Link
<1>3. PICK update \in AnyDownload :
        /\ update.hash = d.hash /\ qb[d.hash] # Null
        /\ \/ /\ attempt' = [attempt EXCEPT ![s] = [pc |-> "probe", update |-> update]]
              /\ UNCHANGED row
           \/ /\ UNCHANGED attempt
              /\ \E q : row' = [row EXCEPT ![s] = q] /\ Learns(row[s], q, update)
  BY LinkChanges
<1>4. update.hash \in listed
  BY <1>2, <1>3 DEF FlowInv
<1>5. CASE /\ attempt' = [attempt EXCEPT ![s] = [pc |-> "probe", update |-> update]]
           /\ UNCHANGED row
  <2> DEFINE a == [pc |-> "probe", update |-> update]
  <2>1. AttemptFlow(s, a)
    BY <1>1, <1>4 DEF AttemptFlow, NothingImported, LinkPcs
  <2> HIDE DEF a
  <2>2. attempt' = [attempt EXCEPT ![s] = a]
    BY <1>5 DEF a
  <2>3. attempt'[s] = a /\ \A o \in Subjects \ {s} : attempt'[o] = attempt[o]
    BY <2>2 DEF StateOK
  <2> QED BY <1>1, <1>5, <2>1, <2>3, QuietMove
<1>6. CASE /\ UNCHANGED attempt
           /\ \E q : row' = [row EXCEPT ![s] = q] /\ Learns(row[s], q, update)
  <2>1. PICK q : row' = [row EXCEPT ![s] = q] /\ Learns(row[s], q, update)
    BY <1>6
  <2>2. \A e \in DownloadsOf(q) : e.state = "live" => e.hash \in listed
    BY <1>4, <2>1, LearnsListed
  <2> QED BY <1>1, <1>6, <2>1, <2>2, QuietRow
<1> QED BY <1>3, <1>5, <1>6

LEMMA LinkingKeepsFlow ==
  ASSUME NEW s \in Subjects, StateOK, FlowInv,
         LinkGivenUp(s) \/ Probe(s) \/ LinkFile(s) \/ SettleLink(s)
  PROVE  FlowInv'
<1> DEFINE a == attempt[s]
<1>1. a # Null /\ a.pc \in LinkPcs /\ UNCHANGED <<qb, importing, listed>>
  BY DEF LinkGivenUp, Probe, LinkFile, SettleLink, EveryFileTried, At, world, LinkPcs
<1>2. a.update \in AnyDownload /\ a.update.hash \in listed /\ NothingImported(s)
      /\ "update" \in DOMAIN a
  BY <1>1, LinkingFacts DEF FlowInv, AttemptFlow, LinkPcs
<1>3. CASE LinkGivenUp(s)
  <2>1. PICK q : row' = [row EXCEPT ![s] = q] /\ Learns(row[s], q, a.update)
    BY <1>3, LinkGivenUpChanges
  <2>2. \A e \in DownloadsOf(q) : e.state = "live" => e.hash \in listed
    BY <1>2, <2>1, LearnsListed
  <2>3. attempt'[s] = Null /\ \A o \in Subjects \ {s} : attempt'[o] = attempt[o]
    BY <1>3 DEF LinkGivenUp, StateOK
  <2> QED BY <1>1, <2>1, <2>2, <2>3, QuietRow
<1>4. CASE Probe(s)
  <2>1. /\ attempt'[s].pc = "link" /\ attempt'[s].update = a.update
        /\ \A o \in Subjects \ {s} : attempt'[o] = attempt[o]
    BY <1>4, ProbeKeepsState
  <2>2. AttemptFlow(s, attempt'[s])
    BY <1>2, <2>1 DEF AttemptFlow, LinkPcs
  <2>3. UNCHANGED row
    BY <1>4 DEF Probe
  <2> QED BY <1>1, <2>1, <2>2, <2>3, QuietMove
<1>5. CASE LinkFile(s)
  <2>1. PICK outcomes : Continue(s, "link", [outcomes |-> outcomes])
    BY <1>5 DEF LinkFile
  <2>2. /\ attempt'[s].pc = "link" /\ attempt'[s].update = a.update
        /\ \A o \in Subjects \ {s} : attempt'[o] = attempt[o]
    BY <1>1, <1>2, <2>1, MovesOn
  <2>3. AttemptFlow(s, attempt'[s])
    BY <1>2, <2>2 DEF AttemptFlow, LinkPcs
  <2>4. UNCHANGED row
    BY <1>5 DEF LinkFile
  <2> QED BY <1>1, <2>2, <2>3, <2>4, QuietMove
<1>6. CASE SettleLink(s)
  <2>1. /\ \A o \in Subjects \ {s} : attempt'[o] = attempt[o] /\ row'[o] = row[o]
        /\ attempt'[s] = Null
        /\ row'[s].tv = row[s].tv /\ row'[s].pending = row[s].pending
        /\ row'[s].downloads = MergedDownload(row[s].downloads, a.update)
    BY <1>6, SettleLinkKeepsState
  <2>2. row[s].downloads \in Seq(AnyDownload)
    BY DEF StateOK, Rows, AnyDownload
  <2>3. \A d \in DownloadsOf(row'[s]) : d = a.update \/ d \in DownloadsOf(row[s])
    BY <1>2, <2>1, <2>2, MergedSet
  <2>4. \A d \in DownloadsOf(row'[s]) : d.state = "live" => d.hash \in listed
    BY <1>2, <2>3 DEF FlowInv, PushedWasListed
  <2> QED BY <1>1, <2>1, <2>4, QuietFlow
<1> QED BY <1>3, <1>4, <1>5, <1>6

LEMMA ReplacingKeepsFlow ==
  ASSUME NEW s \in Subjects, StateOK, FlowInv, Replacing(s)
  PROVE  FlowInv'
<1>1. UNCHANGED <<qb, importing, listed>>
  BY DEF Replacing, Replace, VerifyLinks, RemoveLink, DeleteTorrent, TorrentGone,
         SettleReplacement, world
<1>2. CASE Replace(s)
  <2>1. importing = {} /\ attempt[s] = Null
    BY <1>2 DEF Replace, Begin
  <2>2. CASE /\ UNCHANGED row
             /\ attempt' = [attempt EXCEPT ![s] =
                  [pc |-> "unlink",
                   found |-> {FoundHash(s, d) : d \in DownloadsOf(row[s])} \ {Null}]]
    <3>1. attempt'[s].pc = "unlink" /\ \A o \in Subjects \ {s} : attempt'[o] = attempt[o]
      BY <2>2 DEF StateOK
    <3>2. AttemptFlow(s, attempt'[s])
      BY <2>1, <3>1 DEF AttemptFlow, NothingImported, LinkPcs
    <3> QED BY <1>1, <2>2, <3>1, <3>2, QuietMove
  <2>3. CASE /\ UNCHANGED attempt
             /\ \E q : /\ row' = [row EXCEPT ![s] = q]
                       /\ \A d \in DownloadsOf(q) : \E e \in DownloadsOf(row[s]) : d = Prepared(s, e)
    <3>1. PICK q : /\ row' = [row EXCEPT ![s] = q]
                   /\ \A d \in DownloadsOf(q) : \E e \in DownloadsOf(row[s]) : d = Prepared(s, e)
      BY <2>3
    <3>2. ASSUME NEW e \in DownloadsOf(row[s]), Prepared(s, e).state = "live"
          PROVE  Prepared(s, e).hash \in listed
      <4>1. e \in AnyDownload /\ e.hash \in Hashes
        <5>1. RowOK(kind[s], row[s]) /\ row[s].downloads \in Seq(AnyDownload)
          BY DEF StateOK, SubjectOK, Rows, AnyDownload
        <5> QED BY <5>1, RecordedIsTyped DEF RowOK
      <4>2. CASE FoundHash(s, e) = Null
        <5>1. Prepared(s, e) = e
          BY <4>2 DEF Prepared
        <5> QED BY <3>2, <5>1 DEF FlowInv, PushedWasListed
      <4>3. CASE FoundHash(s, e) # Null
        <5>1. qb[e.hash] # Null
          BY <4>1, <4>3, ObserveFacts DEF FoundHash, Observed
        <5>2. Prepared(s, e).hash = e.hash
          BY <4>1, PreparedFacts
        <5> QED BY <4>1, <5>1, <5>2 DEF FlowInv
      <4> QED BY <4>2, <4>3
    <3>3. \A d \in DownloadsOf(q) : d.state = "live" => d.hash \in listed
      BY <3>1, <3>2
    <3> QED BY <1>1, <2>1, <2>3, <3>1, <3>3, QuietRow
  <2> QED BY <1>2, <2>2, <2>3, ReplaceChanges
<1>3. CASE VerifyLinks(s) \/ RemoveLink(s) \/ DeleteTorrent(s) \/ TorrentGone(s)
  <2>1. /\ UNCHANGED row /\ attempt[s] # Null /\ attempt[s].pc \in CleanPcs
    BY <1>3 DEF VerifyLinks, RemoveLink, DeleteTorrent, TorrentGone, At, CleanPcs
  <2>2. /\ \A o \in Subjects \ {s} : attempt'[o] = attempt[o]
        /\ attempt'[s] # Null => attempt'[s].pc \in CleanPcs
    BY <1>3, VerifyLinksKeepsState, RemoveLinkKeepsState, DeleteTorrentKeepsState,
       TorrentGoneKeepsState DEF CleanPcs
  <2>3. NothingImported(s)
    BY <2>1 DEF FlowInv, AttemptFlow, CleanPcs
  <2>4. attempt'[s] # Null => AttemptFlow(s, attempt'[s])
    BY <2>2, <2>3 DEF AttemptFlow, CleanPcs, LinkPcs
  <2> QED BY <1>1, <2>1, <2>2, <2>4, QuietMove
<1>4. CASE SettleReplacement(s)
  <2>1. attempt'[s] = Null /\ \A o \in Subjects \ {s} : attempt'[o] = attempt[o]
    BY <1>4 DEF SettleReplacement, StateOK
  <2>2. CASE row' = row
    BY <1>1, <2>1, <2>2, QuietMove
  <2>3. CASE row' # row
    <3>1. PICK q : row' = [row EXCEPT ![s] = q] /\ DownloadsOf(q) = {}
      BY <1>4, <2>3, SettleReplacementChanges
    <3>2. \A d \in DownloadsOf(q) : d.state = "live" => d.hash \in listed
      BY <3>1
    <3> QED BY <1>1, <2>1, <3>1, <3>2, QuietRow
  <2> QED BY <2>2, <2>3
<1> QED BY <1>2, <1>3, <1>4 DEF Replacing

LEMMA CommandsKeepFlow ==
  ASSUME NEW s \in Subjects, StateOK, FlowInv, Commands(s)
  PROVE  FlowInv'
<1>1. UNCHANGED <<attempt, qb, importing, listed>> /\ attempt[s] = Null
  BY CommandsChange DEF world
<1>2. PICK q : /\ row' = [row EXCEPT ![s] = q]
               /\ \/ q.downloads = row[s].downloads
                  \/ \A d \in DownloadsOf(q) : d.state = "retired"
  BY CommandsChange
<1>3. \A d \in DownloadsOf(q) : d.state = "live" => d.hash \in listed
  <2>1. CASE q.downloads = row[s].downloads
    <3>1. DownloadsOf(q) = DownloadsOf(row[s])
      BY <2>1 DEF DownloadsOf, Indices
    <3> QED BY <3>1 DEF FlowInv, PushedWasListed
  <2> QED BY <1>2, <2>1
<1> QED BY <1>1, <1>2, <1>3, QuietRow

\* qBittorrent lists what it accepted, and forgets; the user only takes tags away.
LEMMA WorldKeepsFlow ==
  ASSUME StateOK, FlowInv, World
  PROVE  FlowInv'
<1>1. /\ UNCHANGED row
      /\ \A s \in Subjects : attempt'[s] \in {attempt[s], Null}
  BY WorldKeepsState
<1>2. qb \in Servers
  BY DEF StateOK, WorldOK
<1> DEFINE Tags(h) == IF qb[h] # Null THEN qb[h].tags ELSE {}
           TagsAfter(h) == IF qb'[h] # Null THEN qb'[h].tags ELSE {}
<1>3. /\ importing' \subseteq importing /\ listed \subseteq listed'
      /\ \A h \in Hashes : qb'[h] # Null => h \in listed'
      /\ \A h \in Hashes : \A key \in TagsAfter(h) : key \in Tags(h) \/ <<h, key>> \in importing
  <2>1. CASE UNCHANGED <<qb, importing, listed>>
    BY <2>1 DEF FlowInv
  <2>2. CASE QbLists
    <3>1. PICK h \in Hashes, key \in EffectKeys :
            /\ <<h, key>> \in importing /\ importing' = importing \ {<<h, key>>}
            /\ IF qb[h] # Null THEN UNCHANGED <<qb, sources, copies, listed>> ELSE Comes(h, {key})
      BY <2>2 DEF QbLists
    <3>2. CASE qb[h] # Null
      BY <3>1, <3>2 DEF FlowInv
    <3>3. CASE qb[h] = Null
      <4>1. /\ qb' = [qb EXCEPT ![h] = [tags |-> {key}, complete |-> FALSE]]
            /\ listed' = listed \cup {h}
        BY <3>1, <3>3 DEF Comes
      <4>2. TagsAfter(h) \subseteq {key} /\ \A g \in Hashes \ {h} : qb'[g] = qb[g]
        BY <1>2, <4>1 DEF Servers
      <4> QED BY <3>1, <4>1, <4>2 DEF FlowInv
    <3> QED BY <3>2, <3>3
  <2>3. CASE UserAddsTorrent
    <3>1. PICK h \in UsersOwn \ doomed : qb[h] = Null /\ Comes(h, {})
      BY <2>3 DEF UserAddsTorrent
    <3>2. /\ qb' = [qb EXCEPT ![h] = [tags |-> {}, complete |-> FALSE]]
          /\ listed' = listed \cup {h} /\ UNCHANGED importing
      BY <2>3, <3>1 DEF Comes, UserAddsTorrent
    <3>3. TagsAfter(h) = {} /\ \A g \in Hashes \ {h} : qb'[g] = qb[g]
      BY <1>2, <3>2, TorrentsAssumption DEF Servers
    <3> QED BY <3>2, <3>3 DEF FlowInv
  <2>4. CASE QbCompletes \/ UserRechecks
    <3>1. PICK h \in Hashes, value \in BOOLEAN :
            qb[h] # Null /\ qb' = [qb EXCEPT ![h].complete = value]
      BY <2>4 DEF QbCompletes, UserRechecks
    <3>2. UNCHANGED <<importing, listed>>
      BY <2>4 DEF QbCompletes, UserRechecks
    <3>3. qb[h] \in QbTorrents
      BY <1>2, <3>1 DEF Servers
    <3>4. [qb[h] EXCEPT !.complete = value].tags = qb[h].tags
      BY <3>3 DEF QbTorrents
    <3>5. qb' = [qb EXCEPT ![h] = [qb[h] EXCEPT !.complete = value]]
      BY <3>1
    <3>6. /\ \A g \in Hashes \ {h} : qb'[g] = qb[g]
          /\ qb'[h].tags = qb[h].tags
      BY <1>2, <3>4, <3>5 DEF Servers
    <3> QED BY <3>1, <3>2, <3>6 DEF FlowInv
  <2>5. CASE QbForgets \/ UserRemovesTorrent
    <3>1. PICK h \in Hashes : qb' = [qb EXCEPT ![h] = Null]
      BY <2>5 DEF QbForgets, UserRemovesTorrent, StateOK, WorldOK
    <3>2. UNCHANGED <<importing, listed>>
      BY <2>5 DEF QbForgets, UserRemovesTorrent
    <3>3. \A g \in Hashes : qb'[g] = qb[g] \/ qb'[g] = Null
      BY <1>2, <3>1 DEF Servers
    <3> QED BY <3>2, <3>3 DEF FlowInv
  <2>6. CASE QbErases \/ Republish \/ UserFillsTarget \/ AttemptsLost
    <3>1. UNCHANGED <<qb, importing, listed>>
      BY <2>6 DEF QbErases, Republish, UserFillsTarget, AttemptsLost, world
    <3> QED BY <2>1, <3>1
  <2> QED BY <2>2, <2>3, <2>4, <2>5, <2>6 DEF World
<1>4. \A key \in EffectKeys : Claimants(key)' \subseteq Claimants(key)
  BY <1>3 DEF Claimants
<1>5. \A key \in EffectKeys : \A g, h \in Claimants(key)' : g = h
  BY <1>4 DEF FlowInv
<1>6. ASSUME NEW s \in Subjects, attempt'[s] # Null
      PROVE  AttemptFlow(s, attempt[s])'
  <2> DEFINE a == attempt[s]
  <2>1. attempt'[s] = a /\ AttemptFlow(s, a)
    BY <1>1, <1>6 DEF FlowInv
  <2>2. NothingImported(s) => NothingImported(s)'
    BY <1>3 DEF NothingImported
  <2>3. a.pc \in PushPcs => a.torrent \in Torrents
    BY <1>6, <2>1 DEF StateOK, SubjectOK, AttemptShape
  <2>4. ASSUME NEW t \in Torrents, NothingImported(s)
        PROVE  ListByTag(qb', StableKey(s, t)) \subseteq ListByTag(qb, StableKey(s, t))
    BY <1>3, <2>4 DEF ListByTag, NothingImported
  <2> QED BY <1>3, <2>1, <2>2, <2>3, <2>4 DEF AttemptFlow, PushPcs
<1>7. PushedWasListed'
  BY <1>1, <1>3 DEF FlowInv, PushedWasListed
<1> QED BY <1>3, <1>5, <1>6, <1>7 DEF FlowInv

LEMMA FlowInit == Init => FlowInv
<1> SUFFICES ASSUME Init PROVE FlowInv
  OBVIOUS
<1>1. /\ importing = {} /\ \A s \in Subjects : attempt[s] = Null /\ row[s].downloads = <<>>
      /\ \A h \in Hashes : qb[h] # Null => h \in listed /\ qb[h].tags = {}
  BY DEF Init, NewRow
<1> QED BY <1>1 DEF FlowInv, Claimants, PushedWasListed, DownloadsOf, Indices

LEMMA FlowStep == StateOK /\ FlowInv /\ [Next]_vars => FlowInv'
<1> SUFFICES ASSUME StateOK, FlowInv, [Next]_vars PROVE FlowInv'
  OBVIOUS
<1>1. CASE UNCHANGED vars
  BY <1>1 DEF vars, FlowInv, Claimants, AttemptFlow, NothingImported, PushedWasListed
<1>2. CASE World
  BY <1>2, WorldKeepsFlow
<1>3. ASSUME NEW s \in Subjects, Pushing(s) PROVE FlowInv'
  BY <1>3, SearchKeepsFlow, FetchKeepsFlow, PushKeepsFlow, AddKeepsFlow, SettlePushKeepsFlow
     DEF Pushing
<1>4. ASSUME NEW s \in Subjects, Linking(s) PROVE FlowInv'
  BY <1>4, ProgressKeepsFlow, LinkKeepsFlow, LinkingKeepsFlow DEF Linking
<1> QED BY <1>1, <1>2, <1>3, <1>4, ReplacingKeepsFlow, CommandsKeepFlow DEF Next

\* However often a push is interrupted, answered late or not at all, repeated, or made of
\* another edition of the torrent's file: at most one torrent in qBittorrent carries the
\* tag of one effect.  An add is only made when nothing of the subscription is under way
\* and nothing was listed by the tag, and so every key has at most one claimant.
THEOREM OneEffectOneTorrent == Spec => []OneTorrentPerEffect
<1>1. FlowInv => OneTorrentPerEffect
  <2> SUFFICES ASSUME FlowInv, NEW key \in EffectKeys
               PROVE  Cardinality(ListByTag(qb, key)) <= 1
    BY DEF OneTorrentPerEffect
  <2>1. \A g, h \in ListByTag(qb, key) : g = h
    BY DEF FlowInv, Claimants, ListByTag
  <2>2. CASE ListByTag(qb, key) = {}
    BY <2>2, FS_EmptySet
  <2>3. CASE ListByTag(qb, key) # {}
    <3>1. PICK h : ListByTag(qb, key) = {h}
      BY <2>1, <2>3
    <3>2. Cardinality({h}) = 1
      BY FS_Singleton
    <3> HIDE DEF OneTorrentPerEffect
    <3> QED BY ONLY <3>1, <3>2
  <2> QED BY <2>2, <2>3
<1> QED BY <1>1, StateInit, StateStep, FlowInit, FlowStep, PTL DEF Spec

\* A download that a row calls live is one that qBittorrent has listed.
THEOREM PushedMeansListed == Spec => []PushedWasListed
<1>1. FlowInv => PushedWasListed
  BY DEF FlowInv
<1> QED BY <1>1, StateInit, StateStep, FlowInit, FlowStep, PTL DEF Spec

-----------------------------------------------------------------------------
(* The program's own links: paths in the library and what the journals say.  *)

\* A file that is there is the copy of it that counts.
LEMMA SourceIsOurs ==
  ASSUME NEW s \in Subjects, NEW h \in Hashes, NEW n \in Names, WorldOK,
         targets[s][n] = SourceAt(h, n), SourceAt(h, n) # Null
  PROVE  Ours(s, h, n)
BY DEF WorldOK, SourceAt, Ours

\* Paths in the library only come to hold something where nothing was.
OnlyFilled == \A s \in Subjects, n \in Names :
                targets'[s][n] = targets[s][n] \/ targets[s][n] = Null

LEMMA OursStays ==
  ASSUME NEW s \in Subjects, NEW h, h \in Hashes, NEW n \in Names, OnlyFilled, Ours(s, h, n)
  PROVE  Ours(s, h, n)'
<1>1. targets[s][n] # Null
  BY PathsAssumption DEF Ours, Copies
<1> QED BY <1>1 DEF OnlyFilled, Ours

\* A step of one subscription that removes nothing from the library.
LEMMA QuietLinks ==
  ASSUME NEW s \in Subjects, StateOK, LinkInv, OnlyFilled,
         \A o \in Subjects \ {s} : row'[o] = row[o] /\ attempt'[o] = attempt[o],
         attempt'[s] # Null => LinkFlow(s, attempt[s])',
         \A d \in DownloadsOf(row'[s]), n \in Names :
           row'[s].links[d.torrent][n] = "linked" /\ ~row'[s].pending => Ours(s, d.hash, n)'
  PROVE  LinkInv'
<1>1. ASSUME NEW o \in Subjects \ {s}, attempt'[o] # Null
      PROVE  LinkFlow(o, attempt[o])'
  <2>1. PICK a : a = attempt[o] /\ attempt'[o] = a /\ a # Null /\ LinkFlow(o, a)
    BY <1>1 DEF LinkInv
  <2>2. a.pc = "link" => /\ a.update.hash \in Hashes /\ DOMAIN a.actions \subseteq Names
                         /\ DOMAIN a.outcomes \subseteq Names
    BY <2>1, LinkingFacts DEF StateOK, SubjectOK, AttemptShape, LinkPcs
  <2>3. a.pc = "link" => \A n \in Names : Ours(o, a.update.hash, n) => Ours(o, a.update.hash, n)'
    BY <2>2, OursStays
  <2> QED BY <2>1, <2>2, <2>3 DEF LinkFlow, Ours
<1>2. ASSUME NEW o \in Subjects \ {s}, NEW d \in DownloadsOf(row[o])', NEW n \in Names,
             (row[o].links[d.torrent][n] = "linked" /\ ~row[o].pending)'
      PROVE  Ours(o, d.hash, n)'
  <2>1. row'[o] = row[o]
    OBVIOUS
  <2>2. d \in DownloadsOf(row[o])
    BY <1>2, <2>1 DEF DownloadsOf, Indices
  <2>3. d.hash \in Hashes
    BY <2>2 DEF StateOK, SubjectOK, RowOK
  <2>4. Ours(o, d.hash, n)
    BY <1>2, <2>1, <2>2 DEF LinkInv, LinkedIsOurs, Ours
  <2> QED BY <2>3, <2>4, OursStays
<1>3. LinkedIsOurs'
  <2> SUFFICES ASSUME NEW o \in Subjects, NEW d \in DownloadsOf(row[o])', NEW n \in Names,
                      (row[o].links[d.torrent][n] = "linked" /\ ~row[o].pending)'
               PROVE  Ours(o, d.hash, n)'
    BY DEF LinkedIsOurs, Ours
  <2>1. CASE o = s
    <3>1. d \in DownloadsOf(row'[s])
      BY <2>1 DEF DownloadsOf, Indices
    <3> QED BY <2>1, <3>1
  <2> QED BY <1>2, <2>1
<1> QED BY <1>1, <1>3 DEF LinkInv

LEMMA LinksStand ==
  ASSUME NEW s \in Subjects, StateOK, LinkInv, OnlyFilled, NEW d \in DownloadsOf(row[s]),
         NEW n \in Names, row[s].links[d.torrent][n] = "linked", ~row[s].pending
  PROVE  Ours(s, d.hash, n)'
<1>1. d.hash \in Hashes
  BY DEF StateOK, SubjectOK, RowOK
<1>2. Ours(s, d.hash, n)
  BY DEF LinkInv, LinkedIsOurs, Ours
<1> QED BY <1>1, <1>2, OursStays

\* Its attempt is not linking, its row stays.
LEMMA QuietLinkMove ==
  ASSUME NEW s \in Subjects, StateOK, LinkInv, OnlyFilled, UNCHANGED row,
         \A o \in Subjects \ {s} : attempt'[o] = attempt[o],
         attempt'[s] # Null => LinkFlow(s, attempt[s])'
  PROVE  LinkInv'
<1>1. \A d \in DownloadsOf(row'[s]), n \in Names :
        row'[s].links[d.torrent][n] = "linked" /\ ~row'[s].pending => Ours(s, d.hash, n)'
  BY LinksStand
<1> QED BY <1>1, QuietLinks

\* A download with linked files is the torrent it was.
SameTorrents(s, q) ==
  \A d \in DownloadsOf(q) :
    \/ \A n \in Names : q.links[d.torrent][n] = "none"
    \/ \E e \in DownloadsOf(row[s]) : d.torrent = e.torrent /\ d.hash = e.hash

LEMMA QuietLinkRow ==
  ASSUME NEW s \in Subjects, NEW q, StateOK, LinkInv, OnlyFilled,
         row' = [row EXCEPT ![s] = q], attempt'[s] = Null,
         \A o \in Subjects \ {s} : attempt'[o] = attempt[o],
         q.links = row[s].links, ~q.pending => ~row[s].pending, SameTorrents(s, q)
  PROVE  LinkInv'
<1>1. row'[s] = q /\ \A o \in Subjects \ {s} : row'[o] = row[o]
  BY DEF StateOK
<1>2. ASSUME NEW d \in DownloadsOf(q), NEW n \in Names,
             q.links[d.torrent][n] = "linked", ~q.pending
      PROVE  Ours(s, d.hash, n)'
  <2>1. PICK e \in DownloadsOf(row[s]) : d.torrent = e.torrent /\ d.hash = e.hash
    BY <1>2 DEF SameTorrents
  <2>2. Ours(s, e.hash, n)'
    BY <1>2, <2>1, LinksStand
  <2> QED BY <2>1, <2>2
<1> QED BY <1>1, <1>2, QuietLinks

\* What is learnt of a download does not change which torrent it is.
LEMMA LearnsKeepsLinks ==
  ASSUME NEW s \in Subjects, NEW q, NEW update \in AnyDownload, StateOK,
         Learns(row[s], q, update),
         \A e \in Recorded(row[s], update.torrent) : e.hash = update.hash
  PROVE  SameTorrents(s, q)
<1>1. row[s].downloads \in Seq(AnyDownload) /\ update.torrent \in Torrents
      /\ RowOK(kind[s], row[s])
  BY DEF StateOK, SubjectOK, Rows, AnyDownload
<1>2. \A d \in DownloadsOf(q) : d = update \/ d \in DownloadsOf(row[s])
  BY <1>1, MergedSet DEF Learns
<1>3. CASE Recorded(row[s], update.torrent) = {}
  <2>1. \A n \in Names : q.links[update.torrent][n] = "none"
    BY <1>1, <1>3 DEF RowOK, Learns
  <2> QED BY <1>2, <2>1 DEF SameTorrents
<1>4. CASE Recorded(row[s], update.torrent) # {}
  <2>1. PICK e \in DownloadsOf(row[s]) : e.torrent = update.torrent /\ e.hash = update.hash
    BY <1>4 DEF Recorded
  <2> QED BY <1>2, <2>1 DEF SameTorrents
<1> QED BY <1>3, <1>4

\* Two downloads that a row has of one torrent are one.
LEMMA OnePerTorrent ==
  ASSUME NEW s \in Subjects, StateOK, NEW d \in DownloadsOf(row[s]),
         NEW e \in DownloadsOf(row[s]), d.torrent = e.torrent
  PROVE  d = e
BY DEF StateOK, SubjectOK, RowOK, DownloadsOf, Indices, Rules!UniqueDownloads

LEMMA PushingKeepsLinks ==
  ASSUME NEW s \in Subjects, StateOK, StateOK', LinkInv, Pushing(s)
  PROVE  LinkInv'
<1>1. OnlyFilled
  BY DEF Pushing, Search, FetchTorrent, FetchFails, ListTagged, ListHashed, AddTorrent,
         VerifyAdded, CallFails, SettlePush, OnlyFilled, world
<1>2. ASSUME NEW a, GiveUpSearch(s) \/ row' = [row EXCEPT ![s] = Searched(row[s], a)],
             attempt'[s] = Null, \A o \in Subjects \ {s} : attempt'[o] = attempt[o]
      PROVE  LinkInv'
  <2>1. PICK b : row' = [row EXCEPT ![s] = Searched(row[s], b)]
    BY <1>2 DEF GiveUpSearch
  <2> DEFINE q == Searched(row[s], b)
  <2>2. /\ q.links = row[s].links /\ q.pending = row[s].pending
        /\ q.downloads = row[s].downloads
    BY DEF Searched, StateOK, Rows
  <2>3. row' = [row EXCEPT ![s] = q]
    BY <2>1
  <2> HIDE DEF q
  <2>4. DownloadsOf(q) = DownloadsOf(row[s])
    BY <2>2 DEF DownloadsOf, Indices
  <2>5. SameTorrents(s, q)
    BY <2>4 DEF SameTorrents
  <2> QED BY <1>1, <1>2, <2>2, <2>3, <2>5, QuietLinkRow
<1>3. ASSUME NEW pc, pc # "link", UNCHANGED row, attempt'[s].pc = pc,
             \A o \in Subjects \ {s} : attempt'[o] = attempt[o]
      PROVE  LinkInv'
  <2>1. LinkFlow(s, attempt[s])'
    BY <1>3 DEF LinkFlow
  <2> QED BY <1>1, <1>3, <2>1, QuietLinkMove
<1>4. CASE Search(s)
  <2>1. PICK a : /\ a.pc = "fetch"
                 /\ \/ row' = [row EXCEPT ![s] = Searched(row[s], a)] /\ UNCHANGED attempt
                    \/ attempt' = [attempt EXCEPT ![s] = a] /\ UNCHANGED row
    <3>1. PICK selection \in Selections(row[s]) :
            LET t == Selected(s, selection)
                a == [pc |-> "fetch", torrent |-> t, candidates |-> selection.candidates,
                      confirmed |-> selection.confirmed]
            IN  IF t = Null
                THEN /\ row' = [row EXCEPT ![s] = Searched(@, a)]
                     /\ UNCHANGED attempt
                ELSE /\ attempt' = [attempt EXCEPT ![s] = a]
                     /\ UNCHANGED row
      BY <1>4 DEF Search
    <3> QED BY <3>1
  <2>2. attempt[s] = Null /\ DOMAIN attempt = Subjects
    BY <1>4 DEF Search, Begin, StateOK
  <2>3. CASE row' = [row EXCEPT ![s] = Searched(row[s], a)] /\ UNCHANGED attempt
    BY <1>2, <2>2, <2>3
  <2>4. CASE attempt' = [attempt EXCEPT ![s] = a] /\ UNCHANGED row
    <3>1. attempt'[s].pc = "fetch" /\ \A o \in Subjects \ {s} : attempt'[o] = attempt[o]
      BY <2>1, <2>2, <2>4
    <3> QED BY <1>3, <2>4, <3>1
  <2> QED BY <2>1, <2>3, <2>4
<1>5. CASE FetchTorrent(s) \/ FetchFails(s)
  <2>1. CASE GiveUpSearch(s)
    <3>1. attempt'[s] = Null /\ \A o \in Subjects \ {s} : attempt'[o] = attempt[o]
      BY <2>1 DEF GiveUpSearch, StateOK
    <3> QED BY <1>2, <2>1, <3>1
  <2>2. CASE ~GiveUpSearch(s)
    <3>1. PICK h : Continue(s, "tag", [hash |-> h]) /\ UNCHANGED row /\ attempt[s] # Null
      BY <1>5, <2>2 DEF FetchTorrent, FetchFails, At
    <3>2. attempt'[s].pc = "tag" /\ \A o \in Subjects \ {s} : attempt'[o] = attempt[o]
      BY <3>1, MovesOn
    <3> QED BY <1>3, <3>1, <3>2
  <2> QED BY <2>1, <2>2
<1>6. CASE ListTagged(s) \/ ListHashed(s) \/ AddTorrent(s) \/ VerifyAdded(s) \/ CallFails(s)
  <2>1. UNCHANGED row /\ attempt[s] # Null /\ attempt[s].pc \in PushPcs
    BY <1>6 DEF ListTagged, ListHashed, AddTorrent, VerifyAdded, CallFails, At, PushPcs
  <2>2. PICK pc, more :
          pc \in PushPcs /\ Continue(s, pc, more) /\ "pc" \notin DOMAIN more
    <3> DEFINE settled(value) == [pushed |-> value]
    <3>1. DOMAIN <<>> = {} /\ \A value : "pc" \notin DOMAIN settled(value)
      OBVIOUS
    <3>2. CASE ListTagged(s)
      BY <3>2 DEF ListTagged, PushPcs
    <3>3. CASE AddTorrent(s) \/ VerifyAdded(s) \/ CallFails(s)
      <4>1. \/ Continue(s, "verify", <<>>)
            \/ \E value : Continue(s, "settle", settled(value))
        BY <3>3 DEF AddTorrent, VerifyAdded, CallFails
      <4> HIDE DEF settled
      <4> QED BY <3>1, <4>1 DEF PushPcs
    <3>4. CASE ListHashed(s)
      <4>1. \/ Continue(s, "add", <<>>)
            \/ \E value : Continue(s, "settle", settled(value))
        BY <3>4, Zenon DEF ListHashed
      <4> HIDE DEF settled
      <4> QED BY <3>1, <4>1 DEF PushPcs
    <3> QED BY <1>6, <3>2, <3>3, <3>4
  <2>3. attempt'[s].pc = pc /\ \A o \in Subjects \ {s} : attempt'[o] = attempt[o]
    BY <2>1, <2>2, MovesOn
  <2> QED BY <1>3, <2>1, <2>2, <2>3 DEF PushPcs
<1>7. CASE SettlePush(s)
  <2>1. PICK q, update :
          /\ row' = [row EXCEPT ![s] = q] /\ Learns(row[s], q, update)
          /\ update \in AnyDownload /\ update.torrent = attempt[s].torrent
          /\ update.hash = attempt[s].hash
    BY <1>7, SettlePushChanges
  <2>2. \A e \in Recorded(row[s], update.torrent) : e.hash = update.hash
    BY <1>7, <2>1 DEF SettlePush, At, StateOK, SubjectOK, AttemptFits, PushPcs
  <2>3. attempt'[s] = Null /\ \A o \in Subjects \ {s} : attempt'[o] = attempt[o]
    BY <1>7 DEF SettlePush, StateOK
  <2>4. SameTorrents(s, q)
    BY <2>1, <2>2, LearnsKeepsLinks
  <2>5. /\ q.links = row[s].links /\ (~q.pending => ~row[s].pending)
        /\ row' = [row EXCEPT ![s] = q]
    BY <2>1 DEF Learns
  <2> QED BY <1>1, <2>3, <2>4, <2>5, QuietLinkRow
<1> QED BY <1>4, <1>5, <1>6, <1>7 DEF Pushing

\* A link that is probed or made is one to the file it was planned for.
LEMMA ProbedIsOurs ==
  ASSUME NEW source, NEW target, NEW persisted,
         Files!ProbedAction(source, target, persisted) \in {"skip", "accept"}
  PROVE  source # Null /\ target = source
BY DEF Files!ProbedAction, Files!PlannedAction, Files!Identity, Files!Unprobeable

LEMMA LinkedIsSource ==
  ASSUME NEW expected, NEW source, NEW target,
         Files!LinkedOutcome(expected, source, target) = "linked"
  PROVE  /\ source # Null /\ Files!LinkedTarget(expected, source, target) = source
BY DEF Files!LinkedOutcome, Files!LinkedTarget

LEMMA UntouchedIsKept ==
  ASSUME NEW action, Files!Untouched(action) = "linked"
  PROVE  action \in {"skip", "accept"}
BY DEF Files!Untouched

\* One file is linked where nothing is, and nowhere else.
LEMMA LinkedOneFills ==
  ASSUME NEW s \in Subjects, NEW n, StateOK, LinkedOne(s, n)
  PROVE  OnlyFilled
<1> DEFINE a == attempt[s]
           source == SourceAt(a.update.hash, n)
           new == IF a.actions[n] = "create"
                  THEN Files!LinkedTarget(a.expected[n], source, targets[s][n]) ELSE targets[s][n]
<1>1. targets' = [targets EXCEPT ![s][n] = new] /\ n \in Names
  BY DEF LinkedOne
<1>2. new = targets[s][n] \/ targets[s][n] = Null
  BY DEF Files!LinkedTarget
<1> HIDE DEF new
<1>3. targets \in [Subjects -> [Names -> Files!Occupants]]
  BY DEF StateOK, WorldOK
<1> QED BY <1>1, <1>2, <1>3 DEF OnlyFilled

LEMMA LinkingKeepsLinks ==
  ASSUME NEW s \in Subjects, StateOK, LinkInv, Linking(s)
  PROVE  LinkInv'
<1>0. WorldOK
  BY DEF StateOK
<1>1. ASSUME LinkFile(s) PROVE LinkInv'
  <2>1. PICK n : LinkedOne(s, n)
    BY <1>1, LinkFileKeepsState
  <2>2. OnlyFilled
    BY <2>1, LinkedOneFills
  <2>3. /\ attempt[s] # Null /\ attempt[s].pc = "link" /\ UNCHANGED <<row, sources>>
        /\ \A o \in Subjects \ {s} : attempt'[o] = attempt[o]
    BY <1>1, LinkFileKeepsState DEF LinkFile, At
  <2>4. PICK a : a = attempt[s] /\ LinkFlow(s, a)
    BY <2>3 DEF LinkInv
  <2>5. /\ a.update.hash \in Hashes /\ DOMAIN a.actions \subseteq Names
        /\ DOMAIN a.outcomes \subseteq Names
    BY <2>3, <2>4, LinkingFacts DEF StateOK, SubjectOK, AttemptShape, LinkPcs
  <2>6. PICK h \in Hashes : h = a.update.hash
    BY <2>5
  <2>7. \A m \in Names : Ours(s, h, m) => Ours(s, h, m)'
    BY <2>2, OursStays
  <2> DEFINE source == SourceAt(h, n)
             outcome == IF a.actions[n] = "create"
                        THEN Files!LinkedOutcome(a.expected[n], source, targets[s][n])
                        ELSE Files!Untouched(a.actions[n])
             new == IF a.actions[n] = "create"
                    THEN Files!LinkedTarget(a.expected[n], source, targets[s][n])
                    ELSE targets[s][n]
  <2>8. /\ n \in DOMAIN a.actions /\ n \in Names
        /\ attempt'[s].pc = "link" /\ attempt'[s].update = a.update
        /\ attempt'[s].actions = a.actions
        /\ DOMAIN attempt'[s].outcomes = DOMAIN a.outcomes \cup {n}
        /\ \A m \in DOMAIN a.outcomes \ {n} : attempt'[s].outcomes[m] = a.outcomes[m]
        /\ attempt'[s].outcomes[n] = outcome
        /\ targets' = [targets EXCEPT ![s][n] = new]
    BY <2>1, <2>4, <2>6 DEF LinkedOne
  <2>9. outcome = "linked" => Ours(s, h, n)'
    <3>1. CASE a.actions[n] = "create"
      <4> SUFFICES ASSUME outcome = "linked" PROVE Ours(s, h, n)'
        OBVIOUS
      <4>1. source # Null /\ new = source
        BY <3>1, LinkedIsSource
      <4>2. targets'[s][n] = source
        <5>1. targets \in [Subjects -> [Names -> Files!Occupants]]
          BY <1>0 DEF WorldOK
        <5> HIDE DEF new, source
        <5> QED BY <2>8, <4>1, <5>1
      <4>3. source \in {<<h, n, c>> : c \in 1 .. MaxCopies}
        BY <1>0, <2>8, <4>1 DEF WorldOK, SourceAt
      <4> HIDE DEF source
      <4> QED BY <4>2, <4>3 DEF Ours
    <3>2. CASE a.actions[n] # "create"
      <4>1. outcome = "linked" => a.actions[n] \in {"skip", "accept"}
        BY <3>2, UntouchedIsKept
      <4> QED BY <2>3, <2>4, <2>6, <2>7, <2>8, <4>1 DEF LinkFlow
    <3> QED BY <3>1, <3>2
  <2> HIDE DEF outcome, new, source
  <2>10. ASSUME NEW m \in DOMAIN a.actions, a.actions[m] \in {"skip", "accept"}
         PROVE  Ours(s, h, m)'
    BY <2>3, <2>4, <2>5, <2>6, <2>7, <2>10 DEF LinkFlow
  <2>11. ASSUME NEW m \in DOMAIN a.outcomes \cup {n}, attempt'[s].outcomes[m] = "linked"
         PROVE  Ours(s, h, m)'
    <3>1. CASE m = n
      BY <2>8, <2>9, <2>11, <3>1
    <3>2. CASE m # n
      BY <2>3, <2>4, <2>5, <2>6, <2>7, <2>8, <2>11, <3>2 DEF LinkFlow
    <3> QED BY <3>1, <3>2
  <2>12. LinkFlow(s, attempt[s])'
    BY <2>6, <2>8, <2>10, <2>11 DEF LinkFlow, Ours
  <2> QED BY <2>2, <2>3, <2>12, QuietLinkMove
<1>2. ASSUME ~LinkFile(s) PROVE OnlyFilled
  BY <1>2 DEF Linking, Progress, Link, LinkGivenUp, Probe, SettleLink, OnlyFilled, world
<1>3. ASSUME Probe(s), ~LinkFile(s) PROVE LinkInv'
  <2>1. attempt[s] # Null /\ attempt[s].pc \in LinkPcs /\ UNCHANGED <<row, targets>>
    BY <1>3 DEF Probe, At, LinkPcs, world
  <2>2. PICK h \in Hashes, files \in SUBSET Names :
          h = attempt[s].update.hash /\ files = attempt[s].update.files
    BY <2>1, LinkingFacts
  <2>3. /\ attempt'[s].pc = "link" /\ attempt'[s].update.hash = h
        /\ DOMAIN attempt'[s].actions = files /\ DOMAIN attempt'[s].outcomes = {}
        /\ \A o \in Subjects \ {s} : attempt'[o] = attempt[o]
    BY <1>3, <2>2, ProbeKeepsState
  <2>4. \A n \in files : \E persisted :
          attempt'[s].actions[n] = Files!ProbedAction(SourceAt(h, n), targets[s][n], persisted)
    BY <1>3, <2>2, ProbeKeepsState
  <2>5. ASSUME NEW n \in files, attempt'[s].actions[n] \in {"skip", "accept"}
        PROVE  Ours(s, h, n)'
    <3>1. SourceAt(h, n) # Null /\ targets[s][n] = SourceAt(h, n)
      BY <2>4, <2>5, ProbedIsOurs
    <3>2. Ours(s, h, n)
      BY <1>0, <3>1, SourceIsOurs
    <3> QED BY <2>1, <3>2 DEF Ours
  <2>6. LinkFlow(s, attempt[s])'
    BY <2>3, <2>5 DEF LinkFlow, Ours
  <2> QED BY <1>2, <1>3, <2>1, <2>3, <2>6, QuietLinkMove
<1>4. ASSUME NEW q, NEW update \in AnyDownload, OnlyFilled, row' = [row EXCEPT ![s] = q],
             Learns(row[s], q, update), attempt'[s] = Null,
             \A o \in Subjects \ {s} : attempt'[o] = attempt[o],
             \E e \in DownloadsOf(row[s]) : update.torrent = e.torrent /\ update.hash = e.hash
      PROVE  LinkInv'
  <2>1. \A e \in Recorded(row[s], update.torrent) : e.hash = update.hash
    BY <1>4, OnePerTorrent DEF Recorded
  <2>2. SameTorrents(s, q)
    BY <1>4, <2>1, LearnsKeepsLinks
  <2>3. q.links = row[s].links /\ (~q.pending => ~row[s].pending)
    BY <1>4 DEF Learns
  <2> QED BY <1>4, <2>2, <2>3, QuietLinkRow
<1>5. ASSUME Progress(s), ~LinkFile(s) PROVE LinkInv'
  <2>1. attempt[s] = Null /\ UNCHANGED attempt /\ CurrentDownload(row[s]) # Null
    BY <1>5 DEF Progress, Begin
  <2>2. CASE row' = row
    BY <1>2, <1>5, <2>1, <2>2, QuietLinkMove
  <2>3. CASE row' # row
    <3>1. CurrentDownload(row[s]) \in DownloadsOf(row[s])
      BY <2>1, CurrentFacts
    <3>2. PICK q, update :
            /\ row' = [row EXCEPT ![s] = q] /\ Learns(row[s], q, update)
            /\ update \in AnyDownload /\ update.torrent = CurrentDownload(row[s]).torrent
            /\ update.hash = CurrentDownload(row[s]).hash
      BY <1>5, <2>3, ProgressChanges
    <3> QED BY <1>2, <1>4, <1>5, <2>1, <3>1, <3>2
  <2> QED BY <2>2, <2>3
<1>6. ASSUME Link(s), ~LinkFile(s) PROVE LinkInv'
  <2>1. attempt[s] = Null /\ CurrentDownload(row[s]) \in DownloadsOf(row[s])
        /\ DOMAIN attempt = Subjects
    BY <1>6, CurrentFacts DEF Link, Begin, StateOK
  <2>2. PICK update \in AnyDownload :
          /\ update.torrent = CurrentDownload(row[s]).torrent
          /\ update.hash = CurrentDownload(row[s]).hash
          /\ \/ /\ attempt' = [attempt EXCEPT ![s] = [pc |-> "probe", update |-> update]]
                /\ UNCHANGED row
             \/ /\ UNCHANGED attempt
                /\ \E q : row' = [row EXCEPT ![s] = q] /\ Learns(row[s], q, update)
    BY <1>6, LinkChanges
  <2>3. CASE attempt' = [attempt EXCEPT ![s] = [pc |-> "probe", update |-> update]] /\ UNCHANGED row
    <3>1. attempt'[s].pc = "probe" /\ \A o \in Subjects \ {s} : attempt'[o] = attempt[o]
      BY <2>1, <2>3
    <3>2. LinkFlow(s, attempt[s])'
      BY <3>1 DEF LinkFlow
    <3> QED BY <1>2, <1>6, <2>3, <3>1, <3>2, QuietLinkMove
  <2>4. CASE /\ UNCHANGED attempt
             /\ \E q : row' = [row EXCEPT ![s] = q] /\ Learns(row[s], q, update)
    BY <1>2, <1>4, <1>6, <2>1, <2>2, <2>4
  <2> QED BY <2>2, <2>3, <2>4
<1>7. ASSUME LinkGivenUp(s), ~LinkFile(s) PROVE LinkInv'
  <2>1. attempt[s] # Null /\ attempt[s].pc \in LinkPcs
    BY <1>7 DEF LinkGivenUp, At, LinkPcs
  <2>2. PICK update \in AnyDownload : update = attempt[s].update /\
          \E e \in DownloadsOf(row[s]) : update.torrent = e.torrent /\ update.hash = e.hash
    BY <2>1, LinkingFacts DEF Recorded
  <2>3. PICK q : row' = [row EXCEPT ![s] = q] /\ Learns(row[s], q, update)
    BY <1>7, <2>2, LinkGivenUpChanges
  <2>4. attempt'[s] = Null /\ \A o \in Subjects \ {s} : attempt'[o] = attempt[o]
    BY <1>7 DEF LinkGivenUp, StateOK
  <2> QED BY <1>2, <1>4, <1>7, <2>2, <2>3, <2>4
<1>8. ASSUME SettleLink(s), ~LinkFile(s) PROVE LinkInv'
  <2>1. attempt[s] # Null /\ attempt[s].pc = "link" /\ UNCHANGED targets
    BY <1>8 DEF SettleLink, EveryFileTried, At, world
  <2>2. PICK a : a = attempt[s] /\ LinkFlow(s, a)
    BY <2>1 DEF LinkInv
  <2>3. PICK update \in AnyDownload : update = a.update /\ update.hash \in Hashes
    BY <2>1, <2>2, LinkingFacts DEF LinkPcs
  <2>4. /\ \A o \in Subjects \ {s} : attempt'[o] = attempt[o] /\ row'[o] = row[o]
        /\ attempt'[s] = Null /\ row'[s].pending = row[s].pending
        /\ row'[s].downloads = MergedDownload(row[s].downloads, update)
        /\ row'[s].links = LinksAfter(row[s], update.torrent, a.outcomes)
    BY <1>8, <2>2, <2>3, SettleLinkKeepsState
  <2>5. row[s].downloads \in Seq(AnyDownload) /\ update.torrent \in Torrents
        /\ row[s].links \in [Torrents -> [Names -> Files!Outcomes \cup {"none"}]]
    BY DEF StateOK, Rows, AnyDownload
  <2>6. \A d : d \in DownloadsOf(row'[s]) <=>
                 d = update \/ (d \in DownloadsOf(row[s]) /\ d.torrent # update.torrent)
    BY <2>4, <2>5, MergedSet
  <2>7. ASSUME NEW d \in DownloadsOf(row'[s]), NEW n \in Names,
               row'[s].links[d.torrent][n] = "linked", ~row'[s].pending
        PROVE  Ours(s, d.hash, n)'
    <3>1. CASE d = update
      <4>1. n \in DOMAIN a.outcomes /\ a.outcomes[n] = "linked"
        BY <2>4, <2>5, <2>7, <3>1 DEF LinksAfter
      <4>2. Ours(s, d.hash, n)
        BY <2>1, <2>2, <2>3, <3>1, <4>1 DEF LinkFlow
      <4> QED BY <2>1, <4>2 DEF Ours
    <3>2. CASE d \in DownloadsOf(row[s]) /\ d.torrent # update.torrent
      <4>1. d \in AnyDownload
        BY <2>5, <3>2, RecordedIsTyped
      <4>2. d.torrent \in Torrents
        BY <4>1 DEF AnyDownload
      <4>3. row[s].links[d.torrent][n] = "linked" /\ ~row[s].pending
        BY <2>4, <2>5, <2>7, <3>2, <4>2 DEF LinksAfter
      <4> QED BY <1>2, <1>8, <3>2, <4>3, LinksStand
    <3> QED BY <2>6, <3>1, <3>2
  <2> QED BY <1>2, <1>8, <2>4, <2>7, QuietLinks
<1> QED BY <1>1, <1>3, <1>5, <1>6, <1>7, <1>8 DEF Linking

\* A path is only cleared in a replacement, whose row vouches for no link any more.
LEMMA ReplacingKeepsLinks ==
  ASSUME NEW s \in Subjects, StateOK, LinkInv, Replacing(s)
  PROVE  LinkInv'
<1>1. ASSUME RemoveLink(s) PROVE LinkInv'
  <2>1. /\ UNCHANGED row /\ attempt[s] # Null /\ attempt[s].pc \in CleanPcs
        /\ attempt'[s].pc = "remove"
        /\ \A o \in Subjects \ {s} : attempt'[o] = attempt[o]
    BY <1>1, RemoveLinkKeepsState DEF RemoveLink, At, CleanPcs
  <2>2. row[s].pending
    BY <2>1, CleaningFacts
  <2>3. \A o \in Subjects \ {s} : targets'[o] = targets[o]
    BY <1>1, RemoveLinkKeepsState DEF StateOK, WorldOK
  <2>4. ASSUME NEW o \in Subjects, attempt'[o] # Null PROVE LinkFlow(o, attempt[o])'
    <3>1. CASE o = s
      BY <2>1, <3>1 DEF LinkFlow
    <3>2. CASE o # s
      BY <2>1, <2>3, <2>4, <3>2 DEF LinkInv, LinkFlow, Ours
    <3> QED BY <3>1, <3>2
  <2>5. LinkedIsOurs'
    BY <2>1, <2>2, <2>3 DEF LinkInv, LinkedIsOurs
  <2> QED BY <2>4, <2>5 DEF LinkInv
<1>2. ASSUME ~RemoveLink(s) PROVE OnlyFilled
  BY <1>2 DEF Replacing, Replace, VerifyLinks, DeleteTorrent, TorrentGone, SettleReplacement,
          OnlyFilled, world
<1>3. ASSUME Replace(s), ~RemoveLink(s) PROVE LinkInv'
  <2>1. attempt[s] = Null /\ DOMAIN attempt = Subjects /\ row[s].pending
    BY <1>3 DEF Replace, Begin, StateOK
  <2>2. \/ \E a : a.pc = "unlink" /\ attempt' = [attempt EXCEPT ![s] = a] /\ UNCHANGED row
        \/ UNCHANGED attempt /\ \E q : row' = [row EXCEPT ![s] = q] /\ q.pending
    BY <1>3, ReplaceChanges
  <2>3. CASE \E a : a.pc = "unlink" /\ attempt' = [attempt EXCEPT ![s] = a] /\ UNCHANGED row
    <3>1. attempt'[s].pc = "unlink" /\ \A o \in Subjects \ {s} : attempt'[o] = attempt[o]
      BY <2>1, <2>3
    <3>2. LinkFlow(s, attempt[s])'
      BY <3>1 DEF LinkFlow
    <3> QED BY <1>2, <1>3, <2>3, <3>1, <3>2, QuietLinkMove
  <2>4. CASE UNCHANGED attempt /\ \E q : row' = [row EXCEPT ![s] = q] /\ q.pending
    <3>1. row'[s].pending /\ \A o \in Subjects \ {s} : row'[o] = row[o]
      BY <2>4 DEF StateOK
    <3> QED BY <1>2, <1>3, <2>1, <2>4, <3>1, QuietLinks
  <2> QED BY <2>2, <2>3, <2>4
<1>4. ASSUME VerifyLinks(s) \/ DeleteTorrent(s) \/ TorrentGone(s), ~RemoveLink(s) PROVE LinkInv'
  <2>1. UNCHANGED row
    BY <1>4 DEF VerifyLinks, DeleteTorrent, TorrentGone
  <2>2. /\ \A o \in Subjects \ {s} : attempt'[o] = attempt[o]
        /\ attempt'[s] # Null => attempt'[s].pc \in CleanPcs
    BY <1>4, VerifyLinksKeepsState, DeleteTorrentKeepsState, TorrentGoneKeepsState DEF CleanPcs
  <2>3. attempt'[s] # Null => LinkFlow(s, attempt[s])'
    BY <2>2 DEF LinkFlow, CleanPcs
  <2> QED BY <1>2, <1>4, <2>1, <2>2, <2>3, QuietLinkMove
<1>5. ASSUME SettleReplacement(s), ~RemoveLink(s) PROVE LinkInv'
  <2>1. attempt'[s] = Null /\ \A o \in Subjects \ {s} : attempt'[o] = attempt[o]
    BY <1>5 DEF SettleReplacement, StateOK
  <2>2. CASE row' = row
    BY <1>2, <1>5, <2>1, <2>2, QuietLinkMove
  <2>3. CASE row' # row
    <3>1. PICK q : row' = [row EXCEPT ![s] = q] /\ DownloadsOf(q) = {}
      BY <1>5, <2>3, SettleReplacementChanges
    <3>2. DownloadsOf(row'[s]) = {} /\ \A o \in Subjects \ {s} : row'[o] = row[o]
      BY <3>1 DEF StateOK
    <3> QED BY <1>2, <1>5, <2>1, <3>2, QuietLinks
  <2> QED BY <2>2, <2>3
<1> QED BY <1>1, <1>3, <1>4, <1>5 DEF Replacing

LEMMA CommandsKeepLinks ==
  ASSUME NEW s \in Subjects, StateOK, LinkInv, Commands(s)
  PROVE  LinkInv'
<1>1. UNCHANGED <<attempt, targets>> /\ attempt[s] = Null
  BY CommandsChange DEF world
<1>2. PICK q : /\ row' = [row EXCEPT ![s] = q] /\ q.links = row[s].links
               /\ \A d \in DownloadsOf(q) : \E e \in DownloadsOf(row[s]) :
                    d.torrent = e.torrent /\ d.hash = e.hash
               /\ row[s].pending => q.pending
  BY CommandsChange
<1>3. SameTorrents(s, q)
  BY <1>2 DEF SameTorrents
<1>4. OnlyFilled
  BY <1>1 DEF OnlyFilled
<1>5. /\ row' = [row EXCEPT ![s] = q] /\ q.links = row[s].links /\ (~q.pending => ~row[s].pending)
  BY <1>2
<1> QED BY <1>1, <1>3, <1>4, <1>5, QuietLinkRow

LEMMA WorldKeepsLinks ==
  ASSUME StateOK, LinkInv, World
  PROVE  LinkInv'
<1>1. /\ UNCHANGED row
      /\ \A s \in Subjects : attempt'[s] \in {attempt[s], Null}
  BY WorldKeepsState
<1>2. OnlyFilled
  <2>1. CASE UserFillsTarget
    BY <2>1 DEF UserFillsTarget, OnlyFilled, StateOK, WorldOK
  <2>2. CASE ~UserFillsTarget
    BY <2>2 DEF World, QbLists, QbCompletes, QbForgets, QbErases, Republish, UserRemovesTorrent,
           UserAddsTorrent, UserRechecks, AttemptsLost, world, OnlyFilled
  <2> QED BY <2>1, <2>2
<1>3. ASSUME NEW o \in Subjects, attempt'[o] # Null PROVE LinkFlow(o, attempt[o])'
  <2>1. PICK a : a = attempt[o] /\ attempt'[o] = a /\ a # Null /\ LinkFlow(o, a)
    BY <1>1, <1>3 DEF LinkInv
  <2>2. a.pc = "link" => /\ a.update.hash \in Hashes /\ DOMAIN a.actions \subseteq Names
                         /\ DOMAIN a.outcomes \subseteq Names
    BY <2>1, LinkingFacts DEF StateOK, SubjectOK, AttemptShape, LinkPcs
  <2>3. a.pc = "link" => \A n \in Names : Ours(o, a.update.hash, n) => Ours(o, a.update.hash, n)'
    BY <1>2, <2>2, OursStays
  <2> QED BY <2>1, <2>2, <2>3 DEF LinkFlow, Ours
<1>4. ASSUME NEW s \in Subjects, NEW d \in DownloadsOf(row[s]), NEW n \in Names,
             row[s].links[d.torrent][n] = "linked", ~row[s].pending
      PROVE  Ours(s, d.hash, n)'
  BY <1>2, <1>4, LinksStand
<1>5. LinkedIsOurs'
  BY <1>1, <1>4 DEF LinkedIsOurs, Ours, DownloadsOf, Indices
<1> QED BY <1>3, <1>5 DEF LinkInv

LEMMA LinkInit == Init => LinkInv
BY DEF Init, NewRow, LinkInv, LinkedIsOurs, DownloadsOf, Indices

LEMMA LinkStep == StateOK /\ LinkInv /\ [Next]_vars => LinkInv'
<1> SUFFICES ASSUME StateOK, LinkInv, [Next]_vars PROVE LinkInv'
  OBVIOUS
<1>0. StateOK'
  BY StateStep
<1>1. CASE UNCHANGED vars
  BY <1>1 DEF vars, LinkInv, LinkedIsOurs, LinkFlow, Ours, DownloadsOf, Indices
<1>2. CASE World
  BY <1>2, WorldKeepsLinks
<1>3. ASSUME NEW s \in Subjects, Pushing(s) PROVE LinkInv'
  BY <1>0, <1>3, PushingKeepsLinks
<1> QED BY <1>1, <1>2, <1>3, LinkingKeepsLinks, ReplacingKeepsLinks, CommandsKeepLinks DEF Next

\* What a journal calls linked is the program's own hard link to a file of that torrent:
\* a source replaced since the probe, a path taken meanwhile or a torrent added anew does
\* not make somebody else's file pass for it.
THEOREM LinkedStaysOurs == Spec => []LinkedIsOurs
<1>1. LinkInv => LinkedIsOurs
  BY DEF LinkInv
<1> QED BY <1>1, StateInit, StateStep, LinkInit, LinkStep, PTL DEF Spec

-----------------------------------------------------------------------------
(* A completed series.                                                      *)

\* What counts as linked depends on the journal and the season alone.
LEMMA SameEpisodes ==
  ASSUME NEW r, NEW q, q.links = r.links, q.tv = r.tv
  PROVE  \A episode : LinkedEpisode(q, episode) <=> LinkedEpisode(r, episode)
BY DEF LinkedEpisode

\* The search for an uncovered episode finds none only where there is none.
LEMMA AllLinked ==
  ASSUME NEW r, r.tv.last \in Nat, FirstUncovered(r) = Null
  PROVE  \A episode \in 1 .. r.tv.last : LinkedEpisode(r, episode)
<1> DEFINE missing == {e \in 1 .. r.tv.last : ~LinkedEpisode(r, e)}
<1>1. SUFFICES ASSUME missing # {} PROVE FALSE
  OBVIOUS
<1>2. missing \subseteq Nat
  OBVIOUS
<1>3. FirstUncovered(r) = CHOOSE e \in missing : \A f \in missing : e <= f
  BY <1>1 DEF FirstUncovered
<1> HIDE DEF missing
<1>4. \E e \in missing : \A f \in missing : e <= f
  BY <1>1, <1>2, LeastOf
<1>5. FirstUncovered(r) \in missing
  BY <1>3, <1>4
<1> QED BY <1>2, <1>5, PathsAssumption

CompletedRow(k, r) ==
  r.stage = "completed" /\ k # "movie" => \A e \in 1 .. r.tv.last : LinkedEpisode(r, e)

\* Every step but the settlement of links leaves completed what was completed with the
\* same journal, and completes nothing.
LEMMA StaysCovered ==
  ASSUME NEW s \in Subjects, NEW q, StateOK, CompletedInv, kind' = kind,
         row' = [row EXCEPT ![s] = q],
         q.stage = "completed" => /\ row[s].stage = "completed" /\ q.links = row[s].links
                                  /\ q.tv = row[s].tv
  PROVE  CompletedInv'
<1>1. row'[s] = q /\ \A o \in Subjects \ {s} : row'[o] = row[o]
  BY DEF StateOK
<1>2. CompletedRow(kind[s], q)
  <2> SUFFICES ASSUME q.stage = "completed", kind[s] # "movie", NEW e \in 1 .. q.tv.last
               PROVE  LinkedEpisode(q, e)
    BY DEF CompletedRow
  <2>1. LinkedEpisode(row[s], e)
    BY DEF CompletedInv
  <2> QED BY <2>1, SameEpisodes
<1>3. \A o \in Subjects : CompletedRow(kind'[o], row'[o])
  BY <1>1, <1>2 DEF CompletedInv, CompletedRow
<1> QED BY <1>3 DEF CompletedInv, CompletedRow, LinkedEpisode

LEMMA CompletedStep == StateOK /\ CompletedInv /\ [Next]_vars => CompletedInv'
<1> SUFFICES ASSUME StateOK, CompletedInv, [Next]_vars PROVE CompletedInv'
  OBVIOUS
<1>0. ASSUME UNCHANGED <<kind, row>> PROVE CompletedInv'
  BY <1>0 DEF CompletedInv, LinkedEpisode
<1>1. CASE UNCHANGED vars
  BY <1>0, <1>1 DEF vars
<1>2. CASE World
  BY <1>0, <1>2, WorldKeepsState
<1>3. ASSUME NEW s \in Subjects, Pushing(s) PROVE CompletedInv'
  <2>1. UNCHANGED kind
    BY <1>3 DEF Pushing, Search, FetchTorrent, FetchFails, ListTagged, ListHashed, AddTorrent,
           VerifyAdded, CallFails, SettlePush
  <2>2. ASSUME NEW a, row' = [row EXCEPT ![s] = Searched(row[s], a)] PROVE CompletedInv'
    <3> DEFINE q == Searched(row[s], a)
    <3>1. q.stage = row[s].stage /\ q.links = row[s].links /\ q.tv = row[s].tv
      BY DEF Searched, StateOK, Rows
    <3>2. row' = [row EXCEPT ![s] = q]
      BY <2>2
    <3> HIDE DEF q
    <3> QED BY <2>1, <3>1, <3>2, StaysCovered
  <2>3. CASE Search(s)
    <3>1. (\E a : row' = [row EXCEPT ![s] = Searched(row[s], a)]) \/ UNCHANGED row
      BY <2>3 DEF Search
    <3> QED BY <1>0, <2>1, <2>2, <3>1
  <2>4. CASE SettlePush(s)
    <3>1. PICK q : /\ row' = [row EXCEPT ![s] = q]
                   /\ q.stage = IF attempt[s].pushed THEN "downloading" ELSE "searching"
      BY <2>4, SettlePushChanges
    <3>2. q.stage # "completed"
      BY <3>1
    <3> QED BY <2>1, <3>1, <3>2, StaysCovered
  <2>5. CASE ~Search(s) /\ ~SettlePush(s)
    <3>1. (\E a : row' = [row EXCEPT ![s] = Searched(row[s], a)]) \/ UNCHANGED row
      BY <1>3, <2>5 DEF Pushing, FetchTorrent, FetchFails, GiveUpSearch, ListTagged, ListHashed,
             AddTorrent, VerifyAdded, CallFails
    <3> QED BY <1>0, <2>1, <2>2, <3>1
  <2> QED BY <2>3, <2>4, <2>5
<1>4. ASSUME NEW s \in Subjects, Linking(s) PROVE CompletedInv'
  <2>1. UNCHANGED kind
    BY <1>4 DEF Linking, Progress, Link, LinkGivenUp, Probe, LinkFile, SettleLink
  <2>2. CASE Progress(s)
    <3>1. row' # row => \E q : /\ row' = [row EXCEPT ![s] = q]
                               /\ q.stage \in {"linking", "downloading"}
      BY <2>2, ProgressChanges
    <3> QED BY <1>0, <2>1, <3>1, StaysCovered
  <2>3. CASE Link(s)
    <3>1. UNCHANGED row \/ \E q : /\ row' = [row EXCEPT ![s] = q]
                                  /\ q.stage \in {"searching", "downloading"}
      BY <2>3, LinkChanges
    <3> QED BY <1>0, <2>1, <3>1, StaysCovered
  <2>4. CASE LinkGivenUp(s)
    <3>1. PICK q : row' = [row EXCEPT ![s] = q] /\ q.stage = row[s].stage
      BY <2>4, LinkGivenUpChanges
    <3>2. q.stage # "completed"
      BY <2>4, <3>1, LinkingFacts DEF LinkGivenUp, At, LinkPcs
    <3> QED BY <2>1, <3>1, <3>2, StaysCovered
  <2>5. CASE Probe(s) \/ LinkFile(s)
    BY <1>0, <2>1, <2>5 DEF Probe, LinkFile
  <2>6. CASE SettleLink(s)
    <3>1. /\ StateOK' /\ \A o \in Subjects \ {s} : row'[o] = row[o]
          /\ row'[s].stage = "completed" => CompleteAfter([row'[s] EXCEPT !.stage = row[s].stage])
      BY <2>6, SettleLinkKeepsState
    <3>2. row'[s] \in Rows /\ RowOK(kind[s], row'[s])
      BY <2>1, <3>1 DEF StateOK, SubjectOK, RowOK
    <3>3. CompletedRow(kind[s], row'[s])
      <4> SUFFICES ASSUME row'[s].stage = "completed", kind[s] # "movie"
                   PROVE  \A e \in 1 .. row'[s].tv.last : LinkedEpisode(row'[s], e)
        BY DEF CompletedRow
      <4> DEFINE r == [row'[s] EXCEPT !.stage = row[s].stage]
      <4>1. r.links = row'[s].links /\ r.tv = row'[s].tv
        BY <3>2 DEF Rows
      <4>2. row'[s].tv # Null /\ row'[s].tv.last \in Nat
        BY <3>2 DEF RowOK, Rows
      <4>3. CompleteAfter(r)
        BY <3>1
      <4> HIDE DEF r
      <4>4. FirstUncovered(r) = Null
        BY <4>1, <4>2, <4>3 DEF CompleteAfter
      <4>5. \A e \in 1 .. r.tv.last : LinkedEpisode(r, e)
        BY <4>1, <4>2, <4>4, AllLinked
      <4> QED BY <4>1, <4>5, SameEpisodes
    <3>4. \A o \in Subjects : CompletedRow(kind'[o], row'[o])
      BY <2>1, <3>1, <3>3 DEF CompletedInv, CompletedRow
    <3> QED BY <3>4 DEF CompletedInv, CompletedRow, LinkedEpisode
  <2> QED BY <1>4, <2>2, <2>3, <2>4, <2>5, <2>6 DEF Linking
<1>5. ASSUME NEW s \in Subjects, Replacing(s) PROVE CompletedInv'
  <2>1. UNCHANGED kind
    BY <1>5 DEF Replacing, Replace, VerifyLinks, RemoveLink, DeleteTorrent, TorrentGone,
           SettleReplacement
  <2>2. CASE Replace(s)
    <3>1. UNCHANGED row \/ \E q : row' = [row EXCEPT ![s] = q] /\ q.stage = row[s].stage
      BY <2>2, ReplaceChanges
    <3>2. row[s].stage # "completed"
      BY <2>2 DEF Replace
    <3> QED BY <1>0, <2>1, <3>1, <3>2, StaysCovered
  <2>3. CASE SettleReplacement(s)
    <3>1. row' # row => \E q : row' = [row EXCEPT ![s] = q] /\ q.stage = row[s].stage
      BY <2>3, SettleReplacementChanges
    <3>2. row[s].stage # "completed"
      BY <2>3, CleaningFacts DEF SettleReplacement, At, CleanPcs
    <3> QED BY <1>0, <2>1, <3>1, <3>2, StaysCovered
  <2>4. CASE VerifyLinks(s) \/ RemoveLink(s) \/ DeleteTorrent(s) \/ TorrentGone(s)
    BY <1>0, <2>1, <2>4 DEF VerifyLinks, RemoveLink, DeleteTorrent, TorrentGone
  <2> QED BY <1>5, <2>2, <2>3, <2>4 DEF Replacing
<1>6. ASSUME NEW s \in Subjects, Commands(s) PROVE CompletedInv'
  <2>1. PICK q : /\ row' = [row EXCEPT ![s] = q] /\ q.links = row[s].links
                 /\ q.stage = "completed" => row[s].stage = "completed" /\ q.tv = row[s].tv
    BY <1>6, CommandsChange
  <2>2. UNCHANGED kind
    BY <1>6, CommandsChange
  <2> QED BY <2>1, <2>2, StaysCovered
<1> QED BY <1>1, <1>2, <1>3, <1>4, <1>5, <1>6 DEF Next

\* A series is completed only when the library holds, for every wanted episode, a file of
\* that episode which the program linked: the settlement counts what the journal says, and
\* the journal names only links that stand.
THEOREM CompletedMeansCovered == Spec => []CompletedIsCovered
<1>1. Init => CompletedInv
  BY DEF Init, NewRow, CompletedInv
<1>2. StateOK /\ LinkInv /\ CompletedInv => CompletedIsCovered
  <2> SUFFICES ASSUME StateOK, LinkInv, CompletedInv, NEW s \in Subjects,
                      row[s].stage = "completed", kind[s] = "tv",
                      NEW episode \in 1 .. row[s].tv.last
               PROVE  \E n \in Names :
                        /\ Choice!MarksEpisode(Choice!Marker(FileNames[n], row[s].tv.season),
                                               row[s].tv.season, episode)
                        /\ targets[s][n] \in Copies
    BY DEF CompletedIsCovered
  <2>1. LinkedEpisode(row[s], episode)
    BY DEF CompletedInv
  <2>2. PICK t \in Torrents, n \in Names :
          /\ row[s].links[t][n] = "linked"
          /\ Choice!MarksEpisode(Choice!Marker(FileNames[n], row[s].tv.season),
                                 row[s].tv.season, episode)
    BY <2>1 DEF LinkedEpisode
  <2>3. RowOK(kind[s], row[s])
    BY DEF StateOK, SubjectOK
  <2>4. PICK d \in DownloadsOf(row[s]) : d.torrent = t
    BY <2>2, <2>3 DEF RowOK, Recorded
  <2>5. d.hash \in Hashes /\ ~row[s].pending
    BY <2>3, <2>4 DEF RowOK
  <2>6. targets[s][n] \in {<<d.hash, n, c>> : c \in 1 .. MaxCopies}
    BY <2>2, <2>4, <2>5 DEF LinkInv, LinkedIsOurs
  <2>7. targets[s][n] \in Copies
    BY <2>5, <2>6 DEF Copies
  <2> QED BY <2>2, <2>7
<1> QED BY <1>1, <1>2, StateInit, StateStep, LinkInit, LinkStep, CompletedStep, PTL DEF Spec

-----------------------------------------------------------------------------
(* A movie's one download.                                                  *)

LEMMA OthersKeepMovies ==
  ASSUME NEW s \in Subjects, MovieInv, kind' = kind,
         \A o \in Subjects \ {s} : row'[o] = row[o] /\ attempt'[o] = attempt[o],
         kind[s] = "movie" /\ ~row'[s].pending => MovieFits(row'[s], attempt'[s])
  PROVE  MovieInv'
BY DEF MovieInv

\* Where no push is made, the downloads, the stage and the candidates are all that counts.
LEMMA LearningKeepsMovie ==
  ASSUME NEW r \in Rows, NEW q, NEW a, NEW b, NEW update \in AnyDownload, MovieFits(r, a),
         q.downloads = MergedDownload(r.downloads, update), q.stage # "searching",
         \E d \in DownloadsOf(r) : d.state # "retired" /\ d.torrent = update.torrent,
         b # Null => b.pc \notin PushPcs
  PROVE  MovieFits(q, b)
<1>1. \A d : d \in DownloadsOf(q) <=>
               d = update \/ (d \in DownloadsOf(r) /\ d.torrent # update.torrent)
  BY MergedSet DEF Rows
<1>2. PICK c \in DownloadsOf(r) : c.state # "retired" /\ c.torrent = update.torrent
  OBVIOUS
<1>3. \A d \in DownloadsOf(r) : d.state # "retired" => d.torrent = update.torrent
  BY <1>2 DEF MovieFits
<1>4. \A d \in DownloadsOf(q) : d.state # "retired" => d.torrent = update.torrent
  BY <1>1, <1>3
<1> QED BY <1>4 DEF MovieFits

LEMMA MovieSearch ==
  ASSUME NEW s \in Subjects, StateOK, kind[s] = "movie", ~row[s].pending,
         row[s].stage = "searching", MovieFits(row[s], attempt[s]),
         NEW selection \in Selections(row[s])
  PROVE  LET t == Selected(s, selection) IN
         /\ t # Null => Authorized(selection.candidates, selection.confirmed, t)
         /\ \A d \in DownloadsOf(row[s]) : d.state = "failed" => t # Null /\ d.torrent = t
<1> DEFINE r == row[s]
           t == Selected(s, selection)
<1>0. t = selection.selected
  BY DEF Selected
<1>1. /\ r \in Rows /\ r.downloads \in Seq(AnyDownload) /\ r.confirmed \in Torrents \cup {Null}
  BY DEF StateOK, SubjectOK, RowOK, Rows, AnyDownload
<1>2. Used(r) = {}
  BY DEF MovieFits, Used
<1>3. CASE r.confirmed # Null
  <2>1. /\ selection.candidates = r.candidates /\ selection.confirmed = r.confirmed
        /\ selection.selected = r.confirmed
    BY <1>2, <1>3 DEF Selections
  <2>2. \A d \in DownloadsOf(r) : d.state = "failed" => d.torrent = r.confirmed
    BY <1>3 DEF MovieFits, Authorized
  <2> QED BY <1>0, <1>3, <2>1, <2>2 DEF Authorized
<1>4. CASE r.confirmed = Null /\ \E d \in DownloadsOf(r) : d.state = "failed"
  <2>1. PICK i \in Indices(r) : r.downloads[i].state = "failed"
    BY <1>4 DEF DownloadsOf
  <2>2. PICK j \in Indices(r) : /\ CurrentDownload(r) = r.downloads[j]
                                /\ r.downloads[j].state # "retired"
    BY <1>1, <2>1, CurrentExists
  <2> DEFINE c == r.downloads[j]
  <2>3. c \in DownloadsOf(r) /\ c \in AnyDownload
    BY <1>1, RecordedIsTyped DEF DownloadsOf
  <2> HIDE DEF c
  <2>4. c.state = "failed" /\ c # Null
    <3>1. c.state \in {"failed", "retired"}
      BY <2>3 DEF MovieFits
    <3>2. c.state # "retired"
      BY <2>2 DEF c
    <3>3. c # Null
      BY <2>3, DownloadsAssumption
    <3> QED BY <3>1, <3>2, <3>3
  <2>5. r.candidates[c.torrent] = "exact"
    BY <1>4, <2>3, <2>4 DEF MovieFits, Authorized
  <2>6. Choice!DownloadAuthorized(r.candidates, r.confirmed, c.torrent)
    BY <2>5 DEF Choice!DownloadAuthorized
  <2>7. /\ selection.candidates = r.candidates /\ selection.confirmed = Null
        /\ selection.selected = c.torrent
    <3>1. CurrentDownload(r) = c
      BY <2>2 DEF c
    <3> QED BY <1>4, <2>4, <2>5, <2>6, <3>1 DEF Selections
  <2>8. \A d \in DownloadsOf(r) : d.state = "failed" => d.torrent = c.torrent
    BY <2>3, <2>4 DEF MovieFits
  <2>9. c.torrent # Null
    BY <2>3, NullAssumption DEF AnyDownload
  <2> QED BY <1>0, <2>5, <2>7, <2>8, <2>9 DEF Authorized
<1>5. CASE r.confirmed = Null /\ ~\E d \in DownloadsOf(r) : d.state = "failed"
  <2>1. CurrentDownload(r) = Null
    <3> SUFFICES ASSUME CurrentDownload(r) # Null PROVE FALSE
      OBVIOUS
    <3>1. CurrentDownload(r) \in DownloadsOf(r) /\ CurrentDownload(r).state # "retired"
      BY <1>1, CurrentIsRecorded
    <3> QED BY <1>5, <3>1 DEF MovieFits
  <2>2. PICK found : selection = [candidates |-> found, confirmed |-> Null,
                                  selected |-> Choice!AuthorizedSelection(found)]
    BY <1>5, <2>1 DEF Selections
  <2>3. t # Null => found[t] = "exact"
    BY <1>0, <2>2 DEF Choice!AuthorizedSelection, Choice!DownloadAuthorized
  <2> QED BY <1>5, <2>2, <2>3 DEF Authorized
<1> QED BY <1>3, <1>4, <1>5

\* An attempt that has its torrent pushes that one, with the candidates it was chosen of.
LEMMA PushHoldsItsTorrent ==
  ASSUME NEW s \in Subjects, StateOK,
         \/ FetchTorrent(s) /\ ~GiveUpSearch(s)
         \/ ListTagged(s) \/ ListHashed(s) \/ AddTorrent(s) \/ VerifyAdded(s) \/ CallFails(s)
  PROVE  /\ UNCHANGED row /\ \A o \in Subjects \ {s} : attempt'[o] = attempt[o]
         /\ attempt[s] # Null /\ attempt[s].pc \in PushPcs /\ attempt'[s].pc \in PushPcs
         /\ attempt'[s].torrent = attempt[s].torrent
         /\ attempt'[s].candidates = attempt[s].candidates
         /\ attempt'[s].confirmed = attempt[s].confirmed
<1>1. /\ attempt[s] # Null /\ attempt[s].pc \in PushPcs /\ UNCHANGED row
  BY DEF FetchTorrent, ListTagged, ListHashed, AddTorrent, VerifyAdded, CallFails, At, PushPcs
<1>2. {"torrent", "candidates", "confirmed"} \subseteq DOMAIN attempt[s]
  BY <1>1 DEF StateOK, SubjectOK, AttemptShape
<1>3. PICK pc, more : /\ Continue(s, pc, more) /\ pc \in PushPcs
                      /\ DOMAIN more \subseteq {"hash", "tagged", "pushed"}
  <2> DEFINE settled(value) == [pushed |-> value]
             tagged(hashes) == [tagged |-> hashes]
             fetched(hash) == [hash |-> hash]
  <2>1. /\ DOMAIN <<>> = {} /\ \A value : DOMAIN settled(value) = {"pushed"}
        /\ \A hashes : DOMAIN tagged(hashes) = {"tagged"}
        /\ \A hash : DOMAIN fetched(hash) = {"hash"}
    OBVIOUS
  <2>2. CASE FetchTorrent(s) /\ ~GiveUpSearch(s)
    <3>1. \E hash : Continue(s, "tag", fetched(hash))
      BY <2>2 DEF FetchTorrent
    <3> HIDE DEF fetched
    <3> QED BY <2>1, <3>1 DEF PushPcs
  <2>3. CASE ListTagged(s)
    <3>1. \E hashes : Continue(s, "hash", tagged(hashes))
      BY <2>3 DEF ListTagged
    <3> HIDE DEF tagged
    <3> QED BY <2>1, <3>1 DEF PushPcs
  <2>4. CASE AddTorrent(s) \/ VerifyAdded(s) \/ CallFails(s)
    <3>1. Continue(s, "verify", <<>>) \/ \E value : Continue(s, "settle", settled(value))
      BY <2>4 DEF AddTorrent, VerifyAdded, CallFails
    <3> HIDE DEF settled
    <3> QED BY <2>1, <3>1 DEF PushPcs
  <2>5. CASE ListHashed(s)
    <3>1. Continue(s, "add", <<>>) \/ \E value : Continue(s, "settle", settled(value))
      BY <2>5, Zenon DEF ListHashed
    <3> HIDE DEF settled
    <3> QED BY <2>1, <3>1 DEF PushPcs
  <2> QED BY <2>2, <2>3, <2>4, <2>5
<1>4. /\ \A o \in Subjects \ {s} : attempt'[o] = attempt[o]
      /\ attempt'[s].pc = pc
      /\ \A x \in DOMAIN attempt[s] \ (DOMAIN more \cup {"pc"}) : attempt'[s][x] = attempt[s][x]
  BY <1>1, <1>3, MovesOn
<1> QED BY <1>1, <1>2, <1>3, <1>4

LEMMA PushingKeepsMovie ==
  ASSUME NEW s \in Subjects, StateOK, MovieInv, Pushing(s), kind[s] = "movie"
  PROVE  /\ MovieFits(row'[s], attempt'[s])
         /\ \A o \in Subjects \ {s} : row'[o] = row[o] /\ attempt'[o] = attempt[o]
<1> DEFINE r == row[s]
           a == attempt[s]
<1>1. /\ row \in [Subjects -> Rows] /\ DOMAIN attempt = Subjects
      /\ r \in Rows /\ r.downloads \in Seq(AnyDownload)
  BY DEF StateOK, Rows
<1>2. a # Null /\ a.pc \in PushPcs => r.stage = "searching" /\ ~r.pending
  BY DEF StateOK, SubjectOK, AttemptFits
<1>3. CASE Search(s)
  <2>1. /\ a = Null /\ r.stage = "searching" /\ ~r.pending /\ MovieFits(r, a)
    BY <1>3 DEF Search, Begin, MovieInv
  <2>2. PICK selection \in Selections(r) :
          LET t == Selected(s, selection)
              b == [pc |-> "fetch", torrent |-> t, candidates |-> selection.candidates,
                    confirmed |-> selection.confirmed]
          IN  IF t = Null THEN row' = [row EXCEPT ![s] = Searched(@, b)] /\ UNCHANGED attempt
              ELSE attempt' = [attempt EXCEPT ![s] = b] /\ UNCHANGED row
    BY <1>3 DEF Search
  <2>3. PICK t, b :
          /\ t = Selected(s, selection)
          /\ b = [pc |-> "fetch", torrent |-> t, candidates |-> selection.candidates,
                  confirmed |-> selection.confirmed]
          /\ IF t = Null THEN row' = [row EXCEPT ![s] = Searched(r, b)] /\ UNCHANGED attempt
             ELSE attempt' = [attempt EXCEPT ![s] = b] /\ UNCHANGED row
    BY <2>2
  <2>4. /\ t # Null => Authorized(selection.candidates, selection.confirmed, t)
        /\ \A d \in DownloadsOf(r) : d.state = "failed" => t # Null /\ d.torrent = t
    BY <2>1, <2>3, MovieSearch
  <2>5. CASE t = Null
    <3> DEFINE q == Searched(r, b)
    <3>1. q.stage = r.stage /\ q.downloads = r.downloads
      BY <1>1 DEF Searched, Rows
    <3> HIDE DEF q
    <3>2. DownloadsOf(q) = DownloadsOf(r)
      BY <3>1 DEF DownloadsOf, Indices
    <3>3. MovieFits(q, Null)
      BY <2>1, <2>4, <2>5, <3>2 DEF MovieFits
    <3>4. row'[s] = q /\ attempt'[s] = Null
      BY <1>1, <2>1, <2>3, <2>5 DEF q
    <3>5. \A o \in Subjects \ {s} : row'[o] = row[o] /\ attempt'[o] = attempt[o]
      BY <1>1, <2>3, <2>5
    <3> QED BY <3>3, <3>4, <3>5
  <2>6. CASE t # Null
    <3>1. /\ UNCHANGED row /\ attempt'[s] = b
          /\ \A o \in Subjects \ {s} : attempt'[o] = attempt[o]
      BY <1>1, <2>3, <2>6
    <3>2. b.torrent = t /\ b.candidates = selection.candidates /\ b.confirmed = selection.confirmed
      BY <2>3
    <3>3. MovieFits(r, b)
      BY <2>1, <2>4, <2>6, <3>2 DEF MovieFits
    <3> QED BY <3>1, <3>3
  <2> QED BY <2>5, <2>6
<1>4. CASE GiveUpSearch(s) /\ (FetchTorrent(s) \/ FetchFails(s))
  <2>1. a # Null /\ a.pc \in PushPcs
    BY <1>4 DEF FetchTorrent, FetchFails, At, PushPcs
  <2>2. MovieFits(r, a)
    BY <1>2, <2>1 DEF MovieInv
  <2> DEFINE q == Searched(r, a)
  <2>3. /\ q.stage = r.stage /\ q.downloads = r.downloads
        /\ q.candidates = a.candidates /\ q.confirmed = a.confirmed
    BY <1>1 DEF Searched, Rows
  <2>4. /\ row'[s] = q /\ attempt'[s] = Null
        /\ \A o \in Subjects \ {s} : row'[o] = row[o] /\ attempt'[o] = attempt[o]
    BY <1>1, <1>4 DEF GiveUpSearch
  <2> HIDE DEF q
  <2>5. DownloadsOf(q) = DownloadsOf(r)
    BY <2>3 DEF DownloadsOf, Indices
  <2>6. MovieFits(q, Null)
    <3>1. \A d \in DownloadsOf(q) : d.state = "failed" => Authorized(q.candidates, q.confirmed, d.torrent)
      BY <2>1, <2>2, <2>3, <2>5 DEF MovieFits
    <3> QED BY <1>2, <2>1, <2>2, <2>5, <3>1 DEF MovieFits
  <2> QED BY <2>4, <2>6
<1>5. CASE \/ FetchTorrent(s) /\ ~GiveUpSearch(s)
           \/ ListTagged(s) \/ ListHashed(s) \/ AddTorrent(s) \/ VerifyAdded(s) \/ CallFails(s)
  <2>1. /\ UNCHANGED row /\ \A o \in Subjects \ {s} : attempt'[o] = attempt[o]
        /\ a # Null /\ a.pc \in PushPcs
        /\ attempt'[s].torrent = a.torrent /\ attempt'[s].candidates = a.candidates
        /\ attempt'[s].confirmed = a.confirmed
    BY <1>5, PushHoldsItsTorrent
  <2>2. MovieFits(r, a)
    BY <1>2, <2>1 DEF MovieInv
  <2>3. MovieFits(r, attempt'[s])
    BY <2>1, <2>2 DEF MovieFits
  <2> QED BY <2>1, <2>3
<1>6. CASE SettlePush(s)
  <2>1. PICK q, update :
          /\ row' = [row EXCEPT ![s] = q] /\ Learns(r, q, update)
          /\ update \in AnyDownload /\ update.torrent = a.torrent
          /\ update.state = IF a.pushed THEN "live" ELSE "failed"
          /\ q.stage = IF a.pushed THEN "downloading" ELSE "searching"
          /\ q.candidates = a.candidates /\ q.confirmed = a.confirmed
    BY <1>6, SettlePushChanges
  <2>2. a # Null /\ a.pc \in PushPcs
    BY <1>6 DEF SettlePush, At, PushPcs
  <2>3. MovieFits(r, a)
    BY <1>2, <2>2 DEF MovieInv
  <2>4. /\ row'[s] = q /\ attempt'[s] = Null
        /\ \A o \in Subjects \ {s} : row'[o] = row[o] /\ attempt'[o] = attempt[o]
    BY <1>1, <1>6, <2>1 DEF SettlePush
  <2>5. \A d : d \in DownloadsOf(q) <=>
                 d = update \/ (d \in DownloadsOf(r) /\ d.torrent # update.torrent)
    BY <1>1, <2>1, MergedSet DEF Learns
  <2>6. \A d \in DownloadsOf(q) \ {update} : d.state = "retired"
    BY <1>2, <2>1, <2>2, <2>3, <2>5 DEF MovieFits
  <2>7. MovieFits(q, Null)
    <3>1. Authorized(q.candidates, q.confirmed, update.torrent)
      BY <2>1, <2>2, <2>3 DEF MovieFits
    <3>2. q.stage = "searching" => update.state = "failed"
      BY <2>1
    <3>3. \A d, e \in DownloadsOf(q) :
            d.state # "retired" /\ e.state # "retired" => d.torrent = e.torrent
      BY <2>6
    <3>4. \A d \in DownloadsOf(q) : d.state = "failed" =>
             Authorized(q.candidates, q.confirmed, d.torrent)
      BY <2>6, <3>1
    <3>5. q.stage = "searching" => \A d \in DownloadsOf(q) : d.state \in {"failed", "retired"}
      BY <2>6, <3>2
    <3> QED BY <3>3, <3>4, <3>5 DEF MovieFits
  <2> QED BY <2>4, <2>7
<1>7. FetchFails(s) => GiveUpSearch(s)
  BY DEF FetchFails
<1> QED BY <1>3, <1>4, <1>5, <1>6, <1>7 DEF Pushing

\* A step of one subscription leaves the others and all kinds alone.
LEMMA OthersStand ==
  ASSUME NEW s \in Subjects, StateOK, Pushing(s) \/ Linking(s) \/ Replacing(s) \/ Commands(s)
  PROVE  /\ UNCHANGED kind
         /\ \A o \in Subjects \ {s} : row'[o] = row[o] /\ attempt'[o] = attempt[o]
<1>1. /\ row \in [Subjects -> Rows] /\ DOMAIN attempt = Subjects
  BY DEF StateOK
<1>2. \A pc, more : Continue(s, pc, more) =>
        \A o \in Subjects \ {s} : attempt'[o] = attempt[o]
  BY <1>1 DEF Continue
<1>3. CASE Pushing(s)
  <2>1. CASE Search(s) \/ FetchTorrent(s) \/ FetchFails(s)
    BY <1>1, <1>2, <2>1 DEF Search, FetchTorrent, FetchFails, GiveUpSearch
  <2>2. CASE ListTagged(s) \/ AddTorrent(s) \/ VerifyAdded(s) \/ CallFails(s)
    BY <1>2, <2>2 DEF ListTagged, AddTorrent, VerifyAdded, CallFails
  <2>3. CASE ListHashed(s)
    <3>1. UNCHANGED <<kind, row>> /\ \E pc, more : Continue(s, pc, more)
      BY <2>3, Zenon DEF ListHashed
    <3> QED BY <1>2, <3>1
  <2>4. CASE SettlePush(s)
    BY <1>1, <2>4 DEF SettlePush
  <2> QED BY <1>3, <2>1, <2>2, <2>3, <2>4 DEF Pushing
<1>4. CASE Linking(s)
  <2>1. CASE Progress(s) \/ Link(s) \/ LinkGivenUp(s) \/ SettleLink(s)
    <3>1. CASE Progress(s)
      BY <1>1, <3>1 DEF Progress
    <3>2. CASE Link(s)
      <4>1. UNCHANGED kind
        BY <3>2 DEF Link
      <4> QED BY <1>1, <3>2, <4>1, LinkChanges
    <3>3. CASE LinkGivenUp(s)
      BY <1>1, <3>3 DEF LinkGivenUp
    <3>4. CASE SettleLink(s)
      BY <1>1, <3>4 DEF SettleLink
    <3> QED BY <2>1, <3>1, <3>2, <3>3, <3>4
  <2>2. CASE Probe(s) \/ LinkFile(s)
    BY <1>2, <2>2 DEF Probe, LinkFile
  <2> QED BY <1>4, <2>1, <2>2 DEF Linking
<1>5. CASE Replacing(s)
  <2>1. CASE Replace(s) \/ SettleReplacement(s)
    BY <1>1, <2>1 DEF Replace, SettleReplacement
  <2>2. CASE VerifyLinks(s) \/ RemoveLink(s) \/ DeleteTorrent(s) \/ TorrentGone(s)
    BY <1>1, <1>2, <2>2 DEF VerifyLinks, RemoveLink, DeleteTorrent, TorrentGone
  <2> QED BY <1>5, <2>1, <2>2 DEF Replacing
<1>6. CASE Commands(s)
  <2>1. PICK q : row' = [row EXCEPT ![s] = q]
    BY <1>6, CommandsChange
  <2>2. UNCHANGED <<kind, attempt>>
    BY <1>6, CommandsChange
  <2> QED BY <1>1, <2>1, <2>2
<1> QED BY <1>3, <1>4, <1>5, <1>6

LEMMA LinkingKeepsMovie ==
  ASSUME NEW s \in Subjects, StateOK, MovieInv, Linking(s), kind[s] = "movie", ~row[s].pending
  PROVE  /\ MovieFits(row'[s], attempt'[s])
         /\ \A o \in Subjects \ {s} : row'[o] = row[o] /\ attempt'[o] = attempt[o]
<1> DEFINE r == row[s]
           a == attempt[s]
<1>1. /\ row \in [Subjects -> Rows] /\ DOMAIN attempt = Subjects /\ r \in Rows
      /\ r.tv = Null /\ MovieFits(r, a)
  BY DEF StateOK, SubjectOK, RowOK, MovieInv
<1>2. ASSUME NEW q, NEW b, NEW update \in AnyDownload,
             q.downloads = MergedDownload(r.downloads, update), q.stage # "searching",
             b # Null => b.pc \notin PushPcs,
             \E d \in DownloadsOf(r) : d.state # "retired" /\ d.torrent = update.torrent
      PROVE  MovieFits(q, b)
  BY <1>1, <1>2, LearningKeepsMovie
<1>3. CASE Progress(s)
  <2>1. a = Null /\ UNCHANGED attempt /\ CurrentDownload(r) # Null
    BY <1>3 DEF Progress, Begin
  <2>2. CASE row' = row
    BY <1>1, <2>1, <2>2
  <2>3. CASE row' # row
    <3>1. PICK q, update :
            /\ row' = [row EXCEPT ![s] = q] /\ Learns(r, q, update)
            /\ update \in AnyDownload /\ update.torrent = CurrentDownload(r).torrent
            /\ q.stage \in {"linking", "downloading"}
      BY <1>3, <2>3, ProgressChanges
    <3>2. CurrentDownload(r) \in DownloadsOf(r) /\ CurrentDownload(r).state # "retired"
      BY <2>1, CurrentFacts
    <3>3. MovieFits(q, a)
      BY <1>2, <2>1, <3>1, <3>2 DEF Learns
    <3> QED BY <1>1, <2>1, <3>1, <3>3
  <2> QED BY <2>2, <2>3
<1>4. CASE Link(s)
  <2>1. a = Null /\ CurrentDownload(r) # Null
    BY <1>4 DEF Link, Begin
  <2>2. PICK update :
          /\ update \in AnyDownload /\ update.torrent = CurrentDownload(r).torrent
          /\ \/ /\ attempt' = [attempt EXCEPT ![s] = [pc |-> "probe", update |-> update]]
                /\ UNCHANGED row
             \/ /\ UNCHANGED attempt
                /\ \E q : /\ row' = [row EXCEPT ![s] = q] /\ Learns(r, q, update)
                          /\ q.stage = "downloading" \/ r.tv # Null
    BY <1>4, LinkChanges
  <2>3. CurrentDownload(r) \in DownloadsOf(r) /\ CurrentDownload(r).state # "retired"
    BY <2>1, CurrentFacts
  <2>4. CASE attempt' = [attempt EXCEPT ![s] = [pc |-> "probe", update |-> update]]
             /\ UNCHANGED row
    <3>1. attempt'[s].pc = "probe" /\ \A o \in Subjects \ {s} : attempt'[o] = attempt[o]
      BY <1>1, <2>4
    <3>2. MovieFits(r, attempt'[s])
      BY <1>1, <3>1 DEF MovieFits, PushPcs
    <3> QED BY <2>4, <3>1, <3>2
  <2>5. CASE UNCHANGED attempt /\ \E q : /\ row' = [row EXCEPT ![s] = q] /\ Learns(r, q, update)
                                         /\ q.stage = "downloading" \/ r.tv # Null
    <3>1. PICK q : /\ row' = [row EXCEPT ![s] = q] /\ Learns(r, q, update)
                   /\ q.stage = "downloading"
      BY <1>1, <2>5
    <3>2. MovieFits(q, a)
      BY <1>2, <2>1, <2>2, <2>3, <3>1 DEF Learns
    <3> QED BY <1>1, <2>1, <2>5, <3>1, <3>2
  <2> QED BY <2>2, <2>4, <2>5
<1>5. a # Null /\ a.pc \in LinkPcs =>
        /\ r.stage = "linking" /\ a.update \in AnyDownload
        /\ {"pc", "update"} \subseteq DOMAIN a
        /\ \E d \in DownloadsOf(r) : d.state # "retired" /\ d.torrent = a.update.torrent
  BY LinkingFacts DEF Recorded
<1>6. CASE LinkGivenUp(s)
  <2>1. PICK q : /\ row' = [row EXCEPT ![s] = q] /\ Learns(r, q, a.update) /\ q.stage = r.stage
    BY <1>6, LinkGivenUpChanges
  <2>2. a # Null /\ a.pc \in LinkPcs
    BY <1>6 DEF LinkGivenUp, At, LinkPcs
  <2>3. attempt'[s] = Null /\ \A o \in Subjects \ {s} : attempt'[o] = attempt[o]
    BY <1>1, <1>6 DEF LinkGivenUp
  <2>4. MovieFits(q, Null)
    BY <1>2, <1>5, <2>1, <2>2 DEF Learns
  <2> QED BY <1>1, <2>1, <2>3, <2>4
<1>7. CASE Probe(s) \/ LinkFile(s)
  <2>1. a # Null /\ a.pc \in LinkPcs /\ UNCHANGED row
    BY <1>7 DEF Probe, LinkFile, At, LinkPcs
  <2>2. /\ attempt'[s].pc = "link"
        /\ \A o \in Subjects \ {s} : attempt'[o] = attempt[o]
    <3>1. CASE Probe(s)
      BY <3>1, ProbeKeepsState
    <3>2. CASE LinkFile(s)
      <4>1. PICK outcomes : Continue(s, "link", [outcomes |-> outcomes])
        BY <3>2 DEF LinkFile
      <4> QED BY <2>1, <4>1, MovesOn
    <3> QED BY <1>7, <3>1, <3>2
  <2>3. MovieFits(r, attempt'[s])
    BY <1>1, <2>2 DEF MovieFits, PushPcs
  <2> QED BY <2>1, <2>2, <2>3
<1>8. CASE SettleLink(s)
  <2>1. /\ \A o \in Subjects \ {s} : attempt'[o] = attempt[o] /\ row'[o] = row[o]
        /\ attempt'[s] = Null /\ row'[s].stage # "searching"
        /\ row'[s].downloads = MergedDownload(r.downloads, a.update)
    BY <1>1, <1>8, SettleLinkKeepsState
  <2>2. a # Null /\ a.pc \in LinkPcs
    BY <1>8 DEF SettleLink, EveryFileTried, At, LinkPcs
  <2>3. MovieFits(row'[s], Null)
    BY <1>2, <1>5, <2>1, <2>2
  <2> QED BY <2>1, <2>3
<1> QED BY <1>3, <1>4, <1>6, <1>7, <1>8 DEF Linking

\* A movie that is not being replaced comes out of a replacement with no download at all.
LEMMA ReplacingKeepsMovie ==
  ASSUME NEW s \in Subjects, StateOK, Replacing(s)
  PROVE  /\ ~row'[s].pending => MovieFits(row'[s], attempt'[s])
         /\ \A o \in Subjects \ {s} : row'[o] = row[o] /\ attempt'[o] = attempt[o]
<1>1. /\ row \in [Subjects -> Rows] /\ DOMAIN attempt = Subjects
      /\ attempt[s] # Null /\ attempt[s].pc \in CleanPcs => row[s].pending
  BY DEF StateOK, SubjectOK, AttemptFits
<1>2. CASE Replace(s)
  <2>1. row[s].pending
    BY <1>2 DEF Replace
  <2>2. CASE UNCHANGED row /\ \E a : attempt' = [attempt EXCEPT ![s] = a]
    BY <1>1, <2>1, <2>2
  <2>3. CASE UNCHANGED attempt /\ \E q : row' = [row EXCEPT ![s] = q] /\ q.pending
    BY <1>1, <2>1, <2>3
  <2> QED BY <1>2, <2>2, <2>3, ReplaceChanges
<1>3. CASE VerifyLinks(s) \/ RemoveLink(s) \/ DeleteTorrent(s) \/ TorrentGone(s)
  <2>1. /\ UNCHANGED row /\ attempt[s] # Null /\ attempt[s].pc \in CleanPcs
    BY <1>3 DEF VerifyLinks, RemoveLink, DeleteTorrent, TorrentGone, At, CleanPcs
  <2>2. \A o \in Subjects \ {s} : attempt'[o] = attempt[o]
    BY <1>3, VerifyLinksKeepsState, RemoveLinkKeepsState, DeleteTorrentKeepsState,
       TorrentGoneKeepsState
  <2> QED BY <1>1, <2>1, <2>2
<1>4. CASE SettleReplacement(s)
  <2>1. attempt'[s] = Null /\ \A o \in Subjects \ {s} : attempt'[o] = attempt[o]
    BY <1>1, <1>4 DEF SettleReplacement
  <2>2. row[s].pending
    BY <1>1, <1>4 DEF SettleReplacement, At, CleanPcs
  <2>3. CASE row' = row
    BY <2>1, <2>2, <2>3
  <2>4. CASE row' # row
    <3>1. PICK q : row' = [row EXCEPT ![s] = q] /\ DownloadsOf(q) = {}
      BY <1>4, <2>4, SettleReplacementChanges
    <3>2. MovieFits(q, Null)
      BY <3>1 DEF MovieFits
    <3> QED BY <1>1, <2>1, <3>1, <3>2
  <2> QED BY <2>3, <2>4
<1> QED BY <1>2, <1>3, <1>4 DEF Replacing

LEMMA CommandsKeepMovie ==
  ASSUME NEW s \in Subjects, StateOK, MovieInv, Commands(s), kind[s] = "movie"
  PROVE  ~row'[s].pending => MovieFits(row'[s], attempt'[s])
<1> DEFINE r == row[s]
<1>1. /\ row \in [Subjects -> Rows] /\ r \in Rows /\ r.downloads \in Seq(AnyDownload)
      /\ RowOK(kind[s], r)
  BY DEF StateOK, SubjectOK, Rows
<1>2. UNCHANGED attempt /\ attempt[s] = Null
  BY CommandsChange
<1>3. ASSUME NEW q, q.downloads = <<>> PROVE MovieFits(q, Null)
  <2>1. DownloadsOf(q) = {}
    BY <1>3 DEF DownloadsOf, Indices
  <2> QED BY <2>1 DEF MovieFits
<1>4. CASE LoadMeta(s)
  <2> DEFINE q == [r EXCEPT !.stage = "searching"]
  <2>1. row'[s] = q /\ r.stage = "meta"
    BY <1>1, <1>4 DEF LoadMeta
  <2>2. q.downloads = r.downloads
    BY <1>1 DEF Rows
  <2>3. q.downloads = <<>>
    BY <1>1, <2>1, <2>2 DEF RowOK
  <2> HIDE DEF q
  <2> QED BY <1>2, <1>3, <2>1, <2>3
<1>5. CASE Restart(s)
  <2> DEFINE q == Restarted(r)
             D == [i \in DOMAIN r.downloads |-> [r.downloads[i] EXCEPT !.state = "retired"]]
  <2>1. row'[s] = q
    BY <1>1, <1>5 DEF Restart
  <2>2. q.downloads = D
    BY <1>1 DEF Restarted, Rows
  <2>3. DOMAIN D = 1 .. Len(r.downloads) /\ Len(r.downloads) \in Nat
    BY <1>1
  <2>4. Len(D) = Len(r.downloads)
    BY <2>3
  <2>5. \A i \in 1 .. Len(r.downloads) : D[i].state = "retired"
    BY <1>1, <2>3 DEF AnyDownload
  <2> HIDE DEF q, D
  <2>6. \A d \in DownloadsOf(q) : d.state = "retired"
    BY <2>2, <2>4, <2>5 DEF DownloadsOf, Indices
  <2>7. MovieFits(q, Null)
    BY <2>6 DEF MovieFits
  <2> QED BY <1>2, <2>1, <2>7
<1>6. ASSUME NEW t \in Torrents, AddManual(s, t) PROVE ~row'[s].pending => MovieFits(row'[s], attempt'[s])
  <2> DEFINE q == [r EXCEPT !.candidates[t] = "keyword"]
  <2>1. row'[s] = q /\ ~r.pending /\ r.candidates[t] = "absent"
    BY <1>1, <1>6 DEF AddManual
  <2>2. /\ q.downloads = r.downloads /\ q.stage = r.stage /\ q.confirmed = r.confirmed
        /\ \A u \in Torrents \ {t} : q.candidates[u] = r.candidates[u]
    BY <1>1 DEF Rows
  <2>3. MovieFits(r, Null)
    BY <1>2, <2>1 DEF MovieInv
  <2> HIDE DEF q
  <2>4. DownloadsOf(q) = DownloadsOf(r)
    BY <2>2 DEF DownloadsOf, Indices
  <2>5. \A d \in DownloadsOf(r) : d.torrent \in Torrents
    <3>1. \A d \in DownloadsOf(r) : d \in AnyDownload
      BY <1>1, RecordedIsTyped
    <3> QED BY <3>1 DEF AnyDownload
  <2>6. ASSUME q.stage = "searching", NEW d \in DownloadsOf(r), d.state = "failed"
        PROVE  Authorized(q.candidates, q.confirmed, d.torrent)
    <3>1. Authorized(r.candidates, r.confirmed, d.torrent)
      BY <2>2, <2>3, <2>6 DEF MovieFits
    <3>2. r.confirmed = Null => d.torrent # t
      BY <2>1, <3>1 DEF Authorized
    <3> QED BY <2>2, <2>5, <3>1, <3>2 DEF Authorized
  <2>7. MovieFits(q, Null)
    BY <2>2, <2>3, <2>4, <2>6 DEF MovieFits
  <2> QED BY <1>2, <2>1, <2>7
<1>7. ASSUME NEW t \in Torrents, NEW replace \in BOOLEAN, Confirm(s, t, replace)
      PROVE  ~row'[s].pending => MovieFits(row'[s], attempt'[s])
  <2> DEFINE q == [r EXCEPT !.stage = "searching", !.confirmed = t, !.pending = replace,
                            !.prepared = FALSE]
  <2>1. row'[s] = q
    BY <1>1, <1>7 DEF Confirm
  <2>2. q.pending = replace /\ q.downloads = r.downloads
    BY <1>1 DEF Rows
  <2>3. replace \/ r.downloads = <<>>
    BY <1>7 DEF Confirm
  <2> HIDE DEF q
  <2> QED BY <1>2, <1>3, <2>1, <2>2, <2>3
<1> QED BY <1>4, <1>5, <1>6, <1>7 DEF Commands

\* Nothing is downloaded or linked while a replacement is due, nor made due by it.
LEMMA LinkingIsNotPending ==
  ASSUME NEW s \in Subjects, StateOK, Linking(s)
  PROVE  ~row[s].pending
<1>1. row[s].pending => row[s].stage = "searching"
  BY DEF StateOK, SubjectOK, RowOK
<1>2. CASE Progress(s) \/ Link(s)
  BY <1>1, <1>2 DEF Progress, Link
<1>3. CASE LinkGivenUp(s) \/ Probe(s) \/ LinkFile(s) \/ SettleLink(s)
  BY <1>3, LinkingFacts DEF LinkGivenUp, Probe, LinkFile, SettleLink, EveryFileTried, At, LinkPcs
<1> QED BY <1>2, <1>3 DEF Linking

LEMMA MovieStep == StateOK /\ MovieInv /\ [Next]_vars => MovieInv'
<1> SUFFICES ASSUME StateOK, MovieInv, [Next]_vars PROVE MovieInv'
  OBVIOUS
<1>1. CASE UNCHANGED vars
  BY <1>1 DEF vars, MovieInv
<1>2. CASE World
  <2>1. /\ UNCHANGED <<kind, row>>
        /\ \A s \in Subjects : attempt'[s] \in {attempt[s], Null}
    BY <1>2, WorldKeepsState
  <2> QED BY <2>1 DEF MovieInv, MovieFits
<1>3. ASSUME NEW s \in Subjects, Pushing(s) \/ Linking(s) \/ Replacing(s) \/ Commands(s)
      PROVE  MovieInv'
  <2>1. /\ UNCHANGED kind
        /\ \A o \in Subjects \ {s} : row'[o] = row[o] /\ attempt'[o] = attempt[o]
    BY <1>3, OthersStand
  <2>2. ASSUME kind[s] = "movie", ~row'[s].pending PROVE MovieFits(row'[s], attempt'[s])
    <3>1. CASE Linking(s)
      <4>1. ~row[s].pending
        BY <2>2, <3>1, LinkingIsNotPending
      <4> QED BY <2>2, <3>1, <4>1, LinkingKeepsMovie
    <3> QED BY <1>3, <2>2, <3>1, PushingKeepsMovie, ReplacingKeepsMovie, CommandsKeepMovie
  <2> QED BY <2>1, <2>2, OthersKeepMovies
<1> QED BY <1>1, <1>2, <1>3 DEF Next

\* However often its attempts fail, are lost or are repeated, and whatever is confirmed or
\* restarted in between: no two downloads of a movie are pushed and not retired at once,
\* but while a replacement is due.  The torrent that is watched and linked is thereby the one
\* that was pushed last (current_download).
THEOREM OneDownloadPerMovie == Spec => []CurrentIsUnique
<1>1. Init => MovieInv
  <2>1. \A s \in Subjects : Init => row[s].downloads = <<>> /\ attempt[s] = Null
    BY DEF Init, NewRow
  <2> QED BY <2>1 DEF MovieInv, MovieFits, DownloadsOf, Indices
<1>2. StateOK /\ MovieInv => CurrentIsUnique
  <2> SUFFICES ASSUME StateOK, MovieInv, NEW s \in Subjects, kind[s] = "movie", ~row[s].pending
               PROVE  Cardinality({i \in Indices(row[s]) :
                         row[s].downloads[i].state \in {"live", "missing"}}) <= 1
    BY DEF CurrentIsUnique
  <2> DEFINE pushed == {i \in Indices(row[s]) : row[s].downloads[i].state \in {"live", "missing"}}
  <2>1. \A i, j \in pushed : i = j
    <3> SUFFICES ASSUME NEW i \in pushed, NEW j \in pushed PROVE i = j
      OBVIOUS
    <3>1. Rules!UniqueDownloads(row[s].downloads)
      BY DEF StateOK, SubjectOK, RowOK
    <3>2. row[s].downloads[i].torrent = row[s].downloads[j].torrent
      BY DEF MovieInv, MovieFits, DownloadsOf
    <3> QED BY <3>1, <3>2 DEF Rules!UniqueDownloads, Indices
  <2> HIDE DEF pushed
  <2>2. Cardinality(pushed) <= 1
    <3>1. CASE pushed = {}
      BY <3>1, FS_EmptySet
    <3>2. CASE pushed # {}
      <4>1. PICK i \in pushed : TRUE
        BY <3>2
      <4>2. pushed = {i}
        BY <2>1, <4>1
      <4>3. Cardinality({i}) = 1
        BY FS_Singleton
      <4> QED BY <4>2, <4>3
    <3> QED BY <3>1, <3>2
  <2> QED BY <2>2 DEF pushed
<1> QED BY <1>1, <1>2, StateInit, StateStep, MovieStep, PTL DEF Spec

-----------------------------------------------------------------------------
(* Cleaning up before a replacement.                                        *)

\* Only a step of qBittorrent or of its user changes what is listed, and how.
LEMMA ListingsChange ==
  ASSUME StateOK, World, NEW h \in Hashes, qb'[h] # Null
  PROVE  \/ qb[h] # Null /\ qb'[h].tags = qb[h].tags
         \/ \E key \in EffectKeys : <<h, key>> \in importing /\ qb'[h].tags = {key}
         \/ UserAddsTorrent
<1>1. qb \in Servers
  BY DEF StateOK, WorldOK
<1>2. CASE QbLists
  <2>1. PICK g \in Hashes, key \in EffectKeys :
          /\ <<g, key>> \in importing
          /\ \/ UNCHANGED qb
             \/ qb' = [qb EXCEPT ![g] = [tags |-> {key}, complete |-> FALSE]]
    BY <1>2 DEF QbLists, Comes
  <2> QED BY <1>1, <2>1 DEF Servers
<1>3. CASE QbCompletes \/ UserRechecks
  <2>1. PICK g \in Hashes, value \in BOOLEAN :
          qb[g] # Null /\ qb' = [qb EXCEPT ![g] = [qb[g] EXCEPT !.complete = value]]
    BY <1>3 DEF QbCompletes, UserRechecks
  <2>2. qb[g] \in QbTorrents
    BY <1>1, <2>1 DEF Servers
  <2>3. [qb[g] EXCEPT !.complete = value].tags = qb[g].tags
    BY <2>2 DEF QbTorrents
  <2> QED BY <1>1, <2>1, <2>3 DEF Servers
<1>4. CASE QbForgets \/ UserRemovesTorrent
  <2>1. PICK g : qb' = [qb EXCEPT ![g] = Null]
    BY <1>4 DEF QbForgets, UserRemovesTorrent
  <2> QED BY <1>1, <2>1 DEF Servers
<1>5. CASE QbErases \/ Republish \/ UserFillsTarget \/ AttemptsLost
  BY <1>5 DEF QbErases, Republish, UserFillsTarget, AttemptsLost, world
<1> QED BY <1>2, <1>3, <1>4, <1>5 DEF World

\* Neither pushing nor linking nor a command begins a cleanup.
LEMMA NoCleanupBegins ==
  ASSUME NEW s \in Subjects, StateOK, Pushing(s) \/ Linking(s) \/ Commands(s)
  PROVE  attempt'[s] # Null => attempt'[s].pc \notin CleanPcs
<1>1. DOMAIN attempt = Subjects
  BY DEF StateOK
<1>2. CASE Search(s)
  <2>1. attempt[s] = Null /\ \E a : a.pc = "fetch" /\ attempt' \in {attempt, [attempt EXCEPT ![s] = a]}
    BY <1>2 DEF Search, Begin
  <2> QED BY <1>1, <2>1 DEF CleanPcs
<1>3. CASE GiveUpSearch(s) \/ SettlePush(s) \/ LinkGivenUp(s) \/ SettleLink(s)
  BY <1>1, <1>3 DEF GiveUpSearch, SettlePush, LinkGivenUp, SettleLink
<1>4. CASE \/ FetchTorrent(s) /\ ~GiveUpSearch(s)
           \/ ListTagged(s) \/ ListHashed(s) \/ AddTorrent(s) \/ VerifyAdded(s) \/ CallFails(s)
  BY <1>4, PushHoldsItsTorrent DEF PushPcs, CleanPcs
<1>5. CASE Progress(s)
  BY <1>5 DEF Progress, Begin
<1>6. CASE Link(s)
  <2>1. PICK update :
          \/ attempt' = [attempt EXCEPT ![s] = [pc |-> "probe", update |-> update]]
          \/ UNCHANGED attempt
    BY <1>6, LinkChanges
  <2>2. attempt[s] = Null
    BY <1>6 DEF Link, Begin
  <2> QED BY <1>1, <2>1, <2>2 DEF CleanPcs
<1>7. CASE Probe(s) \/ LinkFile(s)
  <2>1. CASE Probe(s)
    BY <2>1, ProbeKeepsState DEF CleanPcs
  <2>2. CASE LinkFile(s)
    BY <2>2, LinkFileKeepsState DEF LinkedOne, CleanPcs
  <2> QED BY <1>7, <2>1, <2>2
<1>8. CASE Commands(s)
  BY <1>8, CommandsChange
<1>9. FetchFails(s) => GiveUpSearch(s)
  BY DEF FetchFails
<1> QED BY <1>2, <1>3, <1>4, <1>5, <1>6, <1>7, <1>8, <1>9 DEF Pushing, Linking

\* A step that lists nothing matters to its own subscription's cleanup alone.
LEMMA OwnCleanup ==
  ASSUME NEW s \in Subjects, CleanInv, UNCHANGED qb,
         \A o \in Subjects \ {s} :
           row'[o] = row[o] /\ attempt'[o] = attempt[o] /\ targets'[o] = targets[o],
         attempt'[s] # Null => CleanFlow(s, attempt[s])'
  PROVE  CleanInv'
<1> SUFFICES ASSUME NEW o \in Subjects, attempt'[o] # Null PROVE CleanFlow(o, attempt[o])'
  BY DEF CleanInv
<1>1. CASE o = s
  BY <1>1
<1>2. CASE o # s
  <2>1. PICK a : a = attempt[o] /\ attempt'[o] = a /\ CleanFlow(o, a)
    BY <1>2 DEF CleanInv
  <2>2. row'[o] = row[o] /\ targets'[o] = targets[o]
    BY <1>2
  <2> QED BY <2>1, <2>2 DEF CleanFlow, DownloadsOf, Indices, ListByTag
<1> QED BY <1>1, <1>2

LEMMA ReplacingKeepsCleanup ==
  ASSUME NEW s \in Subjects, StateOK, CleanInv, Replacing(s), attempt'[s] # Null
  PROVE  CleanFlow(s, attempt[s])'
<1> DEFINE a == attempt[s]
           r == row[s]
<1>0. UNCHANGED qb /\ DOMAIN attempt = Subjects
  BY DEF Replacing, Replace, VerifyLinks, RemoveLink, DeleteTorrent, TorrentGone,
         SettleReplacement, world, StateOK
<1>1. CASE Replace(s)
  <2>1. a = Null /\ \A d \in DownloadsOf(r) : MayDelete(s, d)
    BY <1>1 DEF Replace, Begin
  <2> DEFINE found == {FoundHash(s, d) : d \in DownloadsOf(r)} \ {Null}
  <2>2. UNCHANGED row /\ attempt' = [attempt EXCEPT ![s] = [pc |-> "unlink", found |-> found]]
    BY <1>0, <1>1, <2>1, ReplaceChanges
  <2>3. \A d \in DownloadsOf(r) : d \in AnyDownload /\ d.hash \in Hashes
    <3>1. RowOK(kind[s], r) /\ r.downloads \in Seq(AnyDownload)
      BY DEF StateOK, SubjectOK, Rows
    <3> QED BY <3>1, RecordedIsTyped DEF RowOK
  <2>4. ASSUME NEW d \in DownloadsOf(r), NEW h \in ListByTag(qb, StableKey(s, d.torrent))
        PROVE  h \in found
    <3>1. h = FoundHash(s, d) /\ h \in Hashes
      BY <2>1, <2>3, <2>4, PreparedFacts DEF ListByTag
    <3> QED BY <3>1, NullAssumption
  <2>5. ASSUME NEW h \in found PROVE qb[h].tags # {}
    <3>1. PICK d \in DownloadsOf(r) : h = FoundHash(s, d) /\ h # Null
      OBVIOUS
    <3> QED BY <2>1, <2>3, <3>1, PreparedFacts
  <2> HIDE DEF found
  <2>6. attempt'[s].pc = "unlink" /\ attempt'[s].found = found
    BY <1>0, <2>2
  <2> QED BY <1>0, <2>2, <2>4, <2>5, <2>6 DEF CleanFlow, DownloadsOf, Indices, ListByTag
<1>2. CASE VerifyLinks(s) \/ RemoveLink(s) \/ DeleteTorrent(s) \/ TorrentGone(s)
  <2>1. /\ a # Null /\ a.pc \in CleanPcs /\ UNCHANGED row
    BY <1>2 DEF VerifyLinks, RemoveLink, DeleteTorrent, TorrentGone, At, CleanPcs
  <2>2. /\ \A d \in DownloadsOf(r) : ListByTag(qb, StableKey(s, d.torrent)) \subseteq a.found
        /\ \A h \in a.found : qb[h] # Null => qb[h].tags # {}
        /\ CleanFlow(s, a)
    BY <2>1 DEF CleanInv, CleanFlow
  <2>3. targets \in [Subjects -> [Names -> Files!Occupants]]
    BY DEF StateOK, WorldOK
  <2>4. CASE VerifyLinks(s)
    <3>1. /\ attempt'[s].pc = "remove" /\ attempt'[s].found = a.found /\ UNCHANGED targets
          /\ attempt'[s].left = {file[2] : file \in JournaledLinks(r)}
          /\ \A file \in JournaledLinks(r) :
               Files!CleanupAllowed(SourceAt(file[1].hash, file[2]), targets[s][file[2]],
                                    r.links[file[1].torrent][file[2]])
      BY <2>4, VerifyLinksKeepsState DEF VerifyLinks, world
    <3>2. ASSUME NEW n \in attempt'[s].left PROVE targets[s][n] \notin Foreign \cup {Irregular}
      <4>1. PICK file \in JournaledLinks(r) : n = file[2]
        BY <3>1
      <4>2. file[1].hash \in Hashes /\ n \in Names
        BY <2>1, <4>1, CleaningFacts DEF JournaledLinks, Journaled, RowOK
      <4>3. SourceAt(file[1].hash, n) \in Copies \cup {Null}
        BY <4>2, SourceIsTyped DEF StateOK
      <4>4. targets[s][n] = Null \/ targets[s][n] = SourceAt(file[1].hash, n)
        BY <3>1, <4>1 DEF Files!CleanupAllowed
      <4> QED BY <4>3, <4>4, PathsAssumption
    <3>3. ASSUME NEW d \in DownloadsOf(r), NEW n \in Names \ attempt'[s].left
          PROVE  r.links[d.torrent][n] = "none"
      <4> DEFINE file == <<d, n>>
      <4>1. file \in Journaled(r) /\ file[1] = d /\ file[2] = n
        BY DEF Journaled
      <4>2. file \notin JournaledLinks(r)
        BY <3>1, <3>3, <4>1
      <4> QED BY <4>1, <4>2 DEF JournaledLinks
    <3> QED BY <1>0, <2>1, <2>2, <3>1, <3>2, <3>3 DEF CleanFlow, DownloadsOf, Indices, ListByTag
  <2>5. CASE RemoveLink(s)
    <3>1. PICK n \in a.left \cap Names :
            /\ attempt'[s].left = a.left \ {n} /\ targets' = [targets EXCEPT ![s][n] = Null]
            /\ attempt'[s].pc = "remove" /\ attempt'[s].found = a.found
      BY <2>5, RemoveLinkKeepsState
    <3>2. a.pc = "remove"
      BY <2>5 DEF RemoveLink, At
    <3>3. targets'[s][n] = Null /\ \A m \in Names \ {n} : targets'[s][m] = targets[s][m]
      BY <2>3, <3>1
    <3>4. a.left \subseteq Names
      BY <2>1, <3>2, CleaningFacts
    <3>5. \A m \in a.left \ {n} : targets'[s][m] \notin Foreign \cup {Irregular}
      BY <2>2, <3>2, <3>3, <3>4 DEF CleanFlow
    <3>6. \A d \in DownloadsOf(r) : \A m \in Names \ (a.left \ {n}) :
            r.links[d.torrent][m] # "none" => targets'[s][m] \notin Copies
      BY <2>2, <3>2, <3>3, PathsAssumption DEF CleanFlow
    <3> QED BY <1>0, <2>1, <2>2, <3>1, <3>5, <3>6 DEF CleanFlow, DownloadsOf, Indices, ListByTag
  <2>6. CASE DeleteTorrent(s) \/ TorrentGone(s)
    <3>1. /\ UNCHANGED targets /\ a.pc \in {"remove", "deleted"} /\ a.left = {}
      BY <2>2, <2>6 DEF DeleteTorrent, TorrentGone, At, world, CleanFlow
    <3>2. /\ attempt'[s].pc \in {"remove", "deleted"} /\ attempt'[s].left = {}
          /\ attempt'[s].found \subseteq a.found
          /\ \A h \in a.found \ attempt'[s].found : qb[h] = Null
      BY <2>6, <3>1, DeleteTorrentKeepsState, TorrentGoneKeepsState
    <3>3. \A d \in DownloadsOf(r) :
            ListByTag(qb, StableKey(s, d.torrent)) \subseteq attempt'[s].found
      BY <2>2, <3>2 DEF ListByTag
    <3> QED BY <1>0, <2>1, <2>2, <3>1, <3>2, <3>3 DEF CleanFlow, DownloadsOf, Indices, ListByTag
  <2> QED BY <1>2, <2>4, <2>5, <2>6
<1>3. CASE SettleReplacement(s)
  BY <1>0, <1>3 DEF SettleReplacement
<1> QED BY <1>1, <1>2, <1>3 DEF Replacing

LEMMA WorldKeepsCleanup ==
  ASSUME StateOK, FlowInv, CleanInv, World
  PROVE  CleanInv'
<1> SUFFICES ASSUME NEW s \in Subjects, attempt'[s] # Null PROVE CleanFlow(s, attempt[s])'
  BY DEF CleanInv
<1>1. UNCHANGED row /\ attempt'[s] = attempt[s]
  BY WorldKeepsState
<1> DEFINE a == attempt[s]
<1>2. /\ a # Null /\ CleanFlow(s, a) /\ AttemptFlow(s, a)
      /\ a.pc \in CleanPcs => a.found \subseteq Hashes
      /\ a.pc \in {"remove", "deleted"} => a.left \subseteq Names
      /\ \A d \in DownloadsOf(row[s]) : d.torrent \in Torrents
  <2>1. a # Null /\ CleanFlow(s, a) /\ AttemptFlow(s, a)
    BY <1>1 DEF CleanInv, FlowInv
  <2>2. /\ a.pc \in CleanPcs => a.found \subseteq Hashes
        /\ a.pc \in {"remove", "deleted"} => a.left \subseteq Names
    BY <2>1, CleaningFacts DEF CleanPcs
  <2>3. row[s].downloads \in Seq(AnyDownload)
    BY DEF StateOK, Rows
  <2>4. \A d \in DownloadsOf(row[s]) : d \in AnyDownload
    BY <2>3, RecordedIsTyped
  <2> QED BY <2>1, <2>2, <2>4 DEF AnyDownload
<1>3. CASE a.pc \notin CleanPcs
  BY <1>1, <1>3 DEF CleanFlow, CleanPcs
<1>4. CASE a.pc \in CleanPcs
  <2>1. ~UserAddsTorrent
    BY <1>2, <1>4 DEF UserAddsTorrent, At, CleanPcs
  <2>2. NothingImported(s)
    BY <1>2, <1>4 DEF AttemptFlow, CleanPcs
  <2>3. ASSUME NEW d \in DownloadsOf(row[s]), NEW h \in ListByTag(qb', StableKey(s, d.torrent))
        PROVE  h \in a.found
    <3>1. h \in Hashes /\ qb'[h] # Null /\ StableKey(s, d.torrent) \in qb'[h].tags
      BY <2>3 DEF ListByTag
    <3>2. <<h, StableKey(s, d.torrent)>> \notin importing
      BY <1>2, <2>2, <3>1 DEF NothingImported
    <3>3. qb[h] # Null /\ qb'[h].tags = qb[h].tags
      BY <2>1, <3>1, <3>2, ListingsChange
    <3>4. h \in ListByTag(qb, StableKey(s, d.torrent))
      BY <3>1, <3>3 DEF ListByTag
    <3> QED BY <1>2, <1>4, <3>4 DEF CleanFlow
  <2>4. ASSUME NEW h \in a.found, qb'[h] # Null PROVE qb'[h].tags # {}
    <3>1. h \in Hashes
      BY <1>2, <1>4
    <3> QED BY <1>2, <1>4, <2>1, <2>4, <3>1, ListingsChange DEF CleanFlow
  <2>5. ASSUME NEW n \in Names, targets'[s][n] # targets[s][n]
        PROVE  /\ targets'[s][n] \in Foreign \cup {Irregular}
               /\ ~(a.pc = "remove" /\ n \in a.left)
    <3>1. UserFillsTarget
      BY <2>5 DEF World, QbLists, Comes, QbCompletes, QbForgets, QbErases, Republish,
             UserRemovesTorrent, UserAddsTorrent, UserRechecks, AttemptsLost, world
    <3>2. PICK o \in Subjects, m \in Names, x \in Foreign \cup {Irregular} :
            /\ ~(At(o, "remove") /\ m \in attempt[o].left)
            /\ targets' = [targets EXCEPT ![o][m] = x]
      BY <3>1 DEF UserFillsTarget
    <3>3. targets \in [Subjects -> [Names -> Files!Occupants]]
      BY DEF StateOK, WorldOK
    <3>4. o = s /\ m = n /\ targets'[s][n] = x
      BY <2>5, <3>2, <3>3
    <3> QED BY <1>2, <3>2, <3>4 DEF At
  <2>6. ASSUME a.pc \in {"remove", "deleted"}, NEW n \in a.left
        PROVE  targets'[s][n] \notin Foreign \cup {Irregular}
    BY <1>2, <2>5, <2>6 DEF CleanFlow
  <2>7. ASSUME a.pc \in {"remove", "deleted"}, NEW d \in DownloadsOf(row[s]),
               NEW n \in Names \ a.left, row[s].links[d.torrent][n] # "none"
        PROVE  targets'[s][n] \notin Copies
    BY <1>2, <2>5, <2>7, PathsAssumption DEF CleanFlow
  <2>8. a.pc = "deleted" => a.left = {}
    BY <1>2 DEF CleanFlow
  <2> QED BY <1>1, <2>3, <2>4, <2>6, <2>7, <2>8 DEF CleanFlow, DownloadsOf, Indices
<1> QED BY <1>3, <1>4

LEMMA CleanStep == StateOK /\ FlowInv /\ CleanInv /\ [Next]_vars => CleanInv'
<1> SUFFICES ASSUME StateOK, FlowInv, CleanInv, [Next]_vars PROVE CleanInv'
  OBVIOUS
<1>1. CASE UNCHANGED vars
  BY <1>1 DEF vars, CleanInv, CleanFlow, DownloadsOf, Indices, ListByTag
<1>2. CASE World
  BY <1>2, WorldKeepsCleanup
<1>3. ASSUME NEW s \in Subjects, Pushing(s) \/ Linking(s) \/ Replacing(s) \/ Commands(s)
      PROVE  CleanInv'
  <2>1. \A o \in Subjects \ {s} : row'[o] = row[o] /\ attempt'[o] = attempt[o]
    BY <1>3, OthersStand
  <2>2. UNCHANGED qb /\ \A o \in Subjects \ {s} : targets'[o] = targets[o]
    <3>1. targets \in [Subjects -> [Names -> Files!Occupants]]
      BY DEF StateOK, WorldOK
    <3>2. CASE Pushing(s)
      BY <3>2 DEF Pushing, Search, FetchTorrent, FetchFails, ListTagged, ListHashed, AddTorrent,
             VerifyAdded, CallFails, SettlePush, world
    <3>3. CASE Linking(s)
      BY <3>1, <3>3 DEF Linking, Progress, Link, LinkGivenUp, Probe, LinkFile, SettleLink, world
    <3>4. CASE Replacing(s)
      BY <3>1, <3>4 DEF Replacing, Replace, VerifyLinks, RemoveLink, DeleteTorrent, TorrentGone,
             SettleReplacement, world
    <3>5. CASE Commands(s)
      BY <3>5, CommandsChange DEF world
    <3> QED BY <1>3, <3>2, <3>3, <3>4, <3>5
  <2>3. ASSUME attempt'[s] # Null PROVE CleanFlow(s, attempt[s])'
    <3>1. CASE Replacing(s)
      BY <2>3, <3>1, ReplacingKeepsCleanup
    <3>2. CASE ~Replacing(s)
      <4>1. attempt'[s].pc \notin CleanPcs
        BY <1>3, <2>3, <3>2, NoCleanupBegins
      <4> QED BY <4>1 DEF CleanFlow, CleanPcs
    <3> QED BY <3>1, <3>2
  <2> QED BY <2>1, <2>2, <2>3, OwnCleanup
<1> QED BY <1>1, <1>2, <1>3 DEF Next

LEMMA CleanInit == Init => CleanInv
BY DEF Init, CleanInv

\* Whatever the user, qBittorrent and the other attempts do between the check of a cleanup
\* and its steps, every step of the program leaves alone what it finds at a path of the
\* library and did not link (apply_hardlinks, remove_verified_links), and asks qBittorrent to
\* delete only what carries a tag of the program (require_owned_torrent).
THEOREM NothingOfTheUsersGoes == Spec => UsersThingsKept
<1>1. ASSUME StateOK, CleanInv, [Next]_vars,
             NEW s \in Subjects, NEW n \in Names, targets[s][n] \in Foreign \cup {Irregular}
      PROVE  targets'[s][n] = targets[s][n]
  <2>0. targets \in [Subjects -> [Names -> Files!Occupants]]
    BY <1>1 DEF StateOK, WorldOK
  <2>1. CASE UNCHANGED targets
    BY <2>1
  <2>2. CASE World
    <3>1. CASE UserFillsTarget
      BY <1>1, <2>0, <3>1, PathsAssumption DEF UserFillsTarget
    <3> QED BY <2>1, <2>2, <3>1 DEF World, QbLists, Comes, QbCompletes, QbForgets, QbErases,
               Republish, UserRemovesTorrent, UserAddsTorrent, UserRechecks, AttemptsLost, world
  <2>3. ASSUME NEW o \in Subjects, Pushing(o) PROVE UNCHANGED targets
    BY <2>3 DEF Pushing, Search, FetchTorrent, FetchFails, ListTagged, ListHashed, AddTorrent,
           VerifyAdded, CallFails, SettlePush, world
  <2>4. ASSUME NEW o \in Subjects, Linking(o) PROVE targets'[s][n] = targets[s][n]
    <3>1. CASE LinkFile(o)
      <4>1. PICK m : LinkedOne(o, m)
        BY <1>1, <3>1, LinkFileKeepsState
      <4>2. OnlyFilled
        BY <1>1, <4>1, LinkedOneFills
      <4> QED BY <1>1, <4>2, PathsAssumption DEF OnlyFilled
    <3> QED BY <2>4, <3>1 DEF Linking, Progress, Link, LinkGivenUp, Probe, SettleLink, world
  <2>5. ASSUME NEW o \in Subjects, Replacing(o) PROVE targets'[s][n] = targets[s][n]
    <3>1. CASE RemoveLink(o)
      <4>1. PICK m \in attempt[o].left \cap Names : targets' = [targets EXCEPT ![o][m] = Null]
        BY <1>1, <3>1, RemoveLinkKeepsState
      <4>2. targets[o][m] \notin Foreign \cup {Irregular}
        BY <1>1, <3>1, <4>1 DEF CleanInv, CleanFlow, RemoveLink, At
      <4>3. <<o, m>> # <<s, n>>
        BY <1>1, <4>2
      <4> QED BY <2>0, <4>1, <4>3
    <3> QED BY <2>5, <3>1 DEF Replacing, Replace, VerifyLinks, DeleteTorrent, TorrentGone,
               SettleReplacement, world
  <2>6. ASSUME NEW o \in Subjects, Commands(o) PROVE UNCHANGED targets
    BY <1>1, <2>6, CommandsChange DEF world
  <2>7. UNCHANGED vars => UNCHANGED targets
    BY DEF vars
  <2> QED BY <1>1, <2>1, <2>2, <2>3, <2>4, <2>5, <2>6, <2>7 DEF Next
<1>2. ASSUME StateOK, CleanInv, [Next]_vars, NEW h \in doomed' \ doomed
      PROVE  qb[h].tags # {}
  <2>1. PICK s \in Subjects : DeleteTorrent(s)
    <3>1. ~UNCHANGED doomed
      BY <1>2
    <3>2. ~UNCHANGED vars
      BY <3>1 DEF vars
    <3>3. ASSUME World PROVE FALSE
      BY <1>2, <3>1, <3>3 DEF World, QbLists, Comes, QbCompletes, QbForgets, QbErases, Republish,
             UserRemovesTorrent, UserAddsTorrent, UserRechecks, UserFillsTarget, AttemptsLost, world
    <3>4. ASSUME NEW s \in Subjects, Pushing(s) \/ Linking(s) \/ Commands(s) PROVE FALSE
      <4>1. CASE Pushing(s)
        BY <3>1, <4>1 DEF Pushing, Search, FetchTorrent, FetchFails, ListTagged, ListHashed,
               AddTorrent, VerifyAdded, CallFails, SettlePush, world
      <4>2. CASE Linking(s)
        BY <3>1, <4>2 DEF Linking, Progress, Link, LinkGivenUp, Probe, LinkFile, SettleLink, world
      <4>3. CASE Commands(s)
        BY <1>2, <3>1, <4>3, CommandsChange DEF world
      <4> QED BY <3>4, <4>1, <4>2, <4>3
    <3>5. ASSUME NEW s \in Subjects, Replacing(s) PROVE DeleteTorrent(s)
      BY <3>1, <3>5 DEF Replacing, Replace, VerifyLinks, RemoveLink, TorrentGone,
             SettleReplacement, world
    <3> QED BY <1>2, <3>2, <3>3, <3>4, <3>5 DEF Next
  <2>2. PICK g \in attempt[s].found : doomed' = doomed \cup {f \in {g} : qb[f] # Null}
    BY <2>1 DEF DeleteTorrent
  <2>3. h = g /\ qb[h] # Null
    BY <1>2, <2>2
  <2> QED BY <1>2, <2>1, <2>2, <2>3 DEF CleanInv, CleanFlow, DeleteTorrent, At, CleanPcs
<1>3. StateOK /\ CleanInv /\ [Next]_vars =>
        [/\ \A s \in Subjects, n \in Names :
              targets[s][n] \in Foreign \cup {Irregular} => targets'[s][n] = targets[s][n]
         /\ \A h \in doomed' \ doomed : qb[h].tags # {}]_vars
  BY <1>1, <1>2
<1> QED BY <1>3, StateInit, StateStep, FlowInit, FlowStep, CleanInit, CleanStep, PTL
        DEF Spec, UsersThingsKept

\* A replacement that lets go of its downloads has first had qBittorrent forget every torrent
\* that carries their tags, seen the last file and partial file of what is journaled
\* disappear, and removed the links: nothing stays behind that no row knows of.
THEOREM NothingIsLeftBehind == Spec => ForgottenIsGone
<1>1. ASSUME StateOK, CleanInv, [Next]_vars,
             NEW s \in Subjects, row[s].pending, ~row'[s].pending
      PROVE  /\ \A d \in DownloadsOf(row[s]) : ListByTag(qb, StableKey(s, d.torrent)) = {}
             /\ \A source \in JournaledSources(row[s]) :
                  source[1] = Null \/ sources[source[1]][source[2]] = 0
             /\ \A file \in JournaledLinks(row[s]) : targets[s][file[2]] \notin Copies
  <2>0. row \in [Subjects -> Rows] /\ row' # row
    BY <1>1 DEF StateOK
  <2>1. SettleReplacement(s)
    <3>1. ~UNCHANGED vars
      BY <2>0 DEF vars
    <3>2. ~World
      BY <1>1, <2>0, WorldKeepsState
    <3>3. ASSUME NEW o \in Subjects, o # s,
                 Pushing(o) \/ Linking(o) \/ Replacing(o) \/ Commands(o)
          PROVE  FALSE
      BY <1>1, <3>3, OthersStand
    <3>4. ~Commands(s)
      <4> SUFFICES ASSUME Commands(s) PROVE FALSE
        OBVIOUS
      <4>1. PICK q : row' = [row EXCEPT ![s] = q] /\ (row[s].pending => q.pending)
        BY <1>1, CommandsChange
      <4> QED BY <1>1, <2>0, <4>1
    <3>5. ~Linking(s)
      BY <1>1, LinkingIsNotPending
    <3>6. ~Pushing(s)
      <4> SUFFICES ASSUME Pushing(s) PROVE FALSE
        OBVIOUS
      <4>1. \A pc \in PushPcs : ~At(s, pc)
        BY <1>1 DEF StateOK, SubjectOK, AttemptFits, At
      <4>2. ~Search(s)
        BY <1>1 DEF Search
      <4> QED BY <4>1, <4>2 DEF Pushing, FetchTorrent, FetchFails, ListTagged, ListHashed,
                 AddTorrent, VerifyAdded, CallFails, SettlePush, PushPcs
    <3>7. ~Replace(s)
      <4> SUFFICES ASSUME Replace(s) PROVE FALSE
        OBVIOUS
      <4>1. PICK q : row' = [row EXCEPT ![s] = q] /\ q.pending
        BY <1>1, <2>0, ReplaceChanges
      <4> QED BY <1>1, <2>0, <4>1
    <3>8. ~(VerifyLinks(s) \/ RemoveLink(s) \/ DeleteTorrent(s) \/ TorrentGone(s))
      BY <2>0 DEF VerifyLinks, RemoveLink, DeleteTorrent, TorrentGone
    <3> QED BY <1>1, <3>1, <3>2, <3>3, <3>4, <3>5, <3>6, <3>7, <3>8 DEF Next, Replacing
  <2>2. /\ attempt[s] # Null /\ attempt[s].pc = "remove"
        /\ attempt[s].left = {} /\ attempt[s].found = {}
    BY <2>1 DEF SettleReplacement, At
  <2>3. CleanFlow(s, attempt[s])
    BY <1>1, <2>2 DEF CleanInv
  <2>4. NothingLeft(row[s])
    BY <1>1, <2>0, <2>1, SettleReplacementChanges
  <2>5. \A d \in DownloadsOf(row[s]) : ListByTag(qb, StableKey(s, d.torrent)) = {}
    BY <2>2, <2>3 DEF CleanFlow, CleanPcs
  <2>6. ASSUME NEW file \in JournaledLinks(row[s]) PROVE targets[s][file[2]] \notin Copies
    <3>1. /\ file[1] \in DownloadsOf(row[s]) /\ file[2] \in Names
          /\ row[s].links[file[1].torrent][file[2]] # "none"
      BY <2>6 DEF JournaledLinks, Journaled
    <3> QED BY <2>2, <2>3, <3>1 DEF CleanFlow
  <2> QED BY <2>4, <2>5, <2>6 DEF NothingLeft
<1>2. StateOK /\ CleanInv /\ [Next]_vars =>
        [\A s \in Subjects : row[s].pending /\ ~row'[s].pending =>
           /\ \A d \in DownloadsOf(row[s]) : ListByTag(qb, StableKey(s, d.torrent)) = {}
           /\ \A source \in JournaledSources(row[s]) :
                source[1] = Null \/ sources[source[1]][source[2]] = 0
           /\ \A file \in JournaledLinks(row[s]) : targets[s][file[2]] \notin Copies]_vars
  BY <1>1
<1> QED BY <1>2, StateInit, StateStep, FlowInit, FlowStep, CleanInit, CleanStep, PTL
        DEF Spec, ForgottenIsGone

-----------------------------------------------------------------------------
(* What the repository refuses.                                             *)

\* The first of the five places that tells something is one of them.
LEMMA FirstTelling ==
  ASSUME NEW telling, telling \subseteq 1 .. 5, telling # {}
  PROVE  (CHOOSE i \in telling : \A j \in telling : i <= j) \in telling
<1>1. telling \subseteq Nat
  OBVIOUS
<1>2. \E i \in telling : \A j \in telling : i <= j
  BY <1>1, LeastOf
<1> QED BY <1>2

\* A name without a zero in Chinese is recognized as something that the validation accepts.
LEMMA MarkerIsValid ==
  ASSUME NEW n \in Names, ~ZeroInChinese(n), NEW season \in Nat \cup {Null}, season # 0
  PROVE  Rules!FileRangeValid(Rules!Marker(FileNames[n], season))
<1> DEFINE name == FileNames[n]
           telling == {i \in 1 .. 5 : Rules!Tells(name, i)}
           first == CHOOSE i \in telling : \A j \in telling : i <= j
           numbers == name[Rules!Places[first]]
           coverage == Rules!Recognize(name)
<1>0. Null # 0
  BY PathsAssumption
<1>1. CASE telling = {}
  <2>1. coverage = Null
    BY <1>1 DEF Rules!Recognize
  <2>2. Rules!Marker(name, season) = [season |-> Null, first |-> Null, last |-> Null]
    BY <2>1 DEF Rules!Marker, Rules!Coverage
  <2> QED BY <1>0, <2>2 DEF Rules!FileRangeValid
<1>2. CASE telling # {}
  <2>1. first \in telling
    <3>1. telling \subseteq 1 .. 5
      OBVIOUS
    <3> HIDE DEF telling
    <3> QED BY <1>2, <3>1, FirstTelling
  <2>2. /\ numbers.season \in (Nat \cup {Null}) \ {0}
        /\ numbers.first \in (Nat \cup {Null}) \ {0}
        /\ numbers.last \in Nat \cup {Null}
        /\ first # 5 => numbers.first # Null
    <3> HIDE DEF first
    <3>1. first \in 1 .. 5 /\ Rules!Places[first] \in DOMAIN name
      BY <2>1 DEF Rules!Tells
    <3>2. Rules!Positive(numbers)
      BY <2>1 DEF Rules!Tells, ZeroInChinese, Rules!Places
    <3>3. first # 5 => Rules!Places[first] # "pack"
      BY <3>1 DEF Rules!Places
    <3> QED BY <3>1, <3>2, <3>3, ShownAssumption DEF Rules!Positive
  <2>3. coverage = IF first = 5 THEN Rules!SeasonPack(numbers.season)
                   ELSE Rules!RangeOrEpisode(numbers.season, numbers.first, numbers.last)
    BY <1>2 DEF Rules!Recognize
  <2> HIDE DEF first, numbers, telling, coverage
  <2>4. \E x \in (Nat \cup {Null}) \ {0}, y \in (Nat \cup {Null}) \ {0}, z \in (Nat \cup {Null}) \ {0} :
          /\ coverage = [season |-> x, first |-> y, last |-> z]
          /\ z # Null => y # Null /\ y <= z
    <3>1. CASE first = 5
      <4>1. coverage = [season |-> numbers.season, first |-> Null, last |-> Null]
        BY <2>3, <3>1 DEF Rules!SeasonPack, Rules!Coverage
      <4> QED BY <1>0, <2>2, <4>1
    <3>2. CASE first # 5
      <4> DEFINE last == IF numbers.last # Null /\ numbers.last > numbers.first
                         THEN numbers.last ELSE numbers.first
      <4>1. coverage = [season |-> numbers.season, first |-> numbers.first, last |-> last]
        BY <2>3, <3>2 DEF Rules!RangeOrEpisode, Rules!Coverage
      <4>2. last \in Nat \ {0} /\ numbers.first \in Nat /\ numbers.first <= last
        BY <2>2, <3>2
      <4> QED BY <2>2, <3>2, <4>1, <4>2
    <3> QED BY <3>1, <3>2
  <2>5. PICK x \in (Nat \cup {Null}) \ {0}, y \in (Nat \cup {Null}) \ {0}, z \in (Nat \cup {Null}) \ {0} :
          /\ coverage = [season |-> x, first |-> y, last |-> z]
          /\ z # Null => y # Null /\ y <= z
    BY <2>4
  <2> DEFINE told == IF x = Null THEN season ELSE x
  <2>6. coverage # Null => Rules!Marker(name, season) = [season |-> told, first |-> y, last |-> z]
    BY <2>5 DEF Rules!Marker, coverage
  <2>7. coverage = Null => Rules!Marker(name, season) = [season |-> Null, first |-> Null, last |-> Null]
    BY DEF Rules!Marker, Rules!Coverage, coverage
  <2>8. told # 0
    BY <2>5
  <2> HIDE DEF told
  <2> QED BY <1>0, <2>5, <2>6, <2>7, <2>8 DEF Rules!FileRangeValid
<1> QED BY <1>1, <1>2

\* Whatever came of a torrent's files, the state of the link that is reported is the one the
\* repository derives from them.
LEMMA ReportedIsDerived ==
  ASSUME NEW outcomes, outcomes # {}, outcomes \subseteq Files!Outcomes \ {"pending"}
  PROVE  Rules!ReportedLinkState(outcomes) = Rules!DerivedLinkState(outcomes)
<1>1. CASE outcomes = {"linked"}
  BY <1>1 DEF Rules!ReportedLinkState, Rules!DerivedLinkState
<1>2. CASE "linked" \in outcomes /\ outcomes # {"linked"}
  BY <1>2 DEF Rules!ReportedLinkState, Rules!DerivedLinkState
<1>3. CASE "linked" \notin outcomes
  <2>1. outcomes # {"linked"} /\ outcomes \cap {"failed", "missing", "conflict"} # {}
    BY <1>3 DEF Files!Outcomes
  <2> QED BY <1>3, <2>1 DEF Rules!ReportedLinkState, Rules!DerivedLinkState
<1> QED BY <1>1, <1>2, <1>3

\* The names of the files in a row's downloads and links.
NamedIn(r) ==
  {n \in Names : \/ \E d \in DownloadsOf(r) : n \in d.files
                 \/ \E t \in Torrents : r.links[t][n] # "none"}

SeasonOf(r) == IF r.tv = Null THEN Null ELSE r.tv.season

NamesAccepted(r) ==
  \A n \in NamedIn(r) : Rules!FileRangeValid(Rules!Marker(FileNames[n], SeasonOf(r)))

\* Of a row as the attempts and the commands make it, the validation refuses nothing but
\* what the names of its files say.
LEMMA OnlyNamesAreRefused ==
  ASSUME NEW k, NEW r, RowOK(k, r)
  PROVE  Accepted(r) <=> NamesAccepted(r)
<1>1. r \in Rows /\ r.downloads \in Seq(AnyDownload)
  BY DEF RowOK, Rows, AnyDownload
<1>2. /\ r.tv # Null => Rules!TvValid(r.tv)
      /\ Rules!UniqueDownloads(r.downloads)
  BY DEF RowOK
<1>3. \A i \in 1 .. Len(r.downloads) : r.downloads[i].files \subseteq Names
  <2>1. \A i \in 1 .. Len(r.downloads) : r.downloads[i] \in AnyDownload
    BY <1>1
  <2> QED BY <2>1 DEF AnyDownload
<1>4. DOMAIN r.links = Torrents /\ \A t \in Torrents : DOMAIN r.links[t] = Names
  BY <1>1 DEF Rows
<1>5. ASSUME NEW t \in Torrents PROVE Rules!LinkValid(r, t)
  <2> DEFINE made == Rules!LinksOf(r, t)
             outcomes == {r.links[t][n] : n \in made}
  <2> SUFFICES ASSUME made # {}
               PROVE  /\ \E i \in 1 .. Len(r.downloads) : r.downloads[i].torrent = t
                      /\ Rules!ReportedLinkState(outcomes) = Rules!DerivedLinkState(outcomes)
    BY DEF Rules!LinkValid
  <2>1. made = {n \in Names : r.links[t][n] # "none"}
    BY <1>4 DEF Rules!LinksOf
  <2>2. \A n \in made : r.links[t][n] \in Files!Outcomes \ {"pending"}
    BY <1>1, <2>1 DEF RowOK, Rows
  <2>3. outcomes # {} /\ outcomes \subseteq Files!Outcomes \ {"pending"}
    <3> HIDE DEF made
    <3> QED BY <2>2
  <2>4. Recorded(r, t) # {}
    BY <2>1 DEF RowOK
  <2>5. \E i \in 1 .. Len(r.downloads) : r.downloads[i].torrent = t
    BY <2>4 DEF Recorded, DownloadsOf, Indices
  <2> HIDE DEF outcomes
  <2> QED BY <2>3, <2>5, ReportedIsDerived
<1> DEFINE Fine(n) == Rules!FileRangeValid(Rules!Marker(FileNames[n], SeasonOf(r)))
<1>6. Accepted(r) <=>
        /\ \A i \in 1 .. Len(r.downloads) : \A n \in r.downloads[i].files : Fine(n)
        /\ \A t \in Torrents : \A n \in Rules!LinksOf(r, t) : Fine(n)
  BY <1>2, <1>4, <1>5 DEF Accepted, Rules!PayloadValid, SeasonOf
<1>7. \A t \in Torrents : Rules!LinksOf(r, t) = {n \in Names : r.links[t][n] # "none"}
  BY <1>4 DEF Rules!LinksOf
<1> HIDE DEF Fine
<1>8. Accepted(r) <=> \A n \in NamedIn(r) : Fine(n)
  BY <1>3, <1>6, <1>7 DEF NamedIn, DownloadsOf, Indices
<1> QED BY <1>8 DEF NamesAccepted, Fine

\* ... and of the names nothing but a zero in Chinese.
LEMMA OnlyZerosAreRefused ==
  ASSUME NEW k, NEW r, RowOK(k, r)
  PROVE  Accepted(r) \/ ShowsZero(r)
<1>1. r \in Rows /\ (r.tv # Null => Rules!TvValid(r.tv))
  BY DEF RowOK
<1>2. SeasonOf(r) \in Nat \cup {Null} /\ SeasonOf(r) # 0
  <2>1. CASE r.tv = Null
    BY <2>1, PathsAssumption DEF SeasonOf
  <2>2. CASE r.tv # Null
    BY <1>1, <2>2 DEF Rows, Rules!TvValid, SeasonOf
  <2> QED BY <2>1, <2>2
<1>3. ASSUME ~ShowsZero(r) PROVE NamesAccepted(r)
  <2>1. \A n \in NamedIn(r) : n \in Names /\ ~ZeroInChinese(n)
    BY <1>3 DEF ShowsZero, NamedIn
  <2> QED BY <1>2, <2>1, MarkerIsValid DEF NamesAccepted
<1> QED BY <1>3, OnlyNamesAreRefused

\* What brings no new names and leaves the season is not refused.
LEMMA StaysAccepted ==
  ASSUME NEW k, NEW r, NEW q, RowOK(k, r), RowOK(k, q), Accepted(r),
         q.tv = r.tv, NamedIn(q) \subseteq NamedIn(r)
  PROVE  Accepted(q)
<1>1. NamesAccepted(r)
  BY OnlyNamesAreRefused
<1>2. NamesAccepted(q)
  BY <1>1 DEF NamesAccepted, SeasonOf
<1> QED BY <1>2, OnlyNamesAreRefused

RowsAccepted == \A s \in Subjects : Accepted(row[s])

\* A search, a push that is settled and a command bring no names.
LEMMA NoNewNames ==
  ASSUME NEW s \in Subjects, StateOK, row' # row,
         \/ Search(s) \/ FetchTorrent(s) \/ FetchFails(s) \/ SettlePush(s)
         \/ SettleReplacement(s) \/ (Commands(s) /\ ~LoadMeta(s))
  PROVE  /\ row'[s].tv = row[s].tv /\ NamedIn(row'[s]) \subseteq NamedIn(row[s])
         /\ \A o \in Subjects \ {s} : row'[o] = row[o]
<1> DEFINE r == row[s]
<1>1. r \in Rows /\ row \in [Subjects -> Rows] /\ r.downloads \in Seq(AnyDownload)
  BY DEF StateOK, Rows, AnyDownload
<1>2. ASSUME NEW a, row' = [row EXCEPT ![s] = Searched(r, a)]
      PROVE  /\ row'[s].tv = r.tv /\ NamedIn(row'[s]) \subseteq NamedIn(r)
             /\ \A o \in Subjects \ {s} : row'[o] = row[o]
  <2> DEFINE q == Searched(r, a)
  <2>1. q.tv = r.tv /\ q.downloads = r.downloads /\ q.links = r.links
    BY <1>1 DEF Searched, Rows
  <2>2. row'[s] = q /\ \A o \in Subjects \ {s} : row'[o] = row[o]
    BY <1>1, <1>2
  <2> HIDE DEF q
  <2>3. NamedIn(q) \subseteq NamedIn(r)
    BY <2>1 DEF NamedIn, DownloadsOf, Indices
  <2> QED BY <2>1, <2>2, <2>3
<1>3. ASSUME NEW q, row' = [row EXCEPT ![s] = q], q.tv = r.tv,
             \A d \in DownloadsOf(q) : d.files = {} \/ \E e \in DownloadsOf(r) : d.files = e.files,
             \A t \in Torrents, n \in Names : q.links[t][n] # "none" => r.links[t][n] # "none"
      PROVE  /\ row'[s].tv = r.tv /\ NamedIn(row'[s]) \subseteq NamedIn(r)
             /\ \A o \in Subjects \ {s} : row'[o] = row[o]
  <2>1. row'[s] = q /\ \A o \in Subjects \ {s} : row'[o] = row[o]
    BY <1>1, <1>3
  <2>2. NamedIn(q) \subseteq NamedIn(r)
    BY <1>3 DEF NamedIn
  <2> QED BY <1>3, <2>1, <2>2
<1>4. CASE Search(s) \/ FetchTorrent(s) \/ FetchFails(s)
  <2>1. \E a : row' = [row EXCEPT ![s] = Searched(r, a)]
    BY <1>1, <1>4 DEF Search, FetchTorrent, FetchFails, GiveUpSearch
  <2> QED BY <1>2, <2>1
<1>5. CASE SettlePush(s)
  <2>1. PICK q, update : /\ row' = [row EXCEPT ![s] = q] /\ Learns(r, q, update)
                         /\ update \in AnyDownload /\ update.files = {}
    BY <1>5, SettlePushChanges
  <2>2. /\ q.downloads = MergedDownload(r.downloads, update)
        /\ q.links = r.links /\ q.tv = r.tv
    BY <2>1 DEF Learns
  <2> HIDE DEF r
  <2>3. \A d : d \in DownloadsOf(q) => d = update \/ d \in DownloadsOf(r)
    BY <1>1, <2>1, <2>2, MergedSet
  <2>4. \A d \in DownloadsOf(q) : d.files = {} \/ \E e \in DownloadsOf(r) : d.files = e.files
    BY <2>1, <2>3
  <2> QED BY <1>3, <2>1, <2>2, <2>4 DEF r
<1>6. CASE SettleReplacement(s)
  <2>1. PICK q : /\ row' = [row EXCEPT ![s] = q] /\ DownloadsOf(q) = {} /\ q.links = NoLinks
                 /\ q.tv = r.tv
    BY <1>6, SettleReplacementChanges
  <2>2. \A t \in Torrents, n \in Names : q.links[t][n] # "none" => r.links[t][n] # "none"
    BY <2>1 DEF NoLinks
  <2>3. \A d \in DownloadsOf(q) : d.files = {} \/ \E e \in DownloadsOf(r) : d.files = e.files
    BY <2>1
  <2>4. row' = [row EXCEPT ![s] = q] /\ q.tv = r.tv
    BY <2>1
  <2> HIDE DEF r
  <2>5. /\ row'[s].tv = r.tv /\ NamedIn(row'[s]) \subseteq NamedIn(r)
        /\ \A o \in Subjects \ {s} : row'[o] = row[o]
    BY <1>3, <2>2, <2>3, <2>4
  <2> QED BY <2>5 DEF r
<1>7. CASE Commands(s) /\ ~LoadMeta(s)
  <2>1. PICK q : /\ row' = [row EXCEPT ![s] = q] /\ q.links = r.links /\ q.tv = r.tv
                 /\ \A d \in DownloadsOf(q) : \E e \in DownloadsOf(r) : d.files = e.files
    BY <1>7, CommandsChange
  <2> QED BY <1>3, <2>1
<1> QED BY <1>4, <1>5, <1>6, <1>7

LEMMA AcceptedStep == StateOK /\ RowsAccepted /\ [Next]_vars => RowsAccepted'
<1> SUFFICES ASSUME StateOK, RowsAccepted, [Next]_vars PROVE RowsAccepted'
  OBVIOUS
<1>1. CASE UNCHANGED row
  BY <1>1 DEF RowsAccepted
<1>2. CASE World
  BY <1>1, <1>2, WorldKeepsState
<1>3. ASSUME NEW s \in Subjects, row' # row,
             Pushing(s) \/ Linking(s) \/ Replacing(s) \/ Commands(s)
      PROVE  RowsAccepted'
  <2>1. UNCHANGED kind /\ \A o \in Subjects \ {s} : row'[o] = row[o]
    BY <1>3, OthersStand
  <2>2. StateOK'
    BY StateStep
  <2>3. RowOK(kind[s], row[s]) /\ RowOK(kind[s], row'[s])
    BY <2>1, <2>2 DEF StateOK, SubjectOK
  <2>4. CASE Progress(s) \/ Link(s) \/ LinkGivenUp(s) \/ SettleLink(s) \/ Replace(s)
             \/ LoadMeta(s)
    <3>1. Accepted(row'[s])
      BY <2>4 DEF Progress, Link, LinkGivenUp, SettleLink, Replace, LoadMeta
    <3> QED BY <2>1, <3>1 DEF RowsAccepted
  <2>5. CASE \/ Search(s) \/ FetchTorrent(s) \/ FetchFails(s) \/ SettlePush(s)
             \/ SettleReplacement(s) \/ (Commands(s) /\ ~LoadMeta(s))
    <3>1. row'[s].tv = row[s].tv /\ NamedIn(row'[s]) \subseteq NamedIn(row[s])
      BY <1>3, <2>5, NoNewNames
    <3>2. Accepted(row'[s])
      BY <2>3, <3>1, StaysAccepted DEF RowsAccepted
    <3> QED BY <2>1, <3>2 DEF RowsAccepted
  <2>6. CASE ListTagged(s) \/ ListHashed(s) \/ AddTorrent(s) \/ VerifyAdded(s) \/ CallFails(s)
    BY <1>3, <2>6 DEF ListTagged, ListHashed, AddTorrent, VerifyAdded, CallFails
  <2>7. CASE \/ Probe(s) \/ LinkFile(s) \/ VerifyLinks(s) \/ RemoveLink(s) \/ DeleteTorrent(s)
             \/ TorrentGone(s)
    BY <1>3, <2>7 DEF Probe, LinkFile, VerifyLinks, RemoveLink, DeleteTorrent, TorrentGone
  <2> QED BY <1>3, <2>4, <2>5, <2>6, <2>7 DEF Pushing, Linking, Replacing
<1>4. UNCHANGED vars => UNCHANGED row
  BY DEF vars
<1> QED BY <1>1, <1>2, <1>3, <1>4 DEF Next

LEMMA AcceptedInit == Init => RowsAccepted
<1> SUFFICES ASSUME Init, NEW s \in Subjects PROVE Accepted(row[s])
  BY DEF RowsAccepted
<1>1. RowOK(kind[s], row[s])
  BY StateInit DEF StateOK, SubjectOK
<1>2. NamedIn(row[s]) = {}
  BY DEF Init, NewRow, NoLinks, NamedIn, DownloadsOf, Indices
<1> QED BY <1>1, <1>2, OnlyNamesAreRefused DEF NamesAccepted

\* What the attempts would write is a row as it should be, but for the zeroth season.
LEMMA ReportIsOK ==
  ASSUME NEW s \in Subjects, StateOK, NEW report \in Reports(s)
  PROVE  RowOK(kind[s], report) \/ ShowsZero(report)
<1> DEFINE r == row[s]
           d == CurrentDownload(r)
           h == Observed(s, d).hash
<1>1. CASE /\ r.stage = "meta" /\ kind[s] = "tv"
           /\ \E tv \in Details : report = Loaded(r, tv)
  <2>1. PICK tv \in Details : report = Loaded(r, tv)
    BY <1>1
  <2>2. tv # Null /\ tv \in [season: Nat, last: Nat]
    BY DetailIsTyped
  <2>3. report.tv = tv /\ (tv.season > 0 => RowOK(kind[s], report))
    BY <1>1, <2>1, LoadedIsOK
  <2>4. tv.season > 0 \/ tv.season = 0
    BY <2>2
  <2> QED BY <2>2, <2>3, <2>4 DEF ShowsZero
<1>2. CASE /\ r.stage \in {"downloading", "linking"} /\ d # Null
           /\ Observed(s, d).decision = "use"
           /\ report = WithDownload(r, Inspected(d, h), r.stage)
  <2>1. d \in AnyDownload /\ d.hash \in Hashes
    BY <1>2, CurrentFacts
  <2>2. h = d.hash
    BY <1>2, <2>1, ObserveFacts DEF Observed
  <2>3. Inspected(d, h) \in AnyDownload /\ Inspected(d, h).hash \in Hashes
    BY <2>1, <2>2, InspectedIsLive
  <2>4. RowOK(kind[s], r) /\ ~r.pending
    BY <1>2 DEF StateOK, SubjectOK, RowOK
  <2> HIDE DEF d, h
  <2> QED BY <1>2, <2>3, <2>4, MergedIsOK
<1>3. CASE At(s, "probe") /\ report = WithDownload(r, attempt[s].update, r.stage)
  <2>1. /\ attempt[s].update \in AnyDownload /\ attempt[s].update.hash \in Hashes
        /\ RowOK(kind[s], r) /\ r.stage = "linking" /\ ~r.pending
    BY <1>3, LinkingFacts DEF At, LinkPcs
  <2> QED BY <1>3, <2>1, MergedIsOK
<1>4. CASE EveryFileTried(s) /\ report = LinkReport(s)
  BY <1>4, LinkReportIsOK DEF EveryFileTried
<1>5. CASE r.pending /\ report = Readied(s, r)
  BY <1>5, ReadiedIsOK
<1> QED BY <1>1, <1>2, <1>3, <1>4, <1>5 DEF Reports

\* Whatever the tracker, qBittorrent, Douban and TMDB answer, whatever the files are named
\* and however attempts are cut off, repeated or meet a changed world: what is written is
\* valid, and the validation refuses the report of no attempt that loads a series, sees or
\* links a download or prepares a replacement, unless a title says season 0 or a file
\* episode 0 in Chinese.  Any other refusal would be repeated with each retry, for ever.
THEOREM PayloadsAreAccepted == Spec => []ReportsAccepted
<1>1. StateOK /\ RowsAccepted => ReportsAccepted
  <2> SUFFICES ASSUME StateOK, RowsAccepted, NEW s \in Subjects, NEW report \in Reports(s)
               PROVE  Accepted(report) \/ ShowsZero(report)
    BY DEF ReportsAccepted, RowsAccepted
  <2> QED BY ReportIsOK, OnlyZerosAreRefused
<1> QED BY <1>1, StateInit, StateStep, AcceptedInit, AcceptedStep, PTL DEF Spec
=============================================================================
