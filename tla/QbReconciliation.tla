-------------------------- MODULE QbReconciliation --------------------------
(***************************************************************************)
(* The decision an attempt takes before it adds a torrent: what qBittorrent *)
(* lists under the effect's stable tag and under the torrent's hash decides *)
(* whether an earlier add is found again, a torrent must be added, or the   *)
(* listings contradict each other and nothing may be done.                 *)
(*                                                                         *)
(* A qBittorrent server is a function from hashes to the torrent it has, or *)
(* Null.  The SHA-256 key of account, subject, tracker torrent and          *)
(* operation is the pair of subject and tracker torrent: it is injective in *)
(* them, and one account is modelled.                                      *)
(***************************************************************************)
CONSTANTS Subjects, Torrents, Hashes, Null

ASSUME NullAssumption == Null \notin Hashes \cup Torrents \cup Subjects

EffectKeys == Subjects \X Torrents

StableKey(s, t) == <<s, t>>

\* What qBittorrent keeps of a torrent: the effect keys among its tags.
QbTorrents == [tags: SUBSET EffectKeys, complete: BOOLEAN]

Servers == [Hashes -> QbTorrents \cup {Null}]

\* list_torrents_by_exact_tag and list_torrents_by_hashes
ListByTag(server, key) ==
  {h \in Hashes : server[h] # Null /\ key \in server[h].tags}

ListByHash(server, hash) == {h \in {hash} \ {Null} : server[h] # Null}

\* A request knows the hash the row stored, else the one of the torrent file.
HashesDisagree(stored, selected) ==
  stored # Null /\ selected # Null /\ stored # selected

AuthoritativeHash(stored, selected) == IF stored # Null THEN stored ELSE selected

\* Mutant: a torrent that carries the tag is not looked at when the hash is known.
ReconcileByHash(key, hash, tagged, hashed) ==
  CASE hash # Null /\ hash \in hashed -> [decision |-> "use", hash |-> hash]
    [] hash = Null /\ tagged # {}     -> [decision |-> "use", hash |-> CHOOSE h \in tagged : TRUE]
    [] OTHER                          -> [decision |-> "add", hash |-> Null]

\* tagged and hashed are what the two listings returned.
Contradictory(hash, tagged) ==
  (\E g, h \in tagged : g # h) \/ (hash # Null /\ \E h \in tagged : h # hash)

Reconcile(key, hash, tagged, hashed) ==
  IF Contradictory(hash, tagged) THEN [decision |-> "conflict", hash |-> Null]
  ELSE CASE hash # Null /\ hash \in tagged \cup hashed -> [decision |-> "use", hash |-> hash]
         [] hash = Null /\ tagged # {} ->
              [decision |-> "use", hash |-> CHOOSE h \in tagged : TRUE]
         [] OTHER -> [decision |-> "add", hash |-> Null]

\* observe_download: both listings of a download the row has, and the decision.
Observe(server, key, stored) ==
  Reconcile(key, stored, ListByTag(server, key), ListByHash(server, stored))

\* require_owned_torrent: our tag, and no other subscription's.
Owned(torrent, key) == torrent.tags = {key}
=============================================================================
