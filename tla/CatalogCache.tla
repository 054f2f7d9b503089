----------------------------- MODULE CatalogCache -----------------------------
(***************************************************************************)
(* The JSON cache of the Douban catalogue: a directory of files, shared by *)
(* the requests of `DoubanCatalogService` and by a cleaner, without a lock. *)
(*                                                                         *)
(* `library` answers with the account's two lists, from the cache or from  *)
(* Douban.  `mark_interest` changes a list on Douban, removes the cached   *)
(* lists of the account and counts the tags of the mark in a history that  *)
(* is kept in the same directory.  `TmdbDiskCache` writes a file under a   *)
(* temporary name, which all writers of one key share, and renames it; it  *)
(* decides by a file's age what has expired, and removes that by name.     *)
(*                                                                         *)
(* The cache of TMDB is a directory of its own that requests use as        *)
(* `library` does, without anything that invalidates it.  Failures to read *)
(* or write a file are modelled, failures to remove one are not.           *)
(***************************************************************************)
EXTENDS Integers, FiniteSets

CONSTANTS
    Accounts,       \* what `auth_cache_key_fragment` makes of the cookies in use
    Limits,         \* the limits clients ask for, clamped
    Tags,           \* the words marks are tagged with
    WantedTags,     \* the tags of the configured categories
    Requests,       \* places of requests that run at the same time
    MaxRepeats,     \* bound: how often a mark has the same word
    MaxMarks,       \* bound: marks Douban accepts
    MaxIncidents,   \* bound: changes of the account, failed writes, dropped
                    \* requests, deaths of the process
    Empty, Torn,    \* a file without content, and one that does not parse
    Null

ASSUME CacheConstants ==
    /\ WantedTags \subseteq Tags /\ IsFiniteSet(Tags)
    /\ Accounts # {} /\ Limits # {} /\ Limits \subseteq Nat \ {0}
    /\ MaxRepeats \in Nat /\ MaxMarks \in Nat /\ MaxIncidents \in Nat

VARIABLES
    account,        \* the account of the configured cookie
    lists,          \* account -> how often its lists on Douban have changed
    tagged,         \* account -> tag -> uses of it in marks that Douban accepted
    files,          \* path -> the content of a cache file, Null if there is none
    requests,       \* place -> what a running request has come to, or Null
    settled,        \* history: account -> the change every later answer shows
    incidents       \* how many there were

vars == <<account, lists, tagged, files, requests, settled, incidents>>

-------------------------------------------------------------------------------
(* The directory *)

LibraryKey(a, limit) == <<"library", a, limit>>

\* `douban_tag_history_cache_key`
HistoryKey(a) == <<"history", a>>

LibraryKeys(a) == {LibraryKey(a, limit) : limit \in Limits}

Keys == UNION {LibraryKeys(a) \cup {HistoryKey(a)} : a \in Accounts}

\* `path_for` and the temporary name `put` derives from it.
Final(k) == <<"json", k>>
Temporary(k) == <<"tmp", k>>
Paths == {Final(k) : k \in Keys} \cup {Temporary(k) : k \in Keys}

\* No file has the name of what is not there.
ASSUME NullAssumption == Null \notin Paths

At(r, pc) == requests[r] # Null /\ requests[r].pc = pc

\* The requests that have the file at a path open for writing.
Writers(path) == {r \in Requests : At(r, "write") /\ requests[r].handle = path}

\* A file that is renamed or removed keeps its writers.
Moved(path, to) ==
    [r \in Requests |->
       IF r \in Writers(path) THEN [requests[r] EXCEPT !.handle = to] ELSE requests[r]]

Holds(path) == files[path] # Null
Parses(path) == Holds(path) /\ files[path] \notin {Empty, Torn}

\* What is new beside, or in the place of, what there was.
With(known, new) ==
    [x \in DOMAIN known \cup DOMAIN new |-> IF x \in DOMAIN new THEN new[x] ELSE known[x]]

\* A request goes on to its next step, with what it has learned.
Continue(rs, r, pc, more) == [rs EXCEPT ![r] = With([@ EXCEPT !.pc = pc], more)]

Ended(rs, r) == [rs EXCEPT ![r] = Null]

douban == <<account, lists, tagged, settled>>
Incident == incidents < MaxIncidents /\ incidents' = incidents + 1

-------------------------------------------------------------------------------
(* A list is asked for *)

IsLibrary(q) == "owed" \in DOMAIN q

Answered(q, answer) ==
    [pc |-> "answer", account |-> q.account, owed |-> q.owed, answer |-> answer]

\* The configuration is read once, and the key and the cookie come from it.
AskLibrary(r) ==
    /\ requests[r] = Null
    /\ \E limit \in Limits, force \in BOOLEAN :
         requests' = [requests EXCEPT ![r] =
           [pc |-> IF force THEN "fetch" ELSE "look", account |-> account,
            limit |-> limit, owed |-> settled[account], wish |-> Null, collect |-> Null]]
    /\ UNCHANGED <<douban, files, incidents>>

\* Mutant: the key is made when the answer is stored, of the account of then.
KeyOfNow(q) == LibraryKey(account, q.limit)

StoreKey(q) == LibraryKey(q.account, q.limit)

\* `get`: a file that has expired is removed; an error, a clock that was set back and
\* a text that does not parse are misses, too.  It reads the time of the file first
\* and then removes, or reads, what bears the name by then.
LookUp(r) ==
    /\ At(r, "look")
    /\ LET path == Final(StoreKey(requests[r]))
       IN  \/ /\ Parses(path)
              /\ requests' = [requests EXCEPT ![r] = Answered(@, files[path])]
              /\ UNCHANGED files
           \/ /\ requests' = Continue(requests, r, "fetch", <<>>)
              /\ UNCHANGED files
           \/ /\ requests' = Continue(Moved(path, Null), r, "fetch", <<>>)
              /\ files' = [files EXCEPT ![path] = Null]
    /\ UNCHANGED <<douban, incidents>>

\* The two lists are asked for at once and each shows the list of its moment.
FetchList(r, list) ==
    /\ At(r, "fetch") /\ requests[r][list] = Null
    /\ requests' = [requests EXCEPT ![r][list] = lists[requests[r].account]]
    /\ UNCHANGED <<douban, files, incidents>>

FetchFails(r) ==
    /\ At(r, "fetch")
    /\ requests' = Ended(requests, r)
    /\ UNCHANGED <<douban, files, incidents>>

\* What is stored is what the request answers with.
StoreLibrary(r) ==
    /\ At(r, "fetch") /\ requests[r].wish # Null /\ requests[r].collect # Null
    /\ requests' = [requests EXCEPT ![r] =
         [pc |-> "open", account |-> @.account, owed |-> @.owed, key |-> StoreKey(@),
          value |-> [account |-> @.account, wish |-> @.wish, collect |-> @.collect]]]
    /\ UNCHANGED <<douban, files, incidents>>

-------------------------------------------------------------------------------
(* `put`, with which a list is stored and a mark ends *)

\* A list is answered with whether it could be stored or not.
AfterPut(rs, r) ==
    IF IsLibrary(rs[r]) THEN [rs EXCEPT ![r] = Answered(@, @.value)] ELSE Ended(rs, r)

\* `fs::write` opens the temporary file, which another request may have open ...
OpenTemporary(r) ==
    /\ At(r, "open")
    /\ LET path == Temporary(requests[r].key)
       IN  /\ files' = [files EXCEPT ![path] = Empty]
           /\ requests' = Continue(requests, r, "write", [handle |-> path])
    /\ UNCHANGED <<douban, incidents>>

\* ... and writes from its start: over a text another has written, which may be longer.
WriteTemporary(r) ==
    /\ At(r, "write")
    /\ LET path == requests[r].handle
           value == requests[r].value
       IN  IF path = Null THEN UNCHANGED files
           ELSE \E content \in {value} \cup (IF files[path] = Empty THEN {} ELSE {Torn}) :
                  files' = [files EXCEPT ![path] = content]
    /\ requests' = Continue(requests, r, "rename", [handle |-> Null])
    /\ UNCHANGED <<douban, incidents>>

\* It fails when another request has renamed the file, or the cleaner removed it.
Rename(r) ==
    /\ At(r, "rename")
    /\ LET from == Temporary(requests[r].key)
           to == Final(requests[r].key)
           moved == [q \in Requests |->
                       IF q \in Writers(to) THEN Moved(to, Null)[q] ELSE Moved(from, to)[q]]
       IN  IF Holds(from)
           THEN /\ files' = [files EXCEPT ![to] = files[from], ![from] = Null]
                /\ requests' = AfterPut(moved, r)
           ELSE /\ requests' = AfterPut(requests, r)
                /\ UNCHANGED files
    /\ UNCHANGED <<douban, incidents>>

\* What has been written by then stays under the temporary name.
PutFails(r) ==
    /\ Incident
    /\ At(r, "open") \/ At(r, "write") \/ At(r, "rename")
    /\ requests' = AfterPut(requests, r)
    /\ UNCHANGED <<douban, files>>

Answer(r) ==
    /\ At(r, "answer")
    /\ requests' = Ended(requests, r)
    /\ UNCHANGED <<douban, files, incidents>>

-------------------------------------------------------------------------------
(* A subject is marked *)

\* How often a mark has each word.  A wish has the tag of one category, once
\* (`normalize_wanted_tag`); the text of other marks is split into words as it is
\* (`normalize_interest_tags`), and may have a word more than once.
TagsOfMarks == [Tags -> 0..MaxRepeats]

AskMark(r) ==
    /\ requests[r] = Null
    /\ \E tags \in TagsOfMarks :
         requests' = [requests EXCEPT ![r] = [pc |-> "mark", account |-> account, tags |-> tags]]
    /\ UNCHANGED <<douban, files, incidents>>

\* Lists that may be read from Douban before a mark and stored after it.
Rivals(a) ==
    {q \in Requests :
       /\ requests[q] # Null /\ requests[q].account = a /\ IsLibrary(requests[q])
       /\ \/ requests[q].pc \in {"open", "write", "rename"}
          \/ At(q, "fetch") /\ (requests[q].wish # Null \/ requests[q].collect # Null)}

\* Mutant: the prefix of the account's other files.
HistoryInstead(a) == {HistoryKey(a)}

\* The names that begin with `library_{account_key}_`.
Invalidated(a) == LibraryKeys(a)

\* A word counts each time it occurs.
Counted(counts, tags) == [tag \in Tags |-> counts[tag] + tags[tag]]

\* Douban accepts the mark; its answer may be lost, and the request then fails.
MarkAccepted(r) ==
    /\ At(r, "mark")
    /\ LET q == requests[r]
           a == q.account
       IN  /\ lists[a] < MaxMarks
           /\ lists' = [lists EXCEPT ![a] = @ + 1]
           /\ tagged' = [tagged EXCEPT ![a] = Counted(@, q.tags)]
           /\ \/ requests' = Continue(requests, r, "invalidate",
                   [left |-> Invalidated(a), change |-> lists[a] + 1, alone |-> Rivals(a) = {}])
              \/ requests' = Ended(requests, r)
    /\ UNCHANGED <<account, settled, files, incidents>>

MarkFails(r) ==
    /\ At(r, "mark")
    /\ requests' = Ended(requests, r)
    /\ UNCHANGED <<douban, files, incidents>>

\* `remove_prefix`, entry by entry.  Not the temporary names.
Invalidate(r) ==
    /\ At(r, "invalidate")
    /\ \E k \in requests[r].left :
         /\ files' = [files EXCEPT ![Final(k)] = Null]
         /\ requests' = Continue(Moved(Final(k), Null), r, "invalidate",
                                 [left |-> requests[r].left \ {k}])
    /\ UNCHANGED <<douban, incidents>>

\* `settled` is history: a mark across which no list was read is one that every
\* later answer shows.
Settle(q) ==
    settled' = [settled EXCEPT ![q.account] = IF q.alone /\ q.change > @ THEN q.change ELSE @]

\* A history that cannot be read counts as none.
CurrentHistory(a) ==
    LET path == Final(HistoryKey(a))
    IN  IF Parses(path) THEN files[path] ELSE [tag \in Tags |-> 0]

\* `update_tag_history`: read and counted up here, written by `put`.
CountTags(r) ==
    /\ At(r, "invalidate") /\ requests[r].left = {}
    /\ LET q == requests[r]
       IN  /\ Settle(q)
           /\ requests' = [requests EXCEPT ![r] =
                IF \A tag \in Tags : q.tags[tag] = 0 THEN Null
                ELSE [pc |-> "open", account |-> q.account, key |-> HistoryKey(q.account),
                      value |-> Counted(CurrentHistory(q.account), q.tags)]]
    /\ UNCHANGED <<account, lists, tagged, files, incidents>>

\* `tag_history`: the counts of the configured categories, in whichever order.
ShownHistory(a) == [tag \in WantedTags |-> CurrentHistory(a)[tag]]

-------------------------------------------------------------------------------
(* Around the requests *)

\* The user logs in with another account.
SwitchAccount ==
    /\ Incident
    /\ \E a \in Accounts \ {account} : account' = a
    /\ UNCHANGED <<lists, tagged, settled, files, requests>>

\* The client is gone, and with it its request.  A write that has begun goes on
\* in its thread; that is a request which is dropped after it.
Drop(r) ==
    /\ Incident /\ requests[r] # Null
    /\ requests' = Ended(requests, r)
    /\ UNCHANGED <<douban, files>>

\* The process dies and another one starts.
Restart ==
    /\ Incident
    /\ requests' = [r \in Requests |-> Null]
    /\ UNCHANGED <<douban, files>>

\* Time passes: any file may have expired when the cleaner looks at its time.  What
\* it removes next is what bears the name by then, be it new.
CleanUp(path) ==
    /\ Holds(path)
    /\ files' = [files EXCEPT ![path] = Null]
    /\ requests' = Moved(path, Null)
    /\ UNCHANGED <<douban, incidents>>

-------------------------------------------------------------------------------
Init ==
    /\ account \in Accounts
    /\ lists = [a \in Accounts |-> 0]
    /\ tagged = [a \in Accounts |-> [tag \in Tags |-> 0]]
    /\ files = [path \in Paths |-> Null]
    /\ requests = [r \in Requests |-> Null]
    /\ settled = [a \in Accounts |-> 0]
    /\ incidents = 0

Step(r) ==
    \/ LookUp(r)
    \/ \E list \in {"wish", "collect"} : FetchList(r, list)
    \/ FetchFails(r) \/ StoreLibrary(r)
    \/ OpenTemporary(r) \/ WriteTemporary(r) \/ Rename(r) \/ PutFails(r) \/ Answer(r)
    \/ MarkAccepted(r) \/ MarkFails(r) \/ Invalidate(r) \/ CountTags(r)

Next ==
    \/ \E r \in Requests : AskLibrary(r) \/ AskMark(r) \/ Step(r) \/ Drop(r)
    \/ SwitchAccount \/ Restart
    \/ \E path \in Paths : CleanUp(path)

Spec == Init /\ [][Next]_vars

-------------------------------------------------------------------------------
(* Properties *)

\* Nobody is shown what is another account's, whatever requests store meanwhile and
\* for whomever: `library` answers with the lists of the account that was configured
\* when it was asked, and the history of an account has no tag more often than that
\* account's marks use it.  A mark that repeats a tag uses it as often, so the history
\* may show more uses than marks.  Requests that count at the same time, files they tear
\* for each other, and cleanups lose counts and add none.
OwnAnswers ==
    /\ \A r \in Requests : At(r, "answer") => requests[r].answer.account = requests[r].account
    /\ \A a \in Accounts, tag \in WantedTags : ShownHistory(a)[tag] <= tagged[a][tag]

\* Once `mark_interest` has answered, no list from the cache is older than the mark,
\* under any limit; unless a request was reading or storing the list when Douban
\* accepted the mark: that one may store what it read before, behind the
\* invalidation.
MarksAreShown ==
    \A r \in Requests : At(r, "answer") =>
      /\ requests[r].answer.wish >= requests[r].owed
      /\ requests[r].answer.collect >= requests[r].owed
===============================================================================
