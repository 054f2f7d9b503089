--------------------------- MODULE CatalogCacheProofs ---------------------------
(***************************************************************************)
(* What the cache of the Douban catalogue answers, whatever requests share *)
(* its files.                                                              *)
(*                                                                         *)
(* Typed: a file holds, under its own and under its temporary name, what   *)
(* its key promises.  CountsInv: no history, on its way or stored, has a   *)
(* tag more often than the account's marks use it, the uses in marks that  *)
(* Douban accepted and nobody has counted yet set aside.  ListsInv: who    *)
(* read a list before a mark is known as its rival when it is made; all    *)
(* others store what shows it.                                             *)
(***************************************************************************)
EXTENDS CatalogCache, FiniteSetTheorems, TLAPS

-------------------------------------------------------------------------------
(* What the state looks like. *)

PutPcs == {"open", "write", "rename"}

ListsOf(a) == [account : {a}, wish : Nat, collect : Nat]

Counts == [Tags -> Nat]

IsLibraryRequest(q) ==
    /\ IsLibrary(q) /\ q.owed \in Nat
    /\ q.pc \in {"look", "fetch", "answer"} \cup PutPcs
    /\ q.pc \in {"look", "fetch"} =>
         /\ {"limit", "wish", "collect"} \subseteq DOMAIN q
         /\ q.limit \in Limits
         /\ q.wish \in Nat \cup {Null} /\ q.collect \in Nat \cup {Null}
         /\ q.pc = "look" => q.wish = Null /\ q.collect = Null
    /\ q.pc \in PutPcs =>
         /\ {"key", "value"} \subseteq DOMAIN q
         /\ q.key \in LibraryKeys(q.account) /\ q.value \in ListsOf(q.account)
    /\ q.pc = "answer" => "answer" \in DOMAIN q /\ q.answer \in ListsOf(q.account)

IsMarkRequest(q) ==
    /\ ~IsLibrary(q)
    /\ q.pc \in {"mark", "invalidate"} \cup PutPcs
    /\ q.pc \in {"mark", "invalidate"} => "tags" \in DOMAIN q /\ q.tags \in Counts
    /\ q.pc = "invalidate" =>
         /\ {"left", "change", "alone"} \subseteq DOMAIN q
         /\ q.left \subseteq LibraryKeys(q.account)
         /\ q.change \in Nat /\ q.alone \in BOOLEAN
    /\ q.pc \in PutPcs =>
         /\ {"key", "value"} \subseteq DOMAIN q
         /\ q.key = HistoryKey(q.account) /\ q.value \in Counts

RequestOK(q) ==
    /\ {"pc", "account"} \subseteq DOMAIN q /\ q.account \in Accounts
    /\ IsLibraryRequest(q) \/ IsMarkRequest(q)
    /\ q.pc \in {"write", "rename"} => "handle" \in DOMAIN q
    /\ q.pc = "write" => q.handle \in {Null, Final(q.key), Temporary(q.key)}

\* What may be in a file of a key, if anything.
ContentOK(k, content) ==
    content \notin {Null, Empty, Torn} =>
      \A a \in Accounts :
        /\ k \in LibraryKeys(a) => content \in ListsOf(a)
        /\ k = HistoryKey(a) => content \in Counts

\* Under both of its names.
Names(k) == {Final(k), Temporary(k)}

FilesOK ==
    /\ DOMAIN files = Paths
    /\ \A k \in Keys : \A path \in Names(k) : ContentOK(k, files[path])

Typed ==
    /\ account \in Accounts
    /\ lists \in [Accounts -> Nat] /\ settled \in [Accounts -> Nat]
    /\ tagged \in [Accounts -> Counts]
    /\ FilesOK
    /\ DOMAIN requests = Requests
    /\ \A r \in Requests : requests[r] # Null => RequestOK(requests[r])

\* The uses of a tag in marks of an account that are accepted and not yet counted.
Uncounted(a, tag) ==
    {use \in Requests \X (Nat \ {0}) :
       /\ At(use[1], "invalidate") /\ requests[use[1]].account = a
       /\ use[2] <= requests[use[1]].tags[tag]}

UsesOf(r, n) == {r} \X (1..n)

Fits(counts, a, tag) == counts[tag] + Cardinality(Uncounted(a, tag)) <= tagged[a][tag]

Putting(r) == requests[r] # Null /\ requests[r].pc \in PutPcs

CountsInv ==
    \A a \in Accounts, tag \in Tags :
      /\ IsFiniteSet(Uncounted(a, tag))
      /\ Cardinality(Uncounted(a, tag)) <= tagged[a][tag]
      /\ \A path \in Names(HistoryKey(a)) : Parses(path) => Fits(files[path], a, tag)
      /\ \A r \in Requests :
           Putting(r) /\ requests[r].key = HistoryKey(a) => Fits(requests[r].value, a, tag)

\* A mark that is invalidating without a rival.
Alone(r, a) == At(r, "invalidate") /\ requests[r].account = a /\ requests[r].alone

\* The changes that what is stored from now on has to show.
Due(a) == {settled[a]} \cup {requests[r].change : r \in {q \in Requests : Alone(q, a)}}

Shows(value, change) == value.wish >= change /\ value.collect >= change

RequestShows(q, a) ==
    /\ q.owed <= settled[a]
    /\ q.pc = "answer" => Shows(q.answer, q.owed)
    /\ \A change \in Due(a) :
         /\ q.pc = "fetch" =>
              /\ q.wish # Null => q.wish >= change
              /\ q.collect # Null => q.collect >= change
         /\ q.pc \in PutPcs => Shows(q.value, change)
         /\ q.pc \in {"write", "rename"} /\ Parses(Temporary(q.key)) =>
              Shows(files[Temporary(q.key)], change)

IsLibraryOf(q, a) == q # Null /\ IsLibrary(q) /\ q.account = a

ListsInv ==
    /\ \A a \in Accounts : \A change \in Due(a) : change <= lists[a]
    /\ \A a \in Accounts, r \in Requests :
         IsLibraryOf(requests[r], a) => RequestShows(requests[r], a)
    /\ \A a \in Accounts : \A k \in LibraryKeys(a) : Parses(Final(k)) =>
         /\ Shows(files[Final(k)], settled[a])
         /\ \A r \in Requests :
              Alone(r, a) /\ k \notin requests[r].left =>
                Shows(files[Final(k)], requests[r].change)

-------------------------------------------------------------------------------
(* Names, and what others do to a request. *)

LEMMA KeysApart ==
    /\ \A a, b \in Accounts : HistoryKey(a) = HistoryKey(b) => a = b
    /\ \A a, b \in Accounts : \A k \in LibraryKeys(a) :
         k # HistoryKey(b) /\ (k \in LibraryKeys(b) => a = b)
    /\ \A a \in Accounts : HistoryKey(a) \in Keys /\ LibraryKeys(a) \subseteq Keys
    /\ \A k, l : Final(k) # Temporary(l)
    /\ \A k, l : Final(k) = Final(l) => k = l
    /\ \A k, l : Temporary(k) = Temporary(l) => k = l
<1>1. \A a, b : HistoryKey(a) = HistoryKey(b) => a = b
    BY DEF HistoryKey
<1>2. \A a, b, m, n : /\ LibraryKey(a, m) # HistoryKey(b)
                      /\ LibraryKey(a, m) = LibraryKey(b, n) => a = b
    BY DEF HistoryKey, LibraryKey
<1>3. \A k, l : /\ Final(k) # Temporary(l)
                /\ Final(k) = Final(l) => k = l
                /\ Temporary(k) = Temporary(l) => k = l
    BY DEF Final, Temporary
<1>4. \A a \in Accounts : HistoryKey(a) \in Keys /\ LibraryKeys(a) \subseteq Keys
    BY DEF Keys
<1> QED BY <1>1, <1>2, <1>3, <1>4 DEF LibraryKeys

LEMMA NamesArePaths ==
    ASSUME NEW k \in Keys
    PROVE  Names(k) \subseteq Paths /\ Null \notin Names(k)
BY NullAssumption DEF Names, Paths

LEMMA EveryPathIsAName ==
    ASSUME NEW path \in Paths
    PROVE  \E k \in Keys : path \in Names(k)
BY DEF Names, Paths

LEMMA ContinueIs ==
    ASSUME NEW rs, NEW r \in DOMAIN rs, "pc" \in DOMAIN rs[r], NEW pc,
           NEW more, "pc" \notin DOMAIN more
    PROVE  /\ DOMAIN Continue(rs, r, pc, more) = DOMAIN rs
           /\ \A q \in DOMAIN rs : q # r => Continue(rs, r, pc, more)[q] = rs[q]
           /\ DOMAIN Continue(rs, r, pc, more)[r] = DOMAIN rs[r] \cup DOMAIN more
           /\ Continue(rs, r, pc, more)[r].pc = pc
           /\ \A f \in DOMAIN more : Continue(rs, r, pc, more)[r][f] = more[f]
           /\ \A f \in DOMAIN rs[r] :
                f # "pc" /\ f \notin DOMAIN more => Continue(rs, r, pc, more)[r][f] = rs[r][f]
<1> DEFINE known == [rs[r] EXCEPT !.pc = pc]
<1>1. DOMAIN known = DOMAIN rs[r] /\ known.pc = pc
      /\ \A f \in DOMAIN rs[r] : f # "pc" => known[f] = rs[r][f]
    OBVIOUS
<1>2. Continue(rs, r, pc, more) = [rs EXCEPT ![r] = With(known, more)]
    BY DEF Continue
<1> HIDE DEF known
<1>3. /\ DOMAIN With(known, more) = DOMAIN known \cup DOMAIN more
      /\ \A f \in DOMAIN more : With(known, more)[f] = more[f]
      /\ \A f \in DOMAIN known \ DOMAIN more : With(known, more)[f] = known[f]
    BY DEF With
<1>4. With(known, more).pc = pc
    BY <1>1, <1>3
<1> HIDE DEF With
<1> QED BY <1>1, <1>2, <1>3, <1>4

\* A request that is left alone may end, and its file may get another name.
AsBefore(old, new) ==
    \/ new = Null \/ new = old
    \/ /\ old # Null /\ old.pc = "write"
       /\ \E to \in {Null, Final(old.key)} : new = [old EXCEPT !.handle = to]

\* All but the movers are left alone.
Others(movers) ==
    /\ DOMAIN requests' = Requests
    /\ \A q \in Requests \ movers : AsBefore(requests[q], requests'[q])

LEMMA AsBeforeKeeps ==
    ASSUME NEW old, RequestOK(old), NEW new, AsBefore(old, new), new # Null
    PROVE  /\ RequestOK(new)
           /\ \/ new = old
              \/ /\ old.pc = "write" /\ new.pc = "write" /\ DOMAIN new = DOMAIN old
                 /\ new.account = old.account /\ new.key = old.key /\ new.value = old.value
                 /\ "owed" \in DOMAIN old => new.owed = old.owed
<1>1. CASE new = old
    BY <1>1
<1>2. ASSUME old.pc = "write", NEW to \in {Null, Final(old.key)}, new = [old EXCEPT !.handle = to]
      PROVE  /\ RequestOK(new)
             /\ new.pc = "write" /\ DOMAIN new = DOMAIN old
             /\ new.account = old.account /\ new.key = old.key /\ new.value = old.value
             /\ "owed" \in DOMAIN old => new.owed = old.owed
    <2>1. /\ {"pc", "account", "key", "value", "handle"} \subseteq DOMAIN old
        BY <1>2 DEF RequestOK, IsLibraryRequest, IsMarkRequest, PutPcs
    <2>2. /\ DOMAIN new = DOMAIN old /\ new.pc = "write" /\ new.handle = to
          /\ new.account = old.account /\ new.key = old.key /\ new.value = old.value
          /\ "owed" \in DOMAIN old => new.owed = old.owed
        BY <1>2, <2>1
    <2>3. IsLibraryRequest(old) => IsLibraryRequest(new)
        BY <1>2, <2>2 DEF IsLibraryRequest, IsLibrary, PutPcs
    <2>4. IsMarkRequest(old) => IsMarkRequest(new)
        BY <1>2, <2>2 DEF IsMarkRequest, IsLibrary, PutPcs
    <2> QED BY <1>2, <2>2, <2>3, <2>4 DEF RequestOK
<1> QED BY <1>1, <1>2 DEF AsBefore

\* Who has a file open is at its key.
LEMMA MovedIsAsBefore ==
    ASSUME Typed, NEW k \in Keys, NEW path, NEW to,
           \/ path \in Names(k) /\ to = Null
           \/ path = Temporary(k) /\ to = Final(k)
    PROVE  /\ DOMAIN Moved(path, to) = Requests
           /\ \A q \in Requests : /\ AsBefore(requests[q], Moved(path, to)[q])
                                  /\ ~At(q, "write") => Moved(path, to)[q] = requests[q]
<1> SUFFICES ASSUME NEW q \in Requests, q \in Writers(path)
             PROVE  AsBefore(requests[q], [requests[q] EXCEPT !.handle = to]) /\ At(q, "write")
    BY DEF Moved, AsBefore, Writers
<1>1. requests[q] # Null /\ requests[q].pc = "write" /\ requests[q].handle = path
    BY DEF Writers, At
<1>2. path \in {Null, Final(requests[q].key), Temporary(requests[q].key)}
    BY <1>1 DEF Typed, RequestOK
<1>3. path # Null
    BY NamesArePaths DEF Names
<1>4. to \in {Null, Final(requests[q].key)}
    BY <1>2, <1>3, KeysApart DEF Names
<1> QED BY <1>1, <1>4 DEF AsBefore, At

-------------------------------------------------------------------------------
(* What a step does to the files. *)

Puts(w, k, content) ==
    Putting(w) /\ requests[w].key = k /\ content = requests[w].value

FileStep ==
    /\ DOMAIN files' = Paths
    /\ \A k \in Keys :
         /\ \/ files'[Temporary(k)] \in {Null, Empty, Torn, files[Temporary(k)]}
            \/ \E w \in Requests : Puts(w, k, files'[Temporary(k)])
         /\ \/ files'[Final(k)] \in {Null, Empty, Torn, files[Final(k)]}
            \/ \E w \in Requests : Puts(w, k, files'[Final(k)])
            \/ \E w \in Requests : /\ At(w, "rename") /\ requests[w].key = k
                                   /\ files'[Final(k)] = files[Temporary(k)]

LEMMA PutRequestOK ==
    ASSUME Typed, NEW r \in Requests, Putting(r)
    PROVE  /\ requests[r] # Null /\ RequestOK(requests[r])
           /\ {"pc", "account", "key", "value"} \subseteq DOMAIN requests[r]
           /\ requests[r].key \in Keys
<1>1. requests[r] # Null /\ RequestOK(requests[r])
    BY DEF Typed, Putting
<1>2. {"pc", "account", "key", "value"} \subseteq DOMAIN requests[r]
    BY <1>1 DEF RequestOK, IsLibraryRequest, IsMarkRequest, Putting
<1>3. requests[r].key \in Keys
    BY <1>1, KeysApart DEF RequestOK, IsLibraryRequest, IsMarkRequest, Putting
<1> QED BY <1>1, <1>2, <1>3

LEMMA NoFileStep ==
    ASSUME Typed, UNCHANGED files
    PROVE  FileStep
BY DEF FileStep, Typed, FilesOK

LEMMA LostFileStep ==
    ASSUME Typed, NEW path \in Paths, NEW lost \in {Null, Empty, Torn},
           files' = [files EXCEPT ![path] = lost]
    PROVE  FileStep
<1>1. DOMAIN files = Paths
    BY DEF Typed, FilesOK
<1>2. \A p \in Paths : files'[p] \in {Null, Empty, Torn, files[p]}
    BY <1>1
<1> QED BY <1>1, <1>2 DEF FileStep, Paths

LEMMA WriteFileStep ==
    ASSUME Typed, NEW r \in Requests, WriteTemporary(r)
    PROVE  FileStep
<1>0. requests[r] # Null /\ requests[r].pc = "write" /\ Putting(r)
    BY DEF WriteTemporary, At, Putting, PutPcs
<1>1. RequestOK(requests[r]) /\ requests[r].key \in Keys
    BY <1>0, PutRequestOK
<1>2. DOMAIN files = Paths
    BY DEF Typed, FilesOK
<1> DEFINE path == requests[r].handle
           value == requests[r].value
<1>3. CASE path = Null
    BY <1>3, NoFileStep DEF WriteTemporary
<1>4. CASE path # Null
    <2>1. PICK content \in {value, Torn} : files' = [files EXCEPT ![path] = content]
        BY <1>4 DEF WriteTemporary
    <2>2. path \in {Final(requests[r].key), Temporary(requests[r].key)}
        BY <1>0, <1>1, <1>4 DEF RequestOK
    <2>3. DOMAIN files' = Paths /\ \A p \in Paths : p # path => files'[p] = files[p]
        BY <1>2, <2>1
    <2>4. ASSUME NEW k \in Keys, NEW p \in Names(k)
          PROVE  files'[p] \in {Torn, files[p]} \/ Puts(r, k, files'[p])
        <3>1. p \in Paths
            BY NamesArePaths
        <3>2. CASE p # path
            BY <2>3, <3>1, <3>2
        <3>3. CASE p = path
            <4>1. k = requests[r].key
                BY <2>2, <3>3, KeysApart DEF Names
            <4>2. files'[p] = content
                BY <1>2, <2>1, <3>1, <3>3
            <4> QED BY <1>0, <2>1, <4>1, <4>2 DEF Puts
        <3> QED BY <3>2, <3>3
    <2> QED BY <2>3, <2>4 DEF FileStep, Names
<1> QED BY <1>3, <1>4

LEMMA RenameFileStep ==
    ASSUME Typed, NEW r \in Requests, Rename(r)
    PROVE  FileStep
<1>0. requests[r] # Null /\ requests[r].pc = "rename" /\ Putting(r)
    BY DEF Rename, At, Putting, PutPcs
<1> DEFINE key == requests[r].key
<1>1. key \in Keys
    BY <1>0, PutRequestOK
<1>2. DOMAIN files = Paths
    BY DEF Typed, FilesOK
<1>3. CASE UNCHANGED files
    BY <1>3, NoFileStep
<1>4. CASE files' = [files EXCEPT ![Final(key)] = files[Temporary(key)],
                                  ![Temporary(key)] = Null]
    <2>1. Final(key) \in Paths /\ Temporary(key) \in Paths /\ Final(key) # Temporary(key)
        BY <1>1, KeysApart DEF Paths
    <2>2. /\ DOMAIN files' = Paths
          /\ files'[Final(key)] = files[Temporary(key)]
          /\ files'[Temporary(key)] = Null
          /\ \A p \in Paths : p \notin Names(key) => files'[p] = files[p]
        BY <1>2, <1>4, <2>1 DEF Names
    <2>3. ASSUME NEW k \in Keys, k # key, NEW p \in Names(k)
          PROVE  files'[p] = files[p]
        <3>1. p \in Paths /\ p \notin Names(key)
            BY <2>3, NamesArePaths, KeysApart DEF Names
        <3> QED BY <2>2, <3>1
    <2> QED BY <1>0, <2>2, <2>3 DEF FileStep, Names, At
<1> QED BY <1>3, <1>4 DEF Rename

LEMMA EveryFileStep ==
    ASSUME Typed, [Next]_vars
    PROVE  FileStep
<1>1. CASE \E r \in Requests : WriteTemporary(r)
    BY <1>1, WriteFileStep
<1>2. CASE \E r \in Requests : Rename(r)
    BY <1>2, RenameFileStep
<1>3. CASE \E r \in Requests : LookUp(r)
    <2>1. PICK r \in Requests : LookUp(r)
        BY <1>3
    <2>2. requests[r] # Null /\ RequestOK(requests[r]) /\ requests[r].pc = "look"
        BY <2>1 DEF LookUp, At, Typed
    <2>3. StoreKey(requests[r]) \in Keys
        <3>1. requests[r].account \in Accounts /\ requests[r].limit \in Limits
            BY <2>2 DEF RequestOK, IsLibraryRequest, IsMarkRequest, PutPcs
        <3> QED BY <3>1, KeysApart DEF StoreKey, LibraryKeys
    <2>4. Final(StoreKey(requests[r])) \in Paths
        BY <2>3 DEF Paths
    <2> QED BY <2>1, <2>4, NoFileStep, LostFileStep DEF LookUp
<1>4. CASE \E r \in Requests : OpenTemporary(r)
    <2>1. PICK r \in Requests : OpenTemporary(r)
        BY <1>4
    <2>2. Putting(r)
        BY <2>1 DEF OpenTemporary, At, Putting, PutPcs
    <2>3. Temporary(requests[r].key) \in Paths
        BY <2>2, PutRequestOK DEF Paths
    <2> QED BY <2>1, <2>3, LostFileStep DEF OpenTemporary
<1>5. CASE \E r \in Requests : Invalidate(r)
    <2>1. PICK r \in Requests : Invalidate(r)
        BY <1>5
    <2>2. PICK k \in requests[r].left : files' = [files EXCEPT ![Final(k)] = Null]
        BY <2>1 DEF Invalidate
    <2>3. requests[r] # Null /\ RequestOK(requests[r]) /\ requests[r].pc = "invalidate"
        BY <2>1 DEF Invalidate, At, Typed
    <2>4. k \in Keys
        BY <2>3, KeysApart DEF RequestOK, IsLibraryRequest, IsMarkRequest, PutPcs
    <2> QED BY <2>2, <2>4, LostFileStep DEF Paths
<1>6. CASE \E path \in Paths : CleanUp(path)
    BY <1>6, LostFileStep DEF CleanUp
<1>7. CASE UNCHANGED files
    BY <1>7, NoFileStep
<1>8. ASSUME NEW r \in Requests, Step(r)
      PROVE  \/ WriteTemporary(r) \/ Rename(r) \/ LookUp(r) \/ OpenTemporary(r)
             \/ Invalidate(r) \/ UNCHANGED files
    BY <1>8 DEF Step, FetchList, FetchFails, StoreLibrary, PutFails, Answer, MarkAccepted,
                MarkFails, CountTags
<1>9. ASSUME NEW r \in Requests, AskLibrary(r) \/ AskMark(r) \/ Drop(r)
      PROVE  UNCHANGED files
    BY <1>9 DEF AskLibrary, AskMark, Drop
<1>10. SwitchAccount \/ Restart \/ UNCHANGED vars => UNCHANGED files
    BY DEF SwitchAccount, Restart, vars
<1> QED BY <1>1, <1>2, <1>3, <1>4, <1>5, <1>6, <1>7, <1>8, <1>9, <1>10 DEF Next

-------------------------------------------------------------------------------
(* What a step does to the requests. *)

Moves(r) ==
    \/ AskLibrary(r) \/ AskMark(r) \/ LookUp(r) \/ MarkAccepted(r) \/ Invalidate(r)
    \/ CountTags(r) \/ StoreLibrary(r) \/ \E list \in {"wish", "collect"} : FetchList(r, list)
    \/ OpenTemporary(r) \/ WriteTemporary(r) \/ Rename(r) \/ PutFails(r)

\* Nobody comes to anything, and Douban's lists stay.
Rests == Others({}) /\ UNCHANGED <<lists, tagged, settled>>

LEMMA MoveOrRest ==
    ASSUME Typed, [Next]_vars
    PROVE  Rests \/ \E r \in Requests : Moves(r)
<1>0. DOMAIN requests = Requests
    BY DEF Typed
<1>1. ASSUME NEW r \in Requests, FetchFails(r) \/ Answer(r) \/ MarkFails(r) \/ Drop(r)
      PROVE  Rests
    <2>1. requests' = Ended(requests, r) /\ UNCHANGED <<lists, tagged, settled>>
        BY <1>1 DEF FetchFails, Answer, MarkFails, Drop, douban
    <2> QED BY <1>0, <2>1 DEF Rests, Others, AsBefore, Ended
<1>2. CASE Restart
    BY <1>2 DEF Restart, Rests, Others, AsBefore, douban
<1>3. CASE SwitchAccount \/ UNCHANGED vars
    BY <1>0, <1>3 DEF SwitchAccount, vars, Rests, Others, AsBefore
<1>4. ASSUME NEW path \in Paths, CleanUp(path) PROVE Rests
    <2>1. PICK k \in Keys : path \in Names(k)
        BY EveryPathIsAName
    <2> QED BY <1>4, <2>1, MovedIsAsBefore DEF CleanUp, Rests, Others, douban
<1> QED BY <1>1, <1>2, <1>3, <1>4 DEF Next, Step, Moves

LEMMA LookedUp ==
    ASSUME Typed, NEW r \in Requests, LookUp(r)
    PROVE  /\ requests[r] # Null /\ RequestOK(requests[r]) /\ IsLibraryRequest(requests[r])
           /\ requests[r].pc = "look" /\ StoreKey(requests[r]) \in LibraryKeys(requests[r].account)
           /\ Others({r})
           /\ \/ /\ Parses(Final(StoreKey(requests[r])))
                 /\ requests'[r] = Answered(requests[r], files[Final(StoreKey(requests[r]))])
              \/ /\ DOMAIN requests'[r] = DOMAIN requests[r] /\ requests'[r].pc = "fetch"
                 /\ \A f \in DOMAIN requests[r] : f # "pc" => requests'[r][f] = requests[r][f]
<1>1. /\ requests[r] # Null /\ RequestOK(requests[r]) /\ requests[r].pc = "look"
      /\ DOMAIN requests = Requests
    BY DEF LookUp, At, Typed
<1>2. IsLibraryRequest(requests[r]) /\ requests[r].account \in Accounts
    BY <1>1 DEF RequestOK, IsMarkRequest, PutPcs
<1>3. StoreKey(requests[r]) \in LibraryKeys(requests[r].account)
    BY <1>1, <1>2 DEF IsLibraryRequest, StoreKey, LibraryKeys
<1> DEFINE path == Final(StoreKey(requests[r]))
<1>4. StoreKey(requests[r]) \in Keys /\ path \in Names(StoreKey(requests[r]))
    BY <1>2, <1>3, KeysApart DEF Names
<1> DEFINE none == <<>>
<1>5. DOMAIN none = {} /\ "pc" \in DOMAIN requests[r]
    BY <1>1 DEF RequestOK
<1> HIDE DEF none
<1>6. CASE Parses(path) /\ requests' = [requests EXCEPT ![r] = Answered(@, files[path])]
    BY <1>1, <1>2, <1>3, <1>6 DEF Others, AsBefore
<1>7. ASSUME NEW rs, DOMAIN rs = Requests, rs[r] = requests[r],
             \A q \in Requests : AsBefore(requests[q], rs[q]),
             requests' = Continue(rs, r, "fetch", none)
      PROVE  /\ Others({r})
             /\ DOMAIN requests'[r] = DOMAIN requests[r] /\ requests'[r].pc = "fetch"
             /\ \A f \in DOMAIN requests[r] : f # "pc" => requests'[r][f] = requests[r][f]
    <2>1. /\ DOMAIN requests' = Requests /\ \A q \in Requests : q # r => requests'[q] = rs[q]
          /\ DOMAIN requests'[r] = DOMAIN rs[r] \cup DOMAIN none
          /\ requests'[r].pc = "fetch"
          /\ \A f \in DOMAIN rs[r] :
               f # "pc" /\ f \notin DOMAIN none => requests'[r][f] = rs[r][f]
        <3>1. r \in DOMAIN rs /\ "pc" \in DOMAIN rs[r] /\ "pc" \notin DOMAIN none
            BY <1>5, <1>7
        <3>2. /\ DOMAIN Continue(rs, r, "fetch", none) = DOMAIN rs
              /\ \A q \in DOMAIN rs : q # r => Continue(rs, r, "fetch", none)[q] = rs[q]
              /\ DOMAIN Continue(rs, r, "fetch", none)[r] = DOMAIN rs[r] \cup DOMAIN none
              /\ Continue(rs, r, "fetch", none)[r].pc = "fetch"
              /\ \A f \in DOMAIN rs[r] : f # "pc" /\ f \notin DOMAIN none =>
                   Continue(rs, r, "fetch", none)[r][f] = rs[r][f]
            BY <3>1, ContinueIs
        <3> QED BY <1>7, <3>2
    <2> QED BY <1>5, <1>7, <2>1 DEF Others
<1>8. CASE requests' = Continue(requests, r, "fetch", <<>>)
    BY <1>1, <1>2, <1>3, <1>7, <1>8 DEF AsBefore, none
<1>9. CASE requests' = Continue(Moved(path, Null), r, "fetch", <<>>)
    <2>1. /\ DOMAIN Moved(path, Null) = Requests
          /\ \A q \in Requests : /\ AsBefore(requests[q], Moved(path, Null)[q])
                                 /\ ~At(q, "write") => Moved(path, Null)[q] = requests[q]
        BY <1>4, MovedIsAsBefore
    <2>2. ~At(r, "write")
        BY <1>1 DEF At
    <2> QED BY <1>1, <1>2, <1>3, <1>7, <1>9, <2>1, <2>2 DEF none
<1> QED BY <1>6, <1>8, <1>9 DEF LookUp

LEMMA Invalidated1 ==
    ASSUME Typed, NEW r \in Requests, Invalidate(r)
    PROVE  /\ requests[r] # Null /\ RequestOK(requests[r]) /\ IsMarkRequest(requests[r])
           /\ requests[r].pc = "invalidate" /\ requests'[r].pc = "invalidate"
           /\ Others({r})
           /\ DOMAIN requests'[r] = DOMAIN requests[r]
           /\ \A f \in DOMAIN requests[r] : f # "left" => requests'[r][f] = requests[r][f]
           /\ \E k \in requests[r].left :
                /\ requests'[r].left = requests[r].left \ {k}
                /\ files' = [files EXCEPT ![Final(k)] = Null]
<1>1. /\ requests[r] # Null /\ RequestOK(requests[r]) /\ requests[r].pc = "invalidate"
      /\ DOMAIN requests = Requests
    BY DEF Invalidate, At, Typed
<1>2. IsMarkRequest(requests[r]) /\ {"pc", "left"} \subseteq DOMAIN requests[r]
      /\ requests[r].account \in Accounts /\ requests[r].left \subseteq LibraryKeys(requests[r].account)
    BY <1>1 DEF RequestOK, IsLibraryRequest, IsMarkRequest, PutPcs
<1>3. PICK k \in requests[r].left :
        /\ files' = [files EXCEPT ![Final(k)] = Null]
        /\ requests' = Continue(Moved(Final(k), Null), r, "invalidate",
                                [left |-> requests[r].left \ {k}])
    BY DEF Invalidate
<1> DEFINE rs == Moved(Final(k), Null)
           more == [left |-> requests[r].left \ {k}]
<1>4. DOMAIN more = {"left"} /\ more["left"] = requests[r].left \ {k}
    OBVIOUS
<1>5. k \in Keys /\ Final(k) \in Names(k)
    BY <1>2, KeysApart DEF Names
<1>6. /\ DOMAIN rs = Requests /\ rs[r] = requests[r]
      /\ \A q \in Requests : AsBefore(requests[q], rs[q])
    BY <1>1, <1>5, MovedIsAsBefore DEF At
<1> HIDE DEF rs, more
<1>7. /\ DOMAIN requests' = Requests /\ \A q \in Requests : q # r => requests'[q] = rs[q]
      /\ DOMAIN requests'[r] = DOMAIN rs[r] \cup DOMAIN more
      /\ requests'[r].pc = "invalidate"
      /\ \A f \in DOMAIN more : requests'[r][f] = more[f]
      /\ \A f \in DOMAIN rs[r] : f # "pc" /\ f \notin DOMAIN more => requests'[r][f] = rs[r][f]
    BY <1>2, <1>3, <1>4, <1>6, ContinueIs DEF rs, more
<1>8. requests'[r]["left"] = requests[r].left \ {k}
    BY <1>4, <1>7
<1>9. \A f \in DOMAIN requests[r] : f # "left" => requests'[r][f] = requests[r][f]
    BY <1>1, <1>4, <1>6, <1>7
<1> QED BY <1>1, <1>2, <1>3, <1>4, <1>6, <1>7, <1>8, <1>9 DEF Others

LEMMA Accepted ==
    ASSUME Typed, NEW r \in Requests, MarkAccepted(r)
    PROVE  /\ requests[r] # Null /\ RequestOK(requests[r]) /\ IsMarkRequest(requests[r])
           /\ requests[r].pc = "mark" /\ Others({r})
           /\ \/ requests'[r] = Null
              \/ /\ DOMAIN requests'[r] = DOMAIN requests[r] \cup {"left", "change", "alone"}
                 /\ requests'[r].pc = "invalidate"
                 /\ requests'[r].account = requests[r].account
                 /\ requests'[r].tags = requests[r].tags
                 /\ requests'[r].left = LibraryKeys(requests[r].account)
                 /\ requests'[r].change = lists[requests[r].account] + 1
                 /\ requests'[r].alone = (Rivals(requests[r].account) = {})
<1>1. /\ requests[r] # Null /\ RequestOK(requests[r]) /\ requests[r].pc = "mark"
      /\ DOMAIN requests = Requests
    BY DEF MarkAccepted, At, Typed
<1>2. IsMarkRequest(requests[r]) /\ {"pc", "account", "tags"} \subseteq DOMAIN requests[r]
    BY <1>1 DEF RequestOK, IsLibraryRequest, IsMarkRequest, PutPcs
<1> DEFINE a == requests[r].account
           alone == Rivals(a) = {}
           more == [left |-> Invalidated(a), change |-> lists[a] + 1, alone |-> alone]
<1>3. CASE requests' = Ended(requests, r)
    BY <1>1, <1>2, <1>3 DEF Ended, Others, AsBefore
<1>4. CASE requests' = Continue(requests, r, "invalidate", more)
    <2>0. alone \in BOOLEAN
        OBVIOUS
    <2> HIDE DEF alone
    <2>1. /\ DOMAIN more = {"left", "change", "alone"}
          /\ more["left"] = LibraryKeys(a) /\ more["change"] = lists[a] + 1
          /\ more["alone"] = alone
        BY DEF Invalidated
    <2> HIDE DEF more
    <2>2. r \in DOMAIN requests /\ "pc" \in DOMAIN requests[r] /\ "pc" \notin DOMAIN more
        BY <1>1, <1>2, <2>1
    <2>3. /\ DOMAIN requests' = Requests
          /\ \A q \in Requests : q # r => requests'[q] = requests[q]
          /\ DOMAIN requests'[r] = DOMAIN requests[r] \cup DOMAIN more
          /\ requests'[r].pc = "invalidate"
          /\ \A f \in DOMAIN more : requests'[r][f] = more[f]
          /\ \A f \in DOMAIN requests[r] :
               f # "pc" /\ f \notin DOMAIN more => requests'[r][f] = requests[r][f]
        BY <1>1, <1>4, <2>2, ContinueIs
    <2>4. Others({r})
        BY <2>3 DEF Others, AsBefore
    <2>5. /\ requests'[r]["left"] = LibraryKeys(a)
          /\ requests'[r]["change"] = lists[a] + 1
          /\ requests'[r]["alone"] = alone
          /\ requests'[r]["account"] = a /\ requests'[r]["tags"] = requests[r].tags
        BY <1>2, <2>1, <2>3
    <2>6. alone = (Rivals(a) = {})
        BY DEF alone
    <2> HIDE DEF a
    <2>7. /\ requests'[r].left = LibraryKeys(a)
          /\ requests'[r].change = lists[a] + 1
          /\ requests'[r].alone = alone
          /\ requests'[r].account = a /\ requests'[r].tags = requests[r].tags
        BY <2>5
    <2>8. DOMAIN requests'[r] = DOMAIN requests[r] \cup {"left", "change", "alone"}
        BY <2>1, <2>3
    <2> QED BY <1>1, <1>2, <2>3, <2>4, <2>6, <2>7, <2>8 DEF a
<1> QED BY <1>3, <1>4 DEF MarkAccepted

PutMoves(r) == OpenTemporary(r) \/ WriteTemporary(r) \/ Rename(r) \/ PutFails(r)

LEMMA PutMoved ==
    ASSUME Typed, NEW r \in Requests, PutMoves(r)
    PROVE  /\ Putting(r) /\ Others({r})
           /\ \/ requests'[r] = Null
              \/ /\ IsLibrary(requests[r])
                 /\ requests'[r] = Answered(requests[r], requests[r].value)
              \/ /\ DOMAIN requests'[r] = DOMAIN requests[r] \cup {"handle"}
                 /\ \A f \in DOMAIN requests[r] :
                      f \notin {"pc", "handle"} => requests'[r][f] = requests[r][f]
                 /\ \/ /\ requests[r].pc = "open" /\ requests'[r].pc = "write"
                       /\ requests'[r].handle = Temporary(requests[r].key)
                       /\ files' = [files EXCEPT ![Temporary(requests[r].key)] = Empty]
                    \/ requests[r].pc = "write" /\ requests'[r].pc = "rename"
<1>1. Putting(r)
    BY DEF PutMoves, OpenTemporary, WriteTemporary, Rename, PutFails, At, Putting, PutPcs
<1>2. /\ requests[r] # Null /\ RequestOK(requests[r]) /\ DOMAIN requests = Requests
      /\ {"pc", "account", "key", "value"} \subseteq DOMAIN requests[r]
      /\ requests[r].key \in Keys
    BY <1>1, PutRequestOK DEF Typed
<1> DEFINE key == requests[r].key
<1>3. ASSUME NEW pc, NEW handle, requests' = Continue(requests, r, pc, [handle |-> handle])
      PROVE  /\ Others({r})
             /\ DOMAIN requests'[r] = DOMAIN requests[r] \cup {"handle"}
             /\ requests'[r].pc = pc /\ requests'[r].handle = handle
             /\ \A f \in DOMAIN requests[r] :
                  f \notin {"pc", "handle"} => requests'[r][f] = requests[r][f]
    <2> DEFINE more == [handle |-> handle]
    <2>1. DOMAIN more = {"handle"} /\ more["handle"] = handle
        OBVIOUS
    <2> HIDE DEF more
    <2>2. r \in DOMAIN requests /\ "pc" \in DOMAIN requests[r] /\ "pc" \notin DOMAIN more
        BY <1>2, <2>1
    <2>3. /\ DOMAIN requests' = Requests
          /\ \A q \in Requests : q # r => requests'[q] = requests[q]
          /\ DOMAIN requests'[r] = DOMAIN requests[r] \cup DOMAIN more
          /\ requests'[r].pc = pc
          /\ \A f \in DOMAIN more : requests'[r][f] = more[f]
          /\ \A f \in DOMAIN requests[r] :
               f # "pc" /\ f \notin DOMAIN more => requests'[r][f] = requests[r][f]
        BY <1>2, <1>3, <2>2, ContinueIs DEF more
    <2>4. requests'[r]["handle"] = handle
        BY <2>1, <2>3
    <2> QED BY <2>1, <2>3, <2>4 DEF Others, AsBefore
<1>4. ASSUME NEW rs, DOMAIN rs = Requests, rs[r] = requests[r],
             \A q \in Requests : AsBefore(requests[q], rs[q]), requests' = AfterPut(rs, r)
      PROVE  /\ Others({r})
             /\ \/ requests'[r] = Null
                \/ /\ IsLibrary(requests[r])
                   /\ requests'[r] = Answered(requests[r], requests[r].value)
    BY <1>4 DEF AfterPut, Ended, Others
<1>5. CASE OpenTemporary(r)
    <2>1. requests[r].pc = "open"
        BY <1>5 DEF OpenTemporary, At
    <2>2. /\ files' = [files EXCEPT ![Temporary(key)] = Empty]
          /\ requests' = Continue(requests, r, "write", [handle |-> Temporary(key)])
        BY <1>5 DEF OpenTemporary
    <2> QED BY <1>1, <1>3, <2>1, <2>2
<1>6. CASE WriteTemporary(r)
    <2>1. requests[r].pc = "write"
        BY <1>6 DEF WriteTemporary, At
    <2>2. requests' = Continue(requests, r, "rename", [handle |-> Null])
        BY <1>6 DEF WriteTemporary
    <2> QED BY <1>1, <1>3, <2>1, <2>2
<1>7. CASE requests' = AfterPut(requests, r)
    <2>1. \A q \in Requests : AsBefore(requests[q], requests[q])
        BY DEF AsBefore
    <2> QED BY <1>1, <1>2, <1>4, <1>7, <2>1
<1>8. CASE Rename(r)
    <2> DEFINE from == Temporary(key)
               to == Final(key)
               moved == [q \in Requests |->
                           IF q \in Writers(to) THEN Moved(to, Null)[q] ELSE Moved(from, to)[q]]
    <2>1. ~At(r, "write")
        BY <1>8 DEF Rename, At
    <2>2. \A q \in Requests :
            /\ AsBefore(requests[q], Moved(to, Null)[q])
            /\ ~At(q, "write") => Moved(to, Null)[q] = requests[q]
        BY <1>2, MovedIsAsBefore DEF Names
    <2>3. \A q \in Requests :
            /\ AsBefore(requests[q], Moved(from, to)[q])
            /\ ~At(q, "write") => Moved(from, to)[q] = requests[q]
        BY <1>2, MovedIsAsBefore
    <2>4. requests' = AfterPut(moved, r) \/ requests' = AfterPut(requests, r)
        BY <1>8 DEF Rename
    <2>5. /\ DOMAIN moved = Requests /\ moved[r] = requests[r]
          /\ \A q \in Requests : AsBefore(requests[q], moved[q])
        BY <2>1, <2>2, <2>3
    <2> HIDE DEF moved
    <2> QED BY <1>1, <1>4, <1>7, <2>4, <2>5
<1> QED BY <1>5, <1>6, <1>7, <1>8 DEF PutMoves, PutFails

-------------------------------------------------------------------------------
(* Everything is of its kind. *)

LEMMA PutContentOK ==
    ASSUME Typed, NEW w \in Requests, NEW k, NEW content, Puts(w, k, content)
    PROVE  ContentOK(k, content)
<1>1. RequestOK(requests[w]) /\ requests[w].pc \in PutPcs /\ requests[w].account \in Accounts
    BY PutRequestOK DEF Puts, Putting, RequestOK
<1>2. CASE IsLibraryRequest(requests[w])
    <2>1. /\ k \in LibraryKeys(requests[w].account)
          /\ content \in ListsOf(requests[w].account)
        BY <1>1, <1>2 DEF IsLibraryRequest, Puts
    <2> QED BY <1>1, <2>1, KeysApart DEF ContentOK
<1>3. CASE IsMarkRequest(requests[w])
    <2>1. k = HistoryKey(requests[w].account) /\ content \in Counts
        BY <1>1, <1>3 DEF IsMarkRequest, Puts
    <2> QED BY <1>1, <2>1, KeysApart DEF ContentOK
<1> QED BY <1>1, <1>2, <1>3 DEF RequestOK

LEMMA FilesStayOK ==
    ASSUME Typed, [Next]_vars
    PROVE  FilesOK'
<1>1. FileStep
    BY EveryFileStep
<1>2. ASSUME NEW k \in Keys, NEW path \in Names(k), NEW c,
             \/ c \in {Null, Empty, Torn, files[path]} \/ \E w \in Requests : Puts(w, k, c)
      PROVE  ContentOK(k, c)
    BY <1>2, PutContentOK DEF Typed, FilesOK, ContentOK
<1>3. ASSUME NEW k \in Keys PROVE ContentOK(k, files'[Temporary(k)])
    BY <1>1, <1>2 DEF FileStep, Names
<1>4. ASSUME NEW k \in Keys PROVE ContentOK(k, files'[Final(k)])
    <2>1. CASE files'[Final(k)] = files[Temporary(k)]
        BY <2>1 DEF Typed, FilesOK, Names
    <2>2. CASE \/ files'[Final(k)] \in {Null, Empty, Torn, files[Final(k)]}
               \/ \E w \in Requests : Puts(w, k, files'[Final(k)])
        BY <1>2, <2>2 DEF Names
    <2> QED BY <1>1, <2>1, <2>2 DEF FileStep
<1> QED BY <1>1, <1>3, <1>4 DEF FilesOK, FileStep, Names

LEMMA ParsedIsOK ==
    ASSUME Typed, NEW a \in Accounts, NEW k \in Keys, NEW path \in Names(k), Parses(path)
    PROVE  /\ k \in LibraryKeys(a) => files[path] \in ListsOf(a)
           /\ k = HistoryKey(a) => files[path] \in Counts
<1>1. ContentOK(k, files[path])
    BY DEF Typed, FilesOK
<1>2. files[path] \notin {Null, Empty, Torn}
    BY DEF Parses, Holds
<1> QED BY <1>1, <1>2 DEF ContentOK

LEMMA CountedIsCounts ==
    ASSUME NEW counts \in Counts, NEW tags \in Counts
    PROVE  Counted(counts, tags) \in Counts
BY DEF Counted, Counts

LEMMA CurrentIsCounts ==
    ASSUME Typed, NEW a \in Accounts
    PROVE  CurrentHistory(a) \in Counts
<1>1. HistoryKey(a) \in Keys /\ Final(HistoryKey(a)) \in Names(HistoryKey(a))
    BY KeysApart DEF Names
<1>2. CASE Parses(Final(HistoryKey(a)))
    BY <1>1, <1>2, ParsedIsOK DEF CurrentHistory
<1>3. CASE ~Parses(Final(HistoryKey(a)))
    BY <1>3 DEF CurrentHistory, Counts
<1> QED BY <1>2, <1>3

LEMMA AnsweredIsOK ==
    ASSUME NEW q, RequestOK(q), IsLibrary(q), NEW value \in ListsOf(q.account)
    PROVE  RequestOK(Answered(q, value))
<1>1. q.account \in Accounts /\ q.owed \in Nat
    BY DEF RequestOK, IsLibraryRequest, IsMarkRequest
<1> DEFINE new == Answered(q, value)
<1>2. /\ DOMAIN new = {"pc", "account", "owed", "answer"}
      /\ new.pc = "answer" /\ new.account = q.account /\ new.owed = q.owed /\ new.answer = value
    BY DEF Answered
<1> HIDE DEF new
<1>3. IsLibraryRequest(new)
    BY <1>1, <1>2 DEF IsLibraryRequest, IsLibrary, PutPcs
<1> QED BY <1>1, <1>2, <1>3 DEF RequestOK, new

LEMMA CountTagsMoves ==
    ASSUME Typed, NEW r \in Requests, CountTags(r)
    PROVE  /\ requests[r] # Null /\ RequestOK(requests[r]) /\ IsMarkRequest(requests[r])
           /\ requests[r].pc = "invalidate" /\ Others({r})
           /\ \/ requests'[r] = Null
              \/ requests'[r] = [pc |-> "open", account |-> requests[r].account,
                                 key |-> HistoryKey(requests[r].account),
                                 value |-> Counted(CurrentHistory(requests[r].account),
                                                   requests[r].tags)]
<1>1. /\ requests[r] # Null /\ RequestOK(requests[r]) /\ requests[r].pc = "invalidate"
      /\ DOMAIN requests = Requests
    BY DEF CountTags, At, Typed
<1>2. IsMarkRequest(requests[r])
    BY <1>1 DEF RequestOK, IsLibraryRequest, PutPcs
<1>3. Others({r})
    BY <1>1 DEF CountTags, Others, AsBefore
<1> QED BY <1>1, <1>2, <1>3 DEF CountTags

LEMMA MovedIsOK ==
    ASSUME Typed, NEW r \in Requests, Moves(r)
    PROVE  /\ Others({r})
           /\ requests'[r] # Null => RequestOK(requests'[r])
<1>0. DOMAIN requests = Requests /\ account \in Accounts
      /\ \A a \in Accounts : settled[a] \in Nat /\ lists[a] \in Nat
    BY DEF Typed
<1>1. CASE AskLibrary(r)
    <2>1. PICK limit \in Limits, pc \in {"look", "fetch"} :
            requests' = [requests EXCEPT ![r] =
              [pc |-> pc, account |-> account, limit |-> limit, owed |-> settled[account],
               wish |-> Null, collect |-> Null]]
        BY <1>1 DEF AskLibrary
    <2> DEFINE new == [pc |-> pc, account |-> account, limit |-> limit,
                       owed |-> settled[account], wish |-> Null, collect |-> Null]
    <2>2. /\ DOMAIN new = {"pc", "account", "limit", "owed", "wish", "collect"}
          /\ new.pc = pc /\ new.account = account /\ new.limit = limit
          /\ new.owed = settled[account] /\ new.wish = Null /\ new.collect = Null
        OBVIOUS
    <2>3. requests'[r] = new /\ Others({r})
        BY <1>0, <2>1 DEF Others, AsBefore
    <2> HIDE DEF new
    <2>4. IsLibraryRequest(new)
        BY <1>0, <2>2 DEF IsLibraryRequest, IsLibrary, PutPcs
    <2> QED BY <1>0, <2>2, <2>3, <2>4 DEF RequestOK
<1>2. CASE AskMark(r)
    <2>1. PICK tags \in TagsOfMarks :
            requests' = [requests EXCEPT ![r] = [pc |-> "mark", account |-> account, tags |-> tags]]
        BY <1>2 DEF AskMark
    <2>2. tags \in Counts
        BY <2>1, CacheConstants DEF TagsOfMarks, Counts
    <2> DEFINE new == [pc |-> "mark", account |-> account, tags |-> tags]
    <2>3. /\ DOMAIN new = {"pc", "account", "tags"}
          /\ new.pc = "mark" /\ new.account = account /\ new.tags = tags
        OBVIOUS
    <2>4. requests'[r] = new /\ Others({r})
        BY <1>0, <2>1 DEF Others, AsBefore
    <2> HIDE DEF new
    <2> QED BY <1>0, <2>2, <2>3, <2>4 DEF RequestOK, IsMarkRequest, IsLibrary, PutPcs
<1>3. CASE LookUp(r)
    <2> DEFINE q == requests[r]
    <2>1. q # Null /\ RequestOK(q) /\ IsLibraryRequest(q) /\ q.pc = "look" /\ Others({r})
          /\ StoreKey(q) \in LibraryKeys(q.account)
        BY <1>3, LookedUp
    <2>2. q.account \in Accounts /\ {"pc", "account", "owed", "limit", "wish", "collect"} \subseteq DOMAIN q
        BY <2>1 DEF RequestOK, IsLibraryRequest, IsLibrary
    <2>3. CASE /\ Parses(Final(StoreKey(q)))
               /\ requests'[r] = Answered(q, files[Final(StoreKey(q))])
        <3>1. files[Final(StoreKey(q))] \in ListsOf(q.account)
            BY <2>1, <2>2, <2>3, ParsedIsOK, KeysApart DEF Names
        <3> QED BY <2>1, <2>3, <3>1, AnsweredIsOK DEF IsLibraryRequest
    <2>4. CASE /\ DOMAIN requests'[r] = DOMAIN q /\ requests'[r].pc = "fetch"
               /\ \A f \in DOMAIN q : f # "pc" => requests'[r][f] = q[f]
        <3> DEFINE new == requests'[r]
        <3>1. /\ new.account = q.account /\ new.owed = q.owed /\ new.limit = q.limit
              /\ new.wish = q.wish /\ new.collect = q.collect
            BY <2>2, <2>4
        <3>2. IsLibraryRequest(new)
            BY <2>1, <2>2, <2>4, <3>1 DEF IsLibraryRequest, IsLibrary, PutPcs
        <3> QED BY <2>1, <2>2, <2>4, <3>1, <3>2 DEF RequestOK
    <2> QED BY <1>3, <2>1, <2>3, <2>4, LookedUp
<1>4. CASE MarkAccepted(r)
    <2> DEFINE q == requests[r]
    <2>1. RequestOK(q) /\ IsMarkRequest(q) /\ q.pc = "mark" /\ Others({r})
        BY <1>4, Accepted
    <2>2. q.account \in Accounts /\ lists[q.account] + 1 \in Nat
        BY <1>0, <2>1 DEF RequestOK
    <2>3. CASE requests'[r] # Null
        <3> DEFINE new == requests'[r]
        <3>1. /\ DOMAIN new = DOMAIN q \cup {"left", "change", "alone"}
              /\ new.pc = "invalidate" /\ new.account = q.account /\ new.tags = q.tags
              /\ new.left = LibraryKeys(q.account) /\ new.change = lists[q.account] + 1
              /\ new.alone \in BOOLEAN
            BY <1>4, <2>3, Accepted
        <3> HIDE DEF new
        <3>2. IsMarkRequest(new)
            BY <2>1, <2>2, <3>1 DEF IsMarkRequest, IsLibrary, PutPcs
        <3> QED BY <2>1, <2>2, <3>1, <3>2 DEF RequestOK, new
    <2> QED BY <2>1, <2>3
<1>5. CASE Invalidate(r)
    <2> DEFINE q == requests[r]
               new == requests'[r]
    <2>1. /\ RequestOK(q) /\ IsMarkRequest(q) /\ q.pc = "invalidate" /\ new.pc = "invalidate"
          /\ Others({r}) /\ DOMAIN new = DOMAIN q /\ new.left \subseteq q.left
          /\ \A f \in DOMAIN q : f # "left" => new[f] = q[f]
        BY <1>5, Invalidated1
    <2>2. {"pc", "account", "tags", "left", "change", "alone"} \subseteq DOMAIN q
        BY <2>1 DEF RequestOK, IsMarkRequest
    <2>3. /\ new.account = q.account /\ new.tags = q.tags
          /\ new.change = q.change /\ new.alone = q.alone
        BY <2>1, <2>2
    <2>4. IsMarkRequest(new)
        BY <2>1, <2>2, <2>3 DEF IsMarkRequest, IsLibrary, PutPcs
    <2> QED BY <2>1, <2>3, <2>4 DEF RequestOK
<1>6. CASE CountTags(r)
    <2> DEFINE q == requests[r]
               value == Counted(CurrentHistory(q.account), q.tags)
               new == [pc |-> "open", account |-> q.account, key |-> HistoryKey(q.account),
                       value |-> value]
    <2>1. /\ RequestOK(q) /\ IsMarkRequest(q) /\ q.pc = "invalidate" /\ Others({r})
          /\ requests'[r] = Null \/ requests'[r] = new
        BY <1>6, CountTagsMoves
    <2>2. q.account \in Accounts /\ q.tags \in Counts
        BY <2>1 DEF RequestOK, IsMarkRequest
    <2>3. value \in Counts
        BY <2>2, CountedIsCounts, CurrentIsCounts
    <2>4. /\ DOMAIN new = {"pc", "account", "key", "value"}
          /\ new.pc = "open" /\ new.account = q.account /\ new.key = HistoryKey(q.account)
          /\ new.value = value
        OBVIOUS
    <2> HIDE DEF new, value
    <2>5. RequestOK(new)
        BY <2>2, <2>3, <2>4 DEF RequestOK, IsMarkRequest, IsLibrary, PutPcs
    <2> QED BY <2>1, <2>5
<1>7. CASE StoreLibrary(r)
    <2> DEFINE q == requests[r]
               value == [account |-> q.account, wish |-> q.wish, collect |-> q.collect]
               new == [pc |-> "open", account |-> q.account, owed |-> q.owed,
                       key |-> StoreKey(q), value |-> value]
    <2>1. /\ RequestOK(q) /\ q.pc = "fetch" /\ q.wish # Null /\ q.collect # Null
          /\ requests' = [requests EXCEPT ![r] = new]
        BY <1>7 DEF StoreLibrary, At, Typed
    <2>2. IsLibraryRequest(q) /\ q.account \in Accounts
        BY <2>1 DEF RequestOK, IsMarkRequest, PutPcs
    <2>3. value \in ListsOf(q.account) /\ StoreKey(q) \in LibraryKeys(q.account) /\ q.owed \in Nat
        BY <2>1, <2>2 DEF IsLibraryRequest, ListsOf, StoreKey, LibraryKeys
    <2>4. /\ DOMAIN new = {"pc", "account", "owed", "key", "value"}
          /\ new.pc = "open" /\ new.account = q.account /\ new.owed = q.owed
          /\ new.key = StoreKey(q) /\ new.value = value
        OBVIOUS
    <2>5. requests'[r] = new /\ Others({r})
        BY <1>0, <2>1 DEF Others, AsBefore
    <2> HIDE DEF new, value
    <2>6. IsLibraryRequest(new)
        BY <2>3, <2>4 DEF IsLibraryRequest, IsLibrary, PutPcs
    <2> QED BY <2>2, <2>4, <2>5, <2>6 DEF RequestOK
<1>8. ASSUME NEW list \in {"wish", "collect"}, FetchList(r, list)
      PROVE  Others({r}) /\ RequestOK(requests'[r])
    <2> DEFINE q == requests[r]
    <2>1. /\ q # Null /\ RequestOK(q) /\ q.pc = "fetch"
          /\ requests' = [requests EXCEPT ![r] = [q EXCEPT ![list] = lists[q.account]]]
        BY <1>8 DEF FetchList, At, Typed
    <2>2. IsLibraryRequest(q) /\ q.account \in Accounts /\ lists[q.account] \in Nat
        BY <1>0, <2>1 DEF RequestOK, IsMarkRequest, PutPcs
    <2> DEFINE new == [q EXCEPT ![list] = lists[q.account]]
    <2>3. requests'[r] = new /\ Others({r})
        BY <1>0, <2>1 DEF Others, AsBefore
    <2>4. /\ DOMAIN new = DOMAIN q /\ new.pc = q.pc /\ new.account = q.account
          /\ "owed" \in DOMAIN q => new.owed = q.owed
          /\ "limit" \in DOMAIN q => new.limit = q.limit
          /\ "wish" \in DOMAIN q => new.wish \in {q.wish, lists[q.account]}
          /\ "collect" \in DOMAIN q => new.collect \in {q.collect, lists[q.account]}
        <3>1. CASE list = "wish"
            BY <2>1, <3>1 DEF RequestOK
        <3>2. CASE list = "collect"
            BY <2>1, <3>2 DEF RequestOK
        <3> QED BY <1>8, <3>1, <3>2
    <2> HIDE DEF new
    <2>5. IsLibraryRequest(new)
        BY <2>1, <2>2, <2>4 DEF IsLibraryRequest, IsLibrary, PutPcs
    <2> QED BY <2>1, <2>2, <2>3, <2>4, <2>5 DEF RequestOK
<1>9. CASE PutMoves(r)
    <2> DEFINE q == requests[r]
               new == requests'[r]
    <2>1. RequestOK(q) /\ q.pc \in PutPcs /\ Others({r})
          /\ {"pc", "account", "key", "value"} \subseteq DOMAIN q
        BY <1>9, PutMoved, PutRequestOK DEF Putting
    <2>2. CASE IsLibrary(q) /\ new = Answered(q, q.value)
        <3>1. q.value \in ListsOf(q.account)
            BY <2>1, <2>2 DEF RequestOK, IsLibraryRequest, IsMarkRequest
        <3> QED BY <2>1, <2>2, <3>1, AnsweredIsOK
    <2>3. CASE /\ DOMAIN new = DOMAIN q \cup {"handle"}
               /\ \A f \in DOMAIN q : f \notin {"pc", "handle"} => new[f] = q[f]
               /\ \/ new.pc = "write" /\ new.handle = Temporary(q.key)
                  \/ new.pc = "rename"
        <3>1. /\ new.account = q.account /\ new.key = q.key /\ new.value = q.value
              /\ "owed" \in DOMAIN q => new.owed = q.owed
            BY <2>1, <2>3
        <3>2. IsLibraryRequest(q) => IsLibraryRequest(new)
            BY <2>1, <2>3, <3>1 DEF IsLibraryRequest, IsLibrary, PutPcs
        <3>3. IsMarkRequest(q) => IsMarkRequest(new)
            BY <2>1, <2>3, <3>1 DEF IsMarkRequest, IsLibrary, PutPcs
        <3> QED BY <2>1, <2>3, <3>1, <3>2, <3>3 DEF RequestOK
    <2> QED BY <1>9, <2>1, <2>2, <2>3, PutMoved
<1> QED BY <1>1, <1>2, <1>3, <1>4, <1>5, <1>6, <1>7, <1>8, <1>9 DEF Moves, PutMoves

LEMMA OthersTyped ==
    ASSUME Typed, NEW movers \in SUBSET Requests, Others(movers),
           \A r \in movers : requests'[r] # Null => RequestOK(requests'[r])
    PROVE  /\ DOMAIN requests' = Requests
           /\ \A r \in Requests : requests'[r] # Null => RequestOK(requests'[r])
<1>1. ASSUME NEW r \in Requests, requests'[r] # Null, r \notin movers
      PROVE  RequestOK(requests'[r])
    <2>1. AsBefore(requests[r], requests'[r])
        BY <1>1 DEF Others
    <2>2. requests[r] # Null
        BY <1>1, <2>1 DEF AsBefore
    <2> QED BY <1>1, <2>1, <2>2, AsBeforeKeeps DEF Typed
<1> QED BY <1>1 DEF Others

LEMMA TypedStep ==
    ASSUME Typed, [Next]_vars
    PROVE  Typed'
<1>1. FilesOK'
    BY FilesStayOK
<1>2. ASSUME NEW r \in Requests, Moves(r)
      PROVE  /\ DOMAIN requests' = Requests
             /\ \A q \in Requests : requests'[q] # Null => RequestOK(requests'[q])
    <2>1. Others({r}) /\ {r} \in SUBSET Requests
          /\ \A q \in {r} : requests'[q] # Null => RequestOK(requests'[q])
        BY <1>2, MovedIsOK
    <2> QED BY <2>1, OthersTyped
<1>3. /\ DOMAIN requests' = Requests
      /\ \A r \in Requests : requests'[r] # Null => RequestOK(requests'[r])
    <2>1. CASE Rests
        <3>1. Others({}) /\ {} \in SUBSET Requests
              /\ \A q \in {} : requests'[q] # Null => RequestOK(requests'[q])
            BY <2>1 DEF Rests
        <3> QED BY <3>1, OthersTyped
    <2> QED BY <1>2, <2>1, MoveOrRest
<1>4. ASSUME NEW r \in Requests, MarkAccepted(r)
      PROVE  lists' \in [Accounts -> Nat] /\ settled' = settled /\ tagged' \in [Accounts -> Counts]
             /\ account' = account
    <2>1. /\ requests[r].account \in Accounts /\ requests[r].tags \in Counts
        BY <1>4, Accepted DEF RequestOK, IsMarkRequest
    <2>2. \A counts \in Counts : Counted(counts, requests[r].tags) \in Counts
        BY <2>1, CountedIsCounts
    <2>3. lists' = [lists EXCEPT ![requests[r].account] = @ + 1]
          /\ tagged' = [tagged EXCEPT ![requests[r].account] = Counted(@, requests[r].tags)]
        BY <1>4 DEF MarkAccepted
    <2> QED BY <1>4, <2>1, <2>2, <2>3 DEF MarkAccepted, Typed
<1>5. ASSUME NEW r \in Requests, CountTags(r)
      PROVE  settled' \in [Accounts -> Nat] /\ UNCHANGED <<account, lists, tagged>>
    <2>1. requests[r].account \in Accounts /\ requests[r].change \in Nat
        BY <1>5, CountTagsMoves DEF RequestOK, IsMarkRequest
    <2> QED BY <1>5, <2>1 DEF CountTags, Settle, Typed
<1>6. ASSUME NEW r \in Requests,
             AskLibrary(r) \/ AskMark(r) \/ Drop(r) \/ (Step(r) /\ ~MarkAccepted(r) /\ ~CountTags(r))
      PROVE  UNCHANGED <<account, lists, tagged, settled>>
    BY <1>6 DEF AskLibrary, AskMark, Drop, Step, LookUp, FetchList, FetchFails, StoreLibrary,
                OpenTemporary, WriteTemporary, Rename, PutFails, Answer, MarkFails, Invalidate,
                douban
<1>7. ASSUME Restart \/ (\E path \in Paths : CleanUp(path)) \/ UNCHANGED vars
      PROVE  UNCHANGED <<account, lists, tagged, settled>>
    BY <1>7 DEF Restart, CleanUp, vars, douban
<1>8. SwitchAccount => account' \in Accounts /\ UNCHANGED <<lists, tagged, settled>>
    BY DEF SwitchAccount
<1>9. /\ account' \in Accounts /\ lists' \in [Accounts -> Nat]
      /\ settled' \in [Accounts -> Nat] /\ tagged' \in [Accounts -> Counts]
    <2>1. ASSUME NEW r \in Requests, AskLibrary(r) \/ AskMark(r) \/ Drop(r) \/ Step(r)
          PROVE  /\ account' \in Accounts /\ lists' \in [Accounts -> Nat]
                 /\ settled' \in [Accounts -> Nat] /\ tagged' \in [Accounts -> Counts]
        BY <1>4, <1>5, <1>6, <2>1 DEF Typed
    <2> QED BY <1>7, <1>8, <2>1 DEF Next, Typed
<1> QED BY <1>1, <1>3, <1>9 DEF Typed

-------------------------------------------------------------------------------
(* No history has a tag too often. *)

LEMMA UsesCounted ==
    ASSUME NEW r, NEW n \in Nat
    PROVE  IsFiniteSet(UsesOf(r, n)) /\ Cardinality(UsesOf(r, n)) = n
<1>1. IsFiniteSet({r}) /\ Cardinality({r}) = 1
    BY FS_Singleton
<1>2. 1 \in Int /\ n \in Int
    OBVIOUS
<1>3. IsFiniteSet(1..n) /\ Cardinality(1..n) = IF 1 > n THEN 0 ELSE n - 1 + 1
    BY ONLY <1>2, FS_Interval
<1>4. Cardinality(1..n) = n
    BY <1>3
<1>5. /\ IsFiniteSet({r} \X (1..n))
      /\ Cardinality({r} \X (1..n)) = Cardinality({r}) * Cardinality(1..n)
    BY ONLY <1>1, <1>3, FS_Product
<1>6. Cardinality({r} \X (1..n)) = n
    BY <1>1, <1>4, <1>5
<1> QED BY <1>5, <1>6 DEF UsesOf

LEMMA UncountedOfOthers ==
    ASSUME Typed, NEW movers, Others(movers), NEW a \in Accounts, NEW tag \in Tags,
           NEW use \in Uncounted(a, tag)', use[1] \notin movers
    PROVE  use \in Uncounted(a, tag)
<1>0. use \in Requests \X (Nat \ {0}) /\ use[1] \in Requests
    BY DEF Uncounted
<1> DEFINE q == use[1]
<1>1. /\ requests'[q] # Null /\ requests'[q].pc = "invalidate"
      /\ requests'[q].account = a /\ use[2] <= requests'[q].tags[tag]
    BY DEF Uncounted, At
<1>2. AsBefore(requests[q], requests'[q])
    BY <1>0 DEF Others
<1>3. requests[q] # Null /\ RequestOK(requests[q])
    BY <1>0, <1>1, <1>2 DEF AsBefore, Typed
<1>4. requests'[q] = requests[q]
    BY <1>1, <1>2, <1>3, AsBeforeKeeps
<1> QED BY <1>0, <1>1, <1>4 DEF Uncounted, At

\* After the step.
StillFits(counts, a, tag) ==
    counts[tag] + Cardinality(Uncounted(a, tag)') <= tagged'[a][tag]

\* The uncounted uses grow no faster than what Douban has.
Balanced(a, tag) ==
    /\ IsFiniteSet(Uncounted(a, tag)')
    /\ Cardinality(Uncounted(a, tag)') + tagged[a][tag]
         <= Cardinality(Uncounted(a, tag)) + tagged'[a][tag]

LEMMA FewerUncounted ==
    ASSUME Typed, Typed', CountsInv, NEW a \in Accounts, NEW tag \in Tags,
           Uncounted(a, tag)' \subseteq Uncounted(a, tag), tagged'[a][tag] = tagged[a][tag]
    PROVE  Balanced(a, tag)
<1>1. IsFiniteSet(Uncounted(a, tag)) /\ Cardinality(Uncounted(a, tag)) \in Nat
    BY FS_CardinalityType DEF CountsInv
<1>2. IsFiniteSet(Uncounted(a, tag)')
      /\ Cardinality(Uncounted(a, tag)') <= Cardinality(Uncounted(a, tag))
      /\ Cardinality(Uncounted(a, tag)') \in Nat
    BY <1>1, FS_Subset, FS_CardinalityType
<1>3. tagged[a][tag] \in Nat
    BY DEF Typed, Counts
<1> QED BY <1>1, <1>2, <1>3 DEF Balanced

LEMMA CountsCarry ==
    ASSUME Typed, Typed', CountsInv, FileStep,
           \A a \in Accounts, tag \in Tags : Balanced(a, tag),
           NEW movers \in SUBSET Requests, Others(movers),
           \A r \in movers, a \in Accounts, tag \in Tags :
             Putting(r)' /\ requests'[r].key = HistoryKey(a) =>
               \/ /\ Putting(r) /\ requests[r].key = HistoryKey(a)
                  /\ requests'[r].value = requests[r].value
               \/ StillFits(requests'[r].value, a, tag)
    PROVE  CountsInv'
<1> SUFFICES ASSUME NEW a \in Accounts, NEW tag \in Tags
             PROVE  /\ IsFiniteSet(Uncounted(a, tag))'
                    /\ Cardinality(Uncounted(a, tag))' <= tagged'[a][tag]
                    /\ \A path \in Names(HistoryKey(a)) :
                         Parses(path)' => StillFits(files'[path], a, tag)
                    /\ \A r \in Requests : Putting(r)' /\ requests'[r].key = HistoryKey(a) =>
                         StillFits(requests'[r].value, a, tag)
    BY DEF CountsInv, Fits, StillFits
<1> DEFINE key == HistoryKey(a)
           before == Cardinality(Uncounted(a, tag))
           after == Cardinality(Uncounted(a, tag)')
<1>0. key \in Keys
    BY KeysApart
<1>1. /\ IsFiniteSet(Uncounted(a, tag)) /\ IsFiniteSet(Uncounted(a, tag)')
      /\ before \in Nat /\ after \in Nat
    BY FS_CardinalityType DEF CountsInv, Balanced
<1>2. tagged[a][tag] \in Nat /\ tagged'[a][tag] \in Nat
    BY DEF Typed, Counts
<1>3. before <= tagged[a][tag] /\ after + tagged[a][tag] <= before + tagged'[a][tag]
    BY DEF CountsInv, Balanced
<1> HIDE DEF before, after
<1>4. after <= tagged'[a][tag]
    BY <1>1, <1>2, <1>3
<1>5. ASSUME NEW counts \in Counts, Fits(counts, a, tag) PROVE StillFits(counts, a, tag)
    <2>1. counts[tag] \in Nat /\ counts[tag] + before <= tagged[a][tag]
        BY <1>5 DEF Counts, Fits, before
    <2>2. counts[tag] + after <= tagged'[a][tag]
        BY <1>1, <1>2, <1>3, <2>1
    <2> QED BY <2>2 DEF StillFits, after
<1>6. ASSUME NEW w \in Requests, Putting(w), requests[w].key = key
      PROVE  StillFits(requests[w].value, a, tag)
    <2>1. requests[w].value \in Counts
        BY <1>6, PutRequestOK, KeysApart DEF RequestOK, IsLibraryRequest, IsMarkRequest, Putting
    <2> QED BY <1>5, <1>6, <2>1 DEF CountsInv
<1>7. ASSUME NEW path \in Names(key), Parses(path)
      PROVE  StillFits(files[path], a, tag)
    <2>1. files[path] \in Counts
        BY <1>0, <1>7, ParsedIsOK
    <2> QED BY <1>5, <1>7, <2>1 DEF CountsInv
<1>8. ASSUME NEW path \in Names(key), Parses(path)'
      PROVE  StillFits(files'[path], a, tag)
    <2>1. files'[path] \notin {Null, Empty, Torn}
        BY <1>8 DEF Parses, Holds
    <2>2. \/ \E p \in Names(key) : files'[path] = files[p]
          \/ \E w \in Requests : Puts(w, key, files'[path])
        BY <1>0, <2>1 DEF FileStep, Names
    <2>3. ASSUME NEW p \in Names(key), files'[path] = files[p]
          PROVE  StillFits(files'[path], a, tag)
        <3>1. Parses(p)
            BY <2>1, <2>3 DEF Parses, Holds
        <3> QED BY <1>7, <2>3, <3>1
    <2>4. ASSUME NEW w \in Requests, Puts(w, key, files'[path])
          PROVE  StillFits(files'[path], a, tag)
        BY <1>6, <2>4 DEF Puts
    <2> QED BY <2>2, <2>3, <2>4
<1>9. ASSUME NEW r \in Requests, Putting(r)', requests'[r].key = key
      PROVE  StillFits(requests'[r].value, a, tag)
    <2>1. CASE r \in movers
        BY <1>6, <1>9, <2>1
    <2>2. CASE r \notin movers
        <3>1. AsBefore(requests[r], requests'[r]) /\ requests'[r] # Null
            BY <1>9, <2>2 DEF Others, Putting
        <3>2. requests[r] # Null /\ RequestOK(requests[r])
            BY <3>1 DEF AsBefore, Typed
        <3>3. /\ requests[r].pc = requests'[r].pc /\ requests[r].key = requests'[r].key
              /\ requests[r].value = requests'[r].value
            BY <3>1, <3>2, AsBeforeKeeps
        <3> QED BY <1>6, <1>9, <3>2, <3>3 DEF Putting
    <2> QED BY <2>1, <2>2
<1> QED BY <1>1, <1>4, <1>8, <1>9 DEF after

\* A step that neither accepts nor counts a mark.
LEMMA QuietCounts ==
    ASSUME Typed, Typed', CountsInv, FileStep, UNCHANGED tagged,
           NEW movers \in SUBSET Requests, Others(movers),
           \A r \in movers :
             /\ At(r, "invalidate")' => /\ At(r, "invalidate")
                                        /\ requests'[r].account = requests[r].account
                                        /\ requests'[r].tags = requests[r].tags
             /\ \A a \in Accounts : Putting(r)' /\ requests'[r].key = HistoryKey(a) =>
                  /\ Putting(r) /\ requests[r].key = HistoryKey(a)
                  /\ requests'[r].value = requests[r].value
    PROVE  CountsInv'
<1>1. ASSUME NEW a \in Accounts, NEW tag \in Tags PROVE Balanced(a, tag)
    <2>1. Uncounted(a, tag)' \subseteq Uncounted(a, tag)
        <3> SUFFICES ASSUME NEW use \in Uncounted(a, tag)' PROVE use \in Uncounted(a, tag)
            OBVIOUS
        <3>1. use[1] \in Requests
            BY DEF Uncounted
        <3>2. CASE use[1] \in movers
            BY <3>1, <3>2 DEF Uncounted
        <3>3. CASE use[1] \notin movers
            BY <3>3, UncountedOfOthers
        <3> QED BY <3>2, <3>3
    <2> QED BY <2>1, FewerUncounted
<1> QED BY <1>1, CountsCarry

LEMMA AcceptedCounts ==
    ASSUME Typed, Typed', CountsInv, FileStep, NEW r \in Requests, MarkAccepted(r)
    PROVE  CountsInv'
<1> DEFINE q == requests[r]
<1>1. /\ q # Null /\ RequestOK(q) /\ IsMarkRequest(q) /\ q.pc = "mark" /\ Others({r})
      /\ \/ requests'[r] = Null
         \/ /\ requests'[r].pc = "invalidate"
            /\ requests'[r].account = q.account /\ requests'[r].tags = q.tags
    BY Accepted
<1>2. q.account \in Accounts /\ q.tags \in Counts
    BY <1>1 DEF RequestOK, IsMarkRequest
<1>3. tagged' = [tagged EXCEPT ![q.account] = Counted(@, q.tags)]
    BY DEF MarkAccepted
<1>4. ASSUME NEW a \in Accounts, NEW tag \in Tags PROVE Balanced(a, tag)
    <2> DEFINE old == Uncounted(a, tag)
               new == Uncounted(a, tag)'
    <2>0. tagged[a] \in Counts /\ tagged[a][tag] \in Nat
        BY DEF Typed, Counts
    <2>1. q.tags[tag] \in Nat
        BY <1>2 DEF Counts
    <2>2. IsFiniteSet(old) /\ Cardinality(old) \in Nat
        BY FS_CardinalityType DEF CountsInv
    <2>3. CASE a = q.account
        <3> DEFINE more == UsesOf(r, q.tags[tag])
        <3>1. tagged'[a][tag] = tagged[a][tag] + q.tags[tag]
            BY <1>2, <1>3, <2>3 DEF Typed, Counts, Counted
        <3>2. IsFiniteSet(more) /\ Cardinality(more) = q.tags[tag]
            BY <2>1, UsesCounted
        <3>3. new \subseteq old \cup more
            <4> SUFFICES ASSUME NEW use \in new, use \notin old PROVE use \in more
                OBVIOUS
            <4>1. use[1] = r
                BY <1>1, UncountedOfOthers
            <4>2. /\ use \in Requests \X (Nat \ {0}) /\ requests'[r] # Null
                  /\ use[2] <= requests'[r].tags[tag]
                BY <4>1 DEF Uncounted, At
            <4>3. use[2] <= q.tags[tag]
                BY <1>1, <4>2
            <4> QED BY <2>1, <4>1, <4>2, <4>3 DEF UsesOf
        <3> HIDE DEF old, new, more
        <3>4. /\ IsFiniteSet(old \cup more)
              /\ Cardinality(old \cup more) =
                   Cardinality(old) + Cardinality(more) - Cardinality(old \cap more)
              /\ IsFiniteSet(old \cap more)
            BY <2>2, <3>2, FS_Union, FS_Intersection
        <3>5. Cardinality(old \cap more) \in Nat
            BY <3>4, FS_CardinalityType
        <3>6. IsFiniteSet(new) /\ Cardinality(new) <= Cardinality(old \cup more)
              /\ Cardinality(new) \in Nat
            BY <3>3, <3>4, FS_Subset, FS_CardinalityType
        <3>7. Cardinality(new) + tagged[a][tag] <= Cardinality(old) + tagged'[a][tag]
            BY <2>0, <2>1, <2>2, <3>1, <3>2, <3>4, <3>5, <3>6
        <3> QED BY <3>6, <3>7 DEF Balanced, old, new
    <2>4. CASE a # q.account
        <3>1. \A use \in new : use[1] # r
            BY <1>1, <2>4 DEF Uncounted, At
        <3>2. new \subseteq old
            BY <1>1, <3>1, UncountedOfOthers
        <3>3. tagged'[a][tag] = tagged[a][tag]
            BY <1>2, <1>3, <2>4 DEF Typed
        <3> QED BY <3>2, <3>3, FewerUncounted
    <2> QED BY <2>3, <2>4
<1>5. {r} \in SUBSET Requests /\ ~Putting(r)'
    BY <1>1 DEF Putting, PutPcs
<1> QED BY <1>1, <1>4, <1>5, CountsCarry

LEMMA CountTagsCounts ==
    ASSUME Typed, Typed', CountsInv, FileStep, NEW r \in Requests, CountTags(r)
    PROVE  CountsInv'
<1> DEFINE value(a) == Counted(CurrentHistory(a), requests[r].tags)
           new(a) == [pc |-> "open", account |-> a, key |-> HistoryKey(a), value |-> value(a)]
<1>1. /\ requests[r] # Null /\ RequestOK(requests[r]) /\ IsMarkRequest(requests[r])
      /\ requests[r].pc = "invalidate" /\ Others({r})
      /\ requests'[r] = Null \/ requests'[r] = new(requests[r].account)
    BY CountTagsMoves
<1>2. PICK own \in Accounts, tags \in Counts :
        own = requests[r].account /\ tags = requests[r].tags
    BY <1>1 DEF RequestOK, IsMarkRequest
<1>3. UNCHANGED tagged /\ CurrentHistory(own) \in Counts
    BY CurrentIsCounts DEF CountTags
<1>4. PICK held \in Counts : held = CurrentHistory(own)
    BY <1>3
<1>5. new(own).pc = "open" /\ new(own).key = HistoryKey(own)
      /\ new(own).value = Counted(held, tags)
    BY <1>2, <1>4
<1> HIDE DEF new
<1>6. ASSUME NEW a \in Accounts, NEW tag \in Tags
      PROVE  /\ Uncounted(a, tag)' \subseteq Uncounted(a, tag)
             /\ \A use \in Uncounted(a, tag)' : use[1] # r
    <2>1. \A use \in Uncounted(a, tag)' : use[1] # r
        BY <1>1, <1>2, <1>5 DEF Uncounted, At
    <2> QED BY <1>1, <2>1, UncountedOfOthers
<1>7. ASSUME NEW a \in Accounts, NEW tag \in Tags PROVE Balanced(a, tag)
    BY <1>3, <1>6, FewerUncounted
<1>8. ASSUME NEW tag \in Tags
      PROVE  Counted(held, tags)[tag] + Cardinality(Uncounted(own, tag)') <= tagged[own][tag]
    <2> DEFINE before == Uncounted(own, tag)
               after == Uncounted(own, tag)'
               most == tagged[own][tag]
    <2>1. held[tag] \in Nat /\ most \in Nat
        BY DEF Typed, Counts
    <2>2. IsFiniteSet(before) /\ Cardinality(before) \in Nat
        BY FS_CardinalityType DEF CountsInv
    <2>3. held[tag] + Cardinality(before) <= most
        <3>1. CASE Parses(Final(HistoryKey(own)))
            <4>1. Fits(files[Final(HistoryKey(own))], own, tag)
                BY <3>1 DEF CountsInv, Names
            <4> QED BY <1>4, <3>1, <4>1 DEF Fits, CurrentHistory
        <3>2. CASE ~Parses(Final(HistoryKey(own)))
            <4>1. held[tag] = 0
                BY <1>4, <3>2 DEF CurrentHistory
            <4>2. Cardinality(before) <= most
                BY DEF CountsInv
            <4> HIDE DEF before, most
            <4> QED BY <2>1, <2>2, <4>1, <4>2
        <3> QED BY <3>1, <3>2
    <2> DEFINE mine == UsesOf(r, tags[tag])
    <2>4. tags[tag] \in Nat /\ Counted(held, tags)[tag] = held[tag] + tags[tag]
        BY DEF Counted, Counts
    <2>5. IsFiniteSet(mine) /\ Cardinality(mine) = tags[tag]
        BY <2>4, UsesCounted
    <2>6. mine \subseteq before
        BY <1>1, <1>2, <2>4 DEF Uncounted, At, UsesOf
    <2>7. after \subseteq before \ mine
        BY <1>6 DEF UsesOf
    <2> HIDE DEF before, after, most, mine
    <2>8. /\ IsFiniteSet(before \ mine) /\ before \cap mine = mine
          /\ Cardinality(before \ mine) = Cardinality(before) - Cardinality(mine)
        <3>1. before \cap mine = mine
            BY <2>6
        <3> QED BY <2>2, <3>1, FS_Difference
    <2>9. Cardinality(after) <= Cardinality(before \ mine) /\ Cardinality(after) \in Nat
        BY <2>7, <2>8, FS_Subset, FS_CardinalityType
    <2>10. Counted(held, tags)[tag] + Cardinality(after) <= most
        BY <2>1, <2>2, <2>3, <2>4, <2>5, <2>8, <2>9
    <2> QED BY <2>10 DEF after, most
<1>9. ASSUME NEW a \in Accounts, NEW tag \in Tags, Putting(r)', requests'[r].key = HistoryKey(a)
      PROVE  StillFits(requests'[r].value, a, tag)
    <2>1. requests'[r] = new(own)
        BY <1>1, <1>2, <1>9 DEF Putting
    <2>2. a = own /\ requests'[r].value = Counted(held, tags)
        BY <1>5, <1>9, <2>1, KeysApart
    <2> QED BY <1>3, <1>8, <2>2 DEF StillFits
<1> QED BY <1>1, <1>7, <1>9, CountsCarry

LEMMA CountsStep ==
    ASSUME Typed, Typed', CountsInv, [Next]_vars
    PROVE  CountsInv'
<1>0. FileStep
    BY EveryFileStep
<1>1. CASE Rests
    <2>1. Others({}) /\ UNCHANGED tagged /\ {} \in SUBSET Requests
        BY <1>1 DEF Rests
    <2> QED BY <1>0, <2>1, QuietCounts
<1>2. ASSUME NEW r \in Requests, Moves(r)
      PROVE  CountsInv'
    <2> DEFINE q == requests[r]
               new == requests'[r]
    <2>0. Others({r}) /\ {r} \in SUBSET Requests
        BY <1>2, MovedIsOK
    <2>1. ASSUME UNCHANGED tagged,
                 \/ new = Null
                 \/ /\ new.pc = "invalidate" => /\ q # Null /\ q.pc = "invalidate"
                                                /\ new.account = q.account /\ new.tags = q.tags
                    /\ new.pc \in PutPcs => \A a \in Accounts : new.key = HistoryKey(a) =>
                         /\ q # Null /\ q.pc \in PutPcs
                         /\ q.key = HistoryKey(a) /\ new.value = q.value
          PROVE  CountsInv'
        <3>1. /\ At(r, "invalidate")' => /\ At(r, "invalidate")
                                         /\ requests'[r].account = requests[r].account
                                         /\ requests'[r].tags = requests[r].tags
              /\ \A a \in Accounts : Putting(r)' /\ requests'[r].key = HistoryKey(a) =>
                   /\ Putting(r) /\ requests[r].key = HistoryKey(a)
                   /\ requests'[r].value = requests[r].value
            BY <2>1 DEF At, Putting
        <3> QED BY <1>0, <2>0, <2>1, <3>1, QuietCounts
    <2>2. CASE MarkAccepted(r)
        BY <1>0, <2>2, AcceptedCounts
    <2>3. CASE CountTags(r)
        BY <1>0, <2>3, CountTagsCounts
    <2>4. CASE AskLibrary(r) \/ AskMark(r)
        <3>1. new.pc \in {"look", "fetch", "mark"} /\ UNCHANGED tagged
            BY <2>4 DEF AskLibrary, AskMark, douban, Typed
        <3> QED BY <2>1, <3>1 DEF PutPcs
    <2>5. CASE LookUp(r)
        <3>1. UNCHANGED tagged
            BY <2>5 DEF LookUp, douban
        <3>2. new.pc = "fetch" \/ \E value : new = Answered(q, value)
            BY <2>5, LookedUp
        <3>3. new.pc \in {"answer", "fetch"}
            <4>1. \A value : Answered(q, value).pc = "answer"
                BY DEF Answered
            <4> QED BY <3>2, <4>1
        <3> QED BY <2>1, <3>1, <3>3 DEF PutPcs
    <2>6. CASE Invalidate(r)
        <3>1. /\ q # Null /\ RequestOK(q) /\ IsMarkRequest(q)
              /\ q.pc = "invalidate" /\ new.pc = "invalidate"
              /\ \A f \in DOMAIN q : f # "left" => new[f] = q[f]
            BY <2>6, Invalidated1
        <3>2. {"account", "tags"} \subseteq DOMAIN q
            BY <3>1 DEF RequestOK, IsMarkRequest
        <3>3. UNCHANGED tagged
            BY <2>6 DEF Invalidate, douban
        <3> QED BY <2>1, <3>1, <3>2, <3>3 DEF PutPcs
    <2>7. CASE StoreLibrary(r)
        <3>1. /\ RequestOK(q) /\ q.pc = "fetch" /\ UNCHANGED tagged
              /\ new.pc = "open" /\ new.key = StoreKey(q)
            BY <2>7 DEF StoreLibrary, At, Typed, douban
        <3>2. q.account \in Accounts /\ q.limit \in Limits
            BY <3>1 DEF RequestOK, IsLibraryRequest, IsMarkRequest, PutPcs
        <3>3. \A a \in Accounts : new.key # HistoryKey(a)
            BY <3>1, <3>2, KeysApart DEF StoreKey, LibraryKeys
        <3> QED BY <2>1, <3>1, <3>3
    <2>8. ASSUME NEW list \in {"wish", "collect"}, FetchList(r, list)
          PROVE  CountsInv'
        <3>1. /\ q.pc = "fetch" /\ UNCHANGED tagged
              /\ "pc" \in DOMAIN q /\ requests' = [requests EXCEPT ![r][list] = lists[q.account]]
            BY <2>8 DEF FetchList, At, Typed, RequestOK, douban
        <3>2. new.pc = "fetch"
            BY <2>8, <3>1 DEF Typed
        <3> QED BY <2>1, <3>1, <3>2 DEF PutPcs
    <2>9. CASE PutMoves(r)
        <3>0. UNCHANGED tagged
            BY <2>9 DEF PutMoves, OpenTemporary, WriteTemporary, Rename, PutFails, douban
        <3>1. /\ Putting(r) /\ q # Null /\ UNCHANGED tagged
              /\ {"pc", "account", "key", "value"} \subseteq DOMAIN q
              /\ \/ new = Null
                 \/ new.pc = "answer"
                 \/ /\ \A f \in DOMAIN q : f \notin {"pc", "handle"} => new[f] = q[f]
                    /\ new.pc \in {"write", "rename"}
            <4>1. Answered(q, q.value).pc = "answer"
                BY DEF Answered
            <4> QED BY <2>9, <3>0, <4>1, PutMoved, PutRequestOK
        <3>2. CASE new = Null \/ new.pc = "answer"
            BY <2>1, <3>1, <3>2 DEF PutPcs
        <3>3. CASE /\ \A f \in DOMAIN q : f \notin {"pc", "handle"} => new[f] = q[f]
                   /\ new.pc \in {"write", "rename"}
            <4>1. new.key = q.key /\ new.value = q.value
                BY <3>1, <3>3
            <4> QED BY <2>1, <3>1, <3>3, <4>1 DEF Putting
        <3> QED BY <3>1, <3>2, <3>3
    <2> QED BY <1>2, <2>2, <2>3, <2>4, <2>5, <2>6, <2>7, <2>8, <2>9 DEF Moves, PutMoves
<1> QED BY <1>1, <1>2, MoveOrRest

LEMMA InitCounts == ASSUME Init PROVE Typed /\ CountsInv
<1>1. \A r \in Requests : requests[r] = Null
    BY DEF Init
<1>2. \A a \in Accounts, tag \in Tags : Uncounted(a, tag) = {}
    BY <1>1 DEF Uncounted, At
<1>3. \A path \in Paths : files[path] = Null
    BY DEF Init
<1>4. Typed
    <2>1. FilesOK
        BY <1>3, NamesArePaths DEF Init, FilesOK, ContentOK
    <2> QED BY <1>1, <2>1 DEF Init, Typed, Counts
<1>5. \A a \in Accounts : \A path \in Names(HistoryKey(a)) : ~Parses(path)
    BY <1>3, NamesArePaths, KeysApart DEF Parses, Holds
<1>6. CountsInv
    <2>1. ASSUME NEW a \in Accounts, NEW tag \in Tags
          PROVE  /\ IsFiniteSet(Uncounted(a, tag))
                 /\ Cardinality(Uncounted(a, tag)) <= tagged[a][tag]
        BY <1>2, FS_EmptySet DEF Init
    <2> QED BY <1>1, <1>5, <2>1 DEF CountsInv, Putting
<1> QED BY <1>4, <1>6

\* Nobody is shown what is another account's: `library` answers with the lists of the
\* account it was asked for, and `tag_history` counts no use of a tag that the account did
\* not make, where a mark that repeats a tag uses it as often (douban_catalog.rs:938).
THEOREM AnswersAreOwn == Spec => []OwnAnswers
<1>1. Init => Typed /\ CountsInv
    BY InitCounts
<1>2. Typed /\ CountsInv /\ [Next]_vars => Typed' /\ CountsInv'
    BY TypedStep, CountsStep
<1>3. Typed /\ CountsInv => OwnAnswers
    <2> SUFFICES ASSUME Typed, CountsInv PROVE OwnAnswers
        OBVIOUS
    <2>1. ASSUME NEW r \in Requests, At(r, "answer")
          PROVE  requests[r].answer.account = requests[r].account
        <3>1. requests[r] # Null /\ RequestOK(requests[r]) /\ requests[r].pc = "answer"
            BY <2>1 DEF At, Typed
        <3> QED BY <3>1 DEF RequestOK, IsLibraryRequest, IsMarkRequest, PutPcs, ListsOf
    <2>2. ASSUME NEW a \in Accounts, NEW tag \in WantedTags
          PROVE  ShownHistory(a)[tag] <= tagged[a][tag]
        <3>1. tag \in Tags /\ ShownHistory(a)[tag] = CurrentHistory(a)[tag]
            BY CacheConstants DEF ShownHistory
        <3>2. tagged[a][tag] \in Nat /\ Cardinality(Uncounted(a, tag)) \in Nat
            BY <3>1, FS_CardinalityType DEF Typed, Counts, CountsInv
        <3>3. CASE Parses(Final(HistoryKey(a)))
            <4>1. Fits(files[Final(HistoryKey(a))], a, tag)
                BY <3>1, <3>3 DEF CountsInv, Names
            <4>2. files[Final(HistoryKey(a))] \in Counts
                BY <3>3, ParsedIsOK, KeysApart DEF Names
            <4> QED BY <3>1, <3>2, <3>3, <4>1, <4>2 DEF Fits, CurrentHistory, Counts
        <3>4. CASE ~Parses(Final(HistoryKey(a)))
            BY <3>1, <3>2, <3>4 DEF CurrentHistory
        <3> QED BY <3>3, <3>4
    <2> QED BY <2>1, <2>2 DEF OwnAnswers
<1> QED BY <1>1, <1>2, <1>3, PTL DEF Spec

-------------------------------------------------------------------------------
(* No list that is on its way or stored is older than a mark it has to show. *)

\* What a library request that has moved has to show; the next files, the changes of before.
StillShows(q, a) ==
    /\ q.owed <= settled[a]
    /\ q.pc = "answer" => Shows(q.answer, q.owed)
    /\ \A change \in Due(a) :
         /\ q.pc = "fetch" =>
              /\ q.wish # Null => q.wish >= change
              /\ q.collect # Null => q.collect >= change
         /\ q.pc \in PutPcs => Shows(q.value, change)
         /\ q.pc \in {"write", "rename"} /\ files'[Temporary(q.key)] \notin {Null, Empty, Torn} =>
              Shows(files'[Temporary(q.key)], change)

\* A mark that has moved still invalidates, or begins to while no list is read.
MarkMoves(r, movers, a) ==
    \/ /\ Alone(r, a) /\ requests'[r].change = requests[r].change
       /\ \A k \in LibraryKeys(a) \ requests'[r].left :
            k \notin requests[r].left \/ files'[Final(k)] = Null
    \/ /\ Rivals(a) = {} /\ movers = {r}
       /\ requests'[r].left = LibraryKeys(a) /\ requests'[r].change <= lists'[a]

\* `settled` follows a mark that has invalidated all lists.
SettlesOn(a) ==
    \/ settled'[a] = settled[a]
    \/ /\ settled'[a] >= settled[a]
       /\ \E r \in Requests : /\ Alone(r, a) /\ requests[r].left = {}
                              /\ settled'[a] = requests[r].change

LEMMA DueTyped ==
    ASSUME Typed, NEW a \in Accounts
    PROVE  /\ Due(a) \subseteq Nat /\ settled[a] \in Due(a) /\ settled[a] \in Nat
           /\ \A r \in Requests : Alone(r, a) => /\ requests[r].change \in Due(a)
                                                 /\ requests[r].left \subseteq LibraryKeys(a)
<1>1. settled[a] \in Nat
    BY DEF Typed
<1>2. ASSUME NEW r \in Requests, Alone(r, a)
      PROVE  requests[r].change \in Nat /\ requests[r].left \subseteq LibraryKeys(a)
    BY <1>2 DEF Alone, At, Typed, RequestOK, IsLibraryRequest, IsMarkRequest, PutPcs
<1> QED BY <1>1, <1>2 DEF Due

\* Whoever stores a list of an account is a request for it.
LEMMA PutsALibrary ==
    ASSUME Typed, NEW a \in Accounts, NEW k \in LibraryKeys(a), NEW w \in Requests,
           Putting(w), requests[w].key = k
    PROVE  IsLibraryOf(requests[w], a) /\ requests[w].value \in ListsOf(a)
<1>1. requests[w] # Null /\ RequestOK(requests[w]) /\ requests[w].pc \in PutPcs
    BY PutRequestOK DEF Putting
<1>2. ~IsMarkRequest(requests[w])
    BY <1>1, KeysApart DEF IsMarkRequest, RequestOK
<1>3. requests[w].account = a
    BY <1>1, <1>2, KeysApart DEF IsLibraryRequest, RequestOK
<1> QED BY <1>1, <1>2, <1>3 DEF IsLibraryOf, IsLibraryRequest, RequestOK

LEMMA PutShows ==
    ASSUME Typed, ListsInv, NEW a \in Accounts, NEW k \in LibraryKeys(a), NEW w \in Requests,
           NEW content, Puts(w, k, content), NEW change \in Due(a)
    PROVE  Shows(content, change)
<1>1. Putting(w) /\ requests[w].key = k /\ content = requests[w].value
    BY DEF Puts
<1>2. RequestShows(requests[w], a)
    BY <1>1, PutsALibrary DEF ListsInv
<1> QED BY <1>1, <1>2 DEF RequestShows, Putting

LEMMA TemporaryShows ==
    ASSUME Typed, ListsInv, FileStep, NEW a \in Accounts, NEW q \in Requests,
           IsLibraryOf(requests[q], a), requests[q].pc \in {"write", "rename"},
           NEW k, k = requests[q].key, files'[Temporary(k)] \notin {Null, Empty, Torn},
           NEW change \in Due(a)
    PROVE  Shows(files'[Temporary(k)], change)
<1>1. Putting(q) /\ RequestOK(requests[q])
    BY DEF Putting, PutPcs, IsLibraryOf, Typed
<1>2. k \in LibraryKeys(a) /\ k \in Keys
    BY <1>1, KeysApart DEF IsLibraryOf, RequestOK, IsLibraryRequest, IsMarkRequest, Putting
<1>3. CASE files'[Temporary(k)] = files[Temporary(k)]
    <2>1. Parses(Temporary(k))
        BY <1>3 DEF Parses, Holds
    <2> QED BY <1>3, <2>1 DEF ListsInv, RequestShows
<1>4. CASE \E w \in Requests : Puts(w, k, files'[Temporary(k)])
    BY <1>2, <1>4, PutShows
<1> QED BY <1>2, <1>3, <1>4 DEF FileStep

LEMMA StoredShows ==
    ASSUME Typed, ListsInv, FileStep, NEW a \in Accounts, NEW k \in LibraryKeys(a),
           NEW content, content = files'[Final(k)], content \notin {Null, Empty, Torn}
    PROVE  /\ Shows(content, settled[a])
           /\ \A r \in Requests : Alone(r, a) /\ k \notin requests[r].left =>
                Shows(content, requests[r].change)
<1>0. k \in Keys
    BY KeysApart
<1>1. CASE content = files[Final(k)]
    <2>1. Parses(Final(k))
        BY <1>1 DEF Parses, Holds
    <2> QED BY <1>1, <2>1 DEF ListsInv
<1>2. CASE \A change \in Due(a) : Shows(content, change)
    BY <1>2, DueTyped
<1>3. ASSUME NEW w \in Requests, Puts(w, k, content)
      PROVE  \A change \in Due(a) : Shows(content, change)
    BY <1>3, PutShows
<1>4. ASSUME NEW w \in Requests, At(w, "rename"), requests[w].key = k,
             content = files[Temporary(k)]
      PROVE  \A change \in Due(a) : Shows(content, change)
    <2>1. Putting(w) /\ requests[w].pc = "rename"
        BY <1>4 DEF At, Putting, PutPcs
    <2>2. RequestShows(requests[w], a)
        BY <1>4, <2>1, PutsALibrary DEF ListsInv
    <2>3. Parses(Temporary(k))
        BY <1>4 DEF Parses, Holds
    <2> QED BY <1>4, <2>1, <2>2, <2>3 DEF RequestShows
<1> QED BY <1>0, <1>1, <1>2, <1>3, <1>4 DEF FileStep

LEMMA ListsCarry ==
    ASSUME Typed, Typed', ListsInv, FileStep, NEW movers \in SUBSET Requests, Others(movers),
           \A a \in Accounts : lists'[a] >= lists[a] /\ SettlesOn(a),
           \A r \in movers, a \in Accounts :
             /\ IsLibraryOf(requests'[r], a) => StillShows(requests'[r], a)
             /\ Alone(r, a)' => MarkMoves(r, movers, a)
    PROVE  ListsInv'
<1> SUFFICES ASSUME NEW a \in Accounts
             PROVE  /\ \A change \in Due(a)' : change <= lists'[a]
                    /\ \A r \in Requests :
                         IsLibraryOf(requests'[r], a) => RequestShows(requests[r], a)'
                    /\ \A k \in LibraryKeys(a) : files'[Final(k)] \notin {Null, Empty, Torn} =>
                         /\ Shows(files'[Final(k)], settled'[a])
                         /\ \A r \in Requests :
                              Alone(r, a)' /\ k \notin requests'[r].left =>
                                Shows(files'[Final(k)], requests'[r].change)
    BY DEF ListsInv, Parses, Holds, IsLibraryOf
<1>0. /\ Due(a) \subseteq Nat /\ settled[a] \in Due(a) /\ settled[a] \in Nat
      /\ settled'[a] \in Nat /\ lists[a] \in Nat /\ lists'[a] \in Nat
      /\ \A change \in Due(a) : change <= lists[a]
    BY DueTyped DEF Typed, ListsInv
<1>1. settled'[a] \in Due(a) /\ settled'[a] >= settled[a]
    BY <1>0, DueTyped DEF SettlesOn
<1>2. ASSUME NEW r \in Requests \ movers, requests'[r] # Null
      PROVE  /\ requests[r] # Null /\ RequestOK(requests[r])
             /\ \/ requests'[r] = requests[r]
                \/ /\ requests[r].pc = "write" /\ requests'[r].pc = "write"
                   /\ DOMAIN requests'[r] = DOMAIN requests[r]
                   /\ requests'[r].account = requests[r].account
                   /\ requests'[r].key = requests[r].key
                   /\ requests'[r].value = requests[r].value
                   /\ "owed" \in DOMAIN requests[r] => requests'[r].owed = requests[r].owed
    <2>1. AsBefore(requests[r], requests'[r])
        BY DEF Others
    <2>2. requests[r] # Null /\ RequestOK(requests[r])
        BY <1>2, <2>1 DEF AsBefore, Typed
    <2> QED BY <1>2, <2>1, <2>2, AsBeforeKeeps
<1>3. ASSUME NEW r \in Requests \ movers, Alone(r, a)'
      PROVE  Alone(r, a) /\ requests'[r] = requests[r]
    BY <1>2, <1>3 DEF Alone, At
<1>4. ASSUME NEW change \in Due(a)', change \notin Due(a)
      PROVE  /\ change <= lists'[a] /\ Rivals(a) = {}
             /\ \A r \in movers : ~IsLibraryOf(requests'[r], a)
    <2>1. PICK r \in Requests : Alone(r, a)' /\ change = requests'[r].change
        BY <1>1, <1>4 DEF Due
    <2>2. r \in movers
        BY <1>3, <1>4, <2>1, DueTyped
    <2>3. Rivals(a) = {} /\ movers = {r} /\ requests'[r].change <= lists'[a]
        BY <1>4, <2>1, <2>2, DueTyped DEF MarkMoves
    <2>4. ~IsLibrary(requests'[r])
        BY <2>1 DEF Alone, At, Typed, RequestOK, IsLibraryRequest, IsMarkRequest, PutPcs
    <2> QED BY <2>1, <2>3, <2>4 DEF IsLibraryOf
<1>5. \A change \in Due(a)' : change <= lists'[a]
    BY <1>0, <1>4
<1>6. ASSUME NEW r \in Requests, IsLibraryOf(requests'[r], a)
      PROVE  StillShows(requests'[r], a)
    <2>1. CASE r \in movers
        BY <1>6, <2>1
    <2>2. CASE r \notin movers
        <3> DEFINE q == requests[r]
                   new == requests'[r]
        <3>1. new # Null
            BY <1>6 DEF IsLibraryOf
        <3>2. q # Null /\ RequestOK(q) /\ IsLibraryOf(q, a) /\ RequestShows(q, a)
            BY <1>2, <1>6, <2>2, <3>1 DEF IsLibraryOf, IsLibrary, ListsInv
        <3>3. \A change \in Due(a) :
                q.pc \in {"write", "rename"} /\ files'[Temporary(q.key)] \notin {Null, Empty, Torn} =>
                  Shows(files'[Temporary(q.key)], change)
            BY <3>2, TemporaryShows
        <3>4. StillShows(q, a)
            BY <3>2, <3>3 DEF RequestShows, StillShows
        <3>5. CASE new = q
            BY <3>4, <3>5
        <3>6. CASE /\ q.pc = "write" /\ new.pc = "write" /\ new.key = q.key
                   /\ new.value = q.value /\ new.owed = q.owed
            BY <3>4, <3>6 DEF StillShows
        <3> QED BY <1>2, <2>2, <3>1, <3>2, <3>5, <3>6 DEF IsLibraryOf, IsLibrary
    <2> QED BY <2>1, <2>2
<1>7. ASSUME NEW r \in Requests, IsLibraryOf(requests'[r], a), Rivals(a) = {}, r \notin movers
      PROVE  /\ requests'[r].pc \notin PutPcs
             /\ requests'[r].pc = "fetch" => requests'[r].wish = Null /\ requests'[r].collect = Null
    <2> DEFINE q == requests[r]
               new == requests'[r]
    <2>1. new # Null
        BY <1>7 DEF IsLibraryOf
    <2>2. q # Null /\ IsLibrary(q) /\ q.account = a
          /\ (new = q \/ (q.pc = "write" /\ new.pc = "write"))
        BY <1>2, <1>7, <2>1 DEF IsLibraryOf, IsLibrary
    <2>3. r \notin Rivals(a)
        BY <1>7
    <2> QED BY <2>2, <2>3 DEF Rivals, PutPcs, At
<1>8. ASSUME NEW r \in Requests, IsLibraryOf(requests'[r], a)
      PROVE  RequestShows(requests[r], a)'
    <2> DEFINE new == requests'[r]
    <2>0. new # Null /\ RequestOK(new) /\ IsLibrary(new)
        BY <1>8 DEF IsLibraryOf, Typed
    <2>1. StillShows(new, a)
        BY <1>6, <1>8
    <2>2. new.owed <= settled'[a]
        <3>1. new.owed \in Nat /\ new.owed <= settled[a]
            BY <2>0, <2>1 DEF RequestOK, IsLibraryRequest, IsMarkRequest, StillShows
        <3> QED BY <1>0, <1>1, <3>1
    <2>3. ASSUME NEW change \in Due(a)'
          PROVE  /\ new.pc = "fetch" =>
                      /\ new.wish # Null => new.wish >= change
                      /\ new.collect # Null => new.collect >= change
                 /\ new.pc \in PutPcs => Shows(new.value, change)
                 /\ /\ new.pc \in {"write", "rename"}
                    /\ files'[Temporary(new.key)] \notin {Null, Empty, Torn}
                    => Shows(files'[Temporary(new.key)], change)
        <3>1. CASE change \in Due(a)
            BY <2>1, <3>1 DEF StillShows
        <3>2. CASE change \notin Due(a)
            <4>1. Rivals(a) = {} /\ r \notin movers
                BY <1>4, <1>8, <2>3, <3>2
            <4> QED BY <1>7, <1>8, <4>1 DEF PutPcs
        <3> QED BY <3>1, <3>2
    <2> QED BY <2>1, <2>2, <2>3 DEF RequestShows, StillShows, Parses, Holds
<1>9. ASSUME NEW k \in LibraryKeys(a), files'[Final(k)] \notin {Null, Empty, Torn}
      PROVE  /\ Shows(files'[Final(k)], settled'[a])
             /\ \A r \in Requests : Alone(r, a)' /\ k \notin requests'[r].left =>
                  Shows(files'[Final(k)], requests'[r].change)
    <2> DEFINE content == files'[Final(k)]
    <2>1. /\ Shows(content, settled[a])
          /\ \A r \in Requests : Alone(r, a) /\ k \notin requests[r].left =>
               Shows(content, requests[r].change)
        BY <1>9, StoredShows
    <2>2. Shows(content, settled'[a])
        <3>1. CASE settled'[a] = settled[a]
            BY <2>1, <3>1
        <3>2. CASE \E r \in Requests : /\ Alone(r, a) /\ requests[r].left = {}
                                       /\ settled'[a] = requests[r].change
            BY <2>1, <3>2
        <3> QED BY <3>1, <3>2 DEF SettlesOn
    <2>3. ASSUME NEW r \in Requests, Alone(r, a)', k \notin requests'[r].left
          PROVE  Shows(content, requests'[r].change)
        <3>1. CASE r \notin movers
            BY <1>3, <2>1, <2>3, <3>1
        <3>2. CASE r \in movers
            <4>1. MarkMoves(r, movers, a)
                BY <2>3, <3>2
            <4>2. /\ Alone(r, a) /\ requests'[r].change = requests[r].change
                  /\ k \notin requests[r].left
                BY <1>9, <2>3, <4>1 DEF MarkMoves
            <4> QED BY <2>1, <4>2
        <3> QED BY <3>1, <3>2
    <2> QED BY <2>2, <2>3
<1> QED BY <1>5, <1>8, <1>9

\* A step of one request in which Douban's lists stay, and no mark comes to its end.
LEMMA OneMovesLists ==
    ASSUME Typed, Typed', ListsInv, FileStep, NEW r \in Requests, Others({r}),
           UNCHANGED <<lists, settled>>,
           \A a \in Accounts :
             /\ IsLibraryOf(requests'[r], a) => StillShows(requests'[r], a)
             /\ Alone(r, a)' => MarkMoves(r, {r}, a)
    PROVE  ListsInv'
<1>1. \A a \in Accounts : lists'[a] >= lists[a] /\ SettlesOn(a)
    BY DEF Typed, SettlesOn
<1>2. {r} \in SUBSET Requests
    OBVIOUS
<1> QED BY <1>1, <1>2, ListsCarry

LEMMA AskLists ==
    ASSUME Typed, Typed', ListsInv, FileStep, NEW r \in Requests, AskLibrary(r) \/ AskMark(r)
    PROVE  ListsInv'
<1> DEFINE new == requests'[r]
<1>0. Others({r}) /\ DOMAIN requests = Requests /\ UNCHANGED <<lists, settled>>
    BY MovedIsOK DEF Moves, Typed, AskLibrary, AskMark, douban
<1>1. CASE AskLibrary(r)
    <2>1. /\ new.pc \in {"look", "fetch"} /\ new.account = account /\ new.owed = settled[account]
          /\ new.wish = Null /\ new.collect = Null
        BY <1>0, <1>1 DEF AskLibrary
    <2>2. \A a \in Accounts : settled[a] \in Nat
        BY DEF Typed
    <2>3. \A a \in Accounts : IsLibraryOf(new, a) => StillShows(new, a)
        BY <2>1, <2>2 DEF IsLibraryOf, StillShows, PutPcs
    <2> QED BY <1>0, <2>1, <2>3, OneMovesLists DEF Alone, At
<1>2. CASE AskMark(r)
    <2>1. new.pc = "mark" /\ "owed" \notin DOMAIN new
        BY <1>0, <1>2 DEF AskMark
    <2> QED BY <1>0, <2>1, OneMovesLists DEF Alone, At, IsLibraryOf, IsLibrary
<1> QED BY <1>1, <1>2

\* A request for a list goes on.
LEMMA LibraryMovesLists ==
    ASSUME Typed, Typed', ListsInv, FileStep, NEW r \in Requests, Others({r}),
           UNCHANGED <<lists, settled>>,
           requests[r] # Null, RequestOK(requests[r]), IsLibraryRequest(requests[r]),
           requests'[r].pc # "invalidate", requests'[r].account = requests[r].account,
           requests'[r].owed = requests[r].owed,
           NEW a, a = requests[r].account,
           requests'[r].pc = "answer" => Shows(requests'[r].answer, requests[r].owed),
           \A change \in Due(a) :
             /\ requests'[r].pc = "fetch" =>
                  /\ requests'[r].wish # Null => requests'[r].wish >= change
                  /\ requests'[r].collect # Null => requests'[r].collect >= change
             /\ requests'[r].pc = "open" => Shows(requests'[r].value, change),
           requests'[r].pc \notin {"write", "rename"}
    PROVE  ListsInv'
<1>1. a \in Accounts /\ IsLibraryOf(requests[r], a)
    BY DEF RequestOK, IsLibraryOf, IsLibraryRequest
<1>2. requests[r].owed <= settled[a]
    BY <1>1 DEF ListsInv, RequestShows
<1>3. StillShows(requests'[r], a)
    BY <1>2 DEF StillShows, PutPcs
<1>4. \A b \in Accounts : IsLibraryOf(requests'[r], b) => b = a
    BY DEF IsLibraryOf
<1> QED BY <1>3, <1>4, OneMovesLists DEF Alone, At

\* What a request answers with shows what it owes.
LEMMA OwedIsShown ==
    ASSUME Typed, ListsInv, NEW r \in Requests, NEW a \in Accounts, IsLibraryOf(requests[r], a),
           NEW value \in ListsOf(a), Shows(value, settled[a])
    PROVE  Shows(value, requests[r].owed)
<1>1. requests[r].owed <= settled[a]
    BY DEF ListsInv, RequestShows
<1>2. requests[r].owed \in Nat
    BY DEF Typed, RequestOK, IsLibraryRequest, IsMarkRequest, IsLibraryOf
<1>3. settled[a] \in Nat /\ value.wish \in Nat /\ value.collect \in Nat
    BY DEF Typed, ListsOf
<1> QED BY <1>1, <1>2, <1>3 DEF Shows

LEMMA LookUpLists ==
    ASSUME Typed, Typed', ListsInv, FileStep, NEW r \in Requests, LookUp(r)
    PROVE  ListsInv'
<1> DEFINE q == requests[r]
           new == requests'[r]
           k == StoreKey(q)
<1>1. q # Null /\ RequestOK(q) /\ IsLibraryRequest(q) /\ q.pc = "look"
      /\ k \in LibraryKeys(q.account) /\ Others({r})
    BY LookedUp
<1>2. q.account \in Accounts /\ {"pc", "account", "owed", "wish", "collect"} \subseteq DOMAIN q
      /\ q.wish = Null /\ q.collect = Null /\ IsLibraryOf(q, q.account)
    BY <1>1 DEF RequestOK, IsLibraryRequest, IsLibrary, IsLibraryOf
<1>3. UNCHANGED <<lists, settled>>
    BY DEF LookUp, douban
<1>4. CASE Parses(Final(k)) /\ new = Answered(q, files[Final(k)])
    <2> DEFINE content == files[Final(k)]
    <2>1. new.pc = "answer" /\ new.account = q.account /\ new.owed = q.owed
          /\ new.answer = content
        BY <1>4 DEF Answered
    <2>2. content \in ListsOf(q.account) /\ Shows(content, settled[q.account])
        BY <1>1, <1>2, <1>4, ParsedIsOK, KeysApart DEF Names, ListsInv
    <2>3. Shows(new.answer, q.owed)
        BY <1>2, <2>1, <2>2, OwedIsShown
    <2> HIDE DEF new, content
    <2> QED BY <1>1, <1>3, <2>1, <2>3, LibraryMovesLists DEF new
<1>5. CASE /\ DOMAIN new = DOMAIN q /\ new.pc = "fetch"
           /\ \A f \in DOMAIN q : f # "pc" => new[f] = q[f]
    <2>1. /\ new.account = q.account /\ new.owed = q.owed
          /\ new.wish = Null /\ new.collect = Null
        BY <1>2, <1>5
    <2> QED BY <1>1, <1>3, <1>5, <2>1, LibraryMovesLists
<1> QED BY <1>4, <1>5, LookedUp

LEMMA FetchLists ==
    ASSUME Typed, Typed', ListsInv, FileStep, NEW r \in Requests,
           NEW list \in {"wish", "collect"}, FetchList(r, list)
    PROVE  ListsInv'
<1> DEFINE q == requests[r]
           a == q.account
           new == requests'[r]
<1>1. q # Null /\ RequestOK(q) /\ q.pc = "fetch" /\ DOMAIN requests = Requests
      /\ Others({r}) /\ UNCHANGED <<lists, settled>>
    BY MovedIsOK DEF FetchList, At, Typed, Moves, douban
<1>2. IsLibraryRequest(q) /\ a \in Accounts /\ IsLibraryOf(q, a)
      /\ {"pc", "account", "owed", "wish", "collect"} \subseteq DOMAIN q
    BY <1>1 DEF RequestOK, IsLibraryRequest, IsMarkRequest, PutPcs, IsLibraryOf, IsLibrary
<1>3. new = [q EXCEPT ![list] = lists[a]]
    BY <1>1 DEF FetchList
<1>4. /\ new.pc = "fetch" /\ new.account = a /\ new.owed = q.owed
      /\ new.wish = q.wish \/ new.wish = lists[a]
      /\ new.collect = q.collect \/ new.collect = lists[a]
    <2>1. CASE list = "wish"
        BY <1>1, <1>2, <1>3, <2>1
    <2>2. CASE list = "collect"
        BY <1>1, <1>2, <1>3, <2>2
    <2> QED BY <2>1, <2>2
<1>5. \A change \in Due(a) :
        /\ change <= lists[a]
        /\ q.wish # Null => q.wish >= change
        /\ q.collect # Null => q.collect >= change
    BY <1>1, <1>2 DEF ListsInv, RequestShows
<1>6. Due(a) \subseteq Nat /\ lists[a] \in Nat
    BY <1>2, DueTyped DEF Typed
<1>7. \A change \in Due(a) :
        /\ new.wish # Null => new.wish >= change
        /\ new.collect # Null => new.collect >= change
    BY <1>4, <1>5, <1>6
<1> HIDE DEF new
<1> QED BY <1>1, <1>2, <1>4, <1>7, LibraryMovesLists DEF new

LEMMA StoreLists ==
    ASSUME Typed, Typed', ListsInv, FileStep, NEW r \in Requests, StoreLibrary(r)
    PROVE  ListsInv'
<1> DEFINE q == requests[r]
           a == q.account
           new == requests'[r]
<1>1. /\ q # Null /\ RequestOK(q) /\ q.pc = "fetch" /\ q.wish # Null /\ q.collect # Null
      /\ DOMAIN requests = Requests /\ Others({r}) /\ UNCHANGED <<lists, settled>>
    BY MovedIsOK DEF StoreLibrary, At, Typed, Moves, douban
<1>2. IsLibraryRequest(q) /\ a \in Accounts /\ IsLibraryOf(q, a)
    BY <1>1 DEF RequestOK, IsLibraryRequest, IsMarkRequest, PutPcs, IsLibraryOf
<1>3. /\ new.pc = "open" /\ new.account = a /\ new.owed = q.owed
      /\ new.value.wish = q.wish /\ new.value.collect = q.collect
    BY <1>1 DEF StoreLibrary
<1>4. \A change \in Due(a) : Shows(new.value, change)
    BY <1>1, <1>2, <1>3 DEF ListsInv, RequestShows, Shows
<1> HIDE DEF new
<1> QED BY <1>1, <1>2, <1>3, <1>4, LibraryMovesLists DEF new

LEMMA PutLists ==
    ASSUME Typed, Typed', ListsInv, FileStep, NEW r \in Requests, PutMoves(r)
    PROVE  ListsInv'
<1> DEFINE q == requests[r]
           new == requests'[r]
<1>1. /\ Putting(r) /\ q # Null /\ RequestOK(q) /\ Others({r})
      /\ {"pc", "account", "key", "value"} \subseteq DOMAIN q
    BY PutMoved, PutRequestOK
<1>2. UNCHANGED <<lists, settled>>
    BY DEF PutMoves, OpenTemporary, WriteTemporary, Rename, PutFails, douban
<1>3. CASE new = Null
    BY <1>1, <1>2, <1>3, OneMovesLists DEF IsLibraryOf, Alone, At
<1>4. CASE IsLibrary(q) /\ new = Answered(q, q.value)
    <2> DEFINE a == q.account
    <2>1. IsLibraryRequest(q) /\ IsLibraryOf(q, a) /\ a \in Accounts /\ q.value \in ListsOf(a)
        BY <1>1, <1>4 DEF RequestOK, IsLibraryRequest, IsMarkRequest, IsLibraryOf, Putting
    <2>2. Shows(q.value, settled[a])
        BY <1>1, <2>1, DueTyped DEF ListsInv, RequestShows, Putting
    <2>3. Shows(q.value, q.owed)
        BY <2>1, <2>2, OwedIsShown
    <2>4. new.pc = "answer" /\ new.account = a /\ new.owed = q.owed /\ new.answer = q.value
        BY <1>4 DEF Answered
    <2> HIDE DEF new
    <2> QED BY <1>1, <1>2, <2>1, <2>3, <2>4, LibraryMovesLists DEF new
<1>5. CASE /\ DOMAIN new = DOMAIN q \cup {"handle"}
           /\ \A f \in DOMAIN q : f \notin {"pc", "handle"} => new[f] = q[f]
           /\ \/ /\ q.pc = "open" /\ new.pc = "write"
                 /\ files' = [files EXCEPT ![Temporary(q.key)] = Empty]
              \/ q.pc = "write" /\ new.pc = "rename"
    <2>1. /\ new.account = q.account /\ new.key = q.key /\ new.value = q.value
          /\ "owed" \in DOMAIN q => new.owed = q.owed
        BY <1>1, <1>5
    <2>2. ASSUME NEW a \in Accounts, IsLibraryOf(new, a) PROVE StillShows(new, a)
        <3>1. IsLibraryOf(q, a) /\ new.owed = q.owed
            BY <1>1, <1>5, <2>1, <2>2 DEF IsLibraryOf, IsLibrary
        <3>2. RequestShows(q, a)
            BY <3>1 DEF ListsInv
        <3>3. ASSUME NEW change \in Due(a), files'[Temporary(q.key)] \notin {Null, Empty, Torn}
              PROVE  Shows(files'[Temporary(q.key)], change)
            <4>1. CASE q.pc = "write"
                BY <3>1, <3>3, <4>1, TemporaryShows
            <4>2. CASE files' = [files EXCEPT ![Temporary(q.key)] = Empty]
                <5>1. Temporary(q.key) \in DOMAIN files
                    BY <1>1, PutRequestOK DEF Typed, FilesOK, Paths
                <5> QED BY <3>3, <4>2, <5>1
            <4> QED BY <1>5, <4>1, <4>2
        <3>4. new.pc \in {"write", "rename"} /\ q.pc \in PutPcs
            BY <1>1, <1>5 DEF Putting
        <3> QED BY <2>1, <3>1, <3>2, <3>3, <3>4 DEF StillShows, RequestShows
    <2>3. \A a \in Accounts : ~Alone(r, a)'
        BY <1>5 DEF Alone, At
    <2> HIDE DEF new
    <2> QED BY <1>1, <1>2, <2>2, <2>3, OneMovesLists DEF new
<1> QED BY <1>3, <1>4, <1>5, PutMoved

LEMMA InvalidateLists ==
    ASSUME Typed, Typed', ListsInv, FileStep, NEW r \in Requests, Invalidate(r)
    PROVE  ListsInv'
<1> DEFINE q == requests[r]
           new == requests'[r]
<1>1. /\ q # Null /\ RequestOK(q) /\ IsMarkRequest(q) /\ q.pc = "invalidate" /\ Others({r})
      /\ DOMAIN new = DOMAIN q /\ \A f \in DOMAIN q : f # "left" => new[f] = q[f]
    BY Invalidated1
<1>2. PICK k \in q.left : new.left = q.left \ {k} /\ files' = [files EXCEPT ![Final(k)] = Null]
    BY Invalidated1
<1>3. {"pc", "account", "left", "change", "alone"} \subseteq DOMAIN q /\ ~IsLibrary(new)
      /\ q.left \subseteq Keys
    BY <1>1, KeysApart DEF IsMarkRequest, RequestOK, IsLibrary
<1>4. new.account = q.account /\ new.change = q.change /\ new.alone = q.alone
    BY <1>1, <1>3
<1>5. files'[Final(k)] = Null
    BY <1>2, <1>3 DEF Typed, FilesOK, Paths
<1>6. ASSUME NEW a \in Accounts, Alone(r, a)' PROVE MarkMoves(r, {r}, a)
    BY <1>1, <1>2, <1>4, <1>5, <1>6 DEF Alone, At, MarkMoves
<1>7. UNCHANGED <<lists, settled>>
    BY DEF Invalidate, douban
<1> QED BY <1>1, <1>3, <1>6, <1>7, OneMovesLists DEF IsLibraryOf

LEMMA AcceptedLists ==
    ASSUME Typed, Typed', ListsInv, FileStep, NEW r \in Requests, MarkAccepted(r)
    PROVE  ListsInv'
<1> DEFINE q == requests[r]
           new == requests'[r]
           own == q.account
<1>1. /\ RequestOK(q) /\ IsMarkRequest(q) /\ Others({r})
      /\ \/ new = Null
         \/ /\ DOMAIN new = DOMAIN q \cup {"left", "change", "alone"}
            /\ new.account = own /\ new.left = LibraryKeys(own)
            /\ new.change = lists[own] + 1 /\ new.alone = (Rivals(own) = {})
    BY Accepted
<1>2. own \in Accounts /\ ~IsLibrary(q)
    BY <1>1 DEF RequestOK, IsMarkRequest
<1>3. lists' = [lists EXCEPT ![own] = @ + 1] /\ UNCHANGED settled
    BY DEF MarkAccepted
<1>4. \A a \in Accounts : lists'[a] >= lists[a] /\ SettlesOn(a)
    BY <1>2, <1>3 DEF Typed, SettlesOn
<1>5. lists'[own] = lists[own] + 1 /\ lists[own] + 1 <= lists'[own]
    BY <1>2, <1>3 DEF Typed
<1>6. ASSUME NEW a \in Accounts
      PROVE  /\ ~IsLibraryOf(new, a)
             /\ Alone(r, a)' => MarkMoves(r, {r}, a)
    <2>1. CASE new = Null
        BY <2>1 DEF IsLibraryOf, Alone, At
    <2>2. CASE /\ DOMAIN new = DOMAIN q \cup {"left", "change", "alone"}
               /\ new.account = own /\ new.left = LibraryKeys(own)
               /\ new.change = lists[own] + 1 /\ new.alone = (Rivals(own) = {})
        <3>1. ~IsLibrary(new)
            BY <1>2, <2>2 DEF IsLibrary
        <3>2. ASSUME Alone(r, a)' PROVE MarkMoves(r, {r}, a)
            <4>1. a = own /\ new.alone
                BY <2>2, <3>2 DEF Alone
            <4> QED BY <1>5, <2>2, <4>1 DEF MarkMoves
        <3> QED BY <3>1, <3>2 DEF IsLibraryOf
    <2> QED BY <1>1, <2>1, <2>2
<1>7. {r} \in SUBSET Requests
    OBVIOUS
<1> QED BY <1>1, <1>4, <1>6, <1>7, ListsCarry

LEMMA CountTagsLists ==
    ASSUME Typed, Typed', ListsInv, FileStep, NEW r \in Requests, CountTags(r)
    PROVE  ListsInv'
<1> DEFINE q == requests[r]
           new == requests'[r]
           own == q.account
           value == Counted(CurrentHistory(own), q.tags)
<1>1. /\ q # Null /\ RequestOK(q) /\ IsMarkRequest(q) /\ q.pc = "invalidate" /\ Others({r})
      /\ \/ new = Null
         \/ new = [pc |-> "open", account |-> own, key |-> HistoryKey(own), value |-> value]
    BY CountTagsMoves
<1>2. own \in Accounts /\ q.left = {} /\ UNCHANGED lists /\ Settle(q)
      /\ q.change \in Nat /\ q.alone \in BOOLEAN
    BY <1>1 DEF RequestOK, IsMarkRequest, CountTags
<1>3. ASSUME NEW a \in Accounts PROVE lists'[a] >= lists[a] /\ SettlesOn(a)
    <2>1. lists[a] \in Nat /\ settled[a] \in Nat
        BY DEF Typed
    <2>2. CASE a = own /\ q.alone /\ q.change > settled[own]
        <3>1. settled'[own] = q.change
            BY <1>2, <2>2 DEF Settle, Typed
        <3>2. Alone(r, own)
            BY <1>1, <2>2 DEF Alone, At
        <3> QED BY <1>2, <2>1, <2>2, <3>1, <3>2 DEF SettlesOn
    <2>3. CASE ~(a = own /\ q.alone /\ q.change > settled[own])
        <3>1. settled'[a] = settled[a]
            BY <1>2, <2>3 DEF Settle, Typed
        <3> QED BY <1>2, <2>1, <3>1 DEF SettlesOn
    <2> QED BY <2>2, <2>3
<1>4. new = Null \/ (new.pc = "open" /\ ~IsLibrary(new))
    BY <1>1 DEF IsLibrary
<1>5. {r} \in SUBSET Requests
    OBVIOUS
<1> HIDE DEF new
<1> QED BY <1>1, <1>3, <1>4, <1>5, ListsCarry DEF IsLibraryOf, Alone, At, new

LEMMA ListsStep ==
    ASSUME Typed, Typed', ListsInv, [Next]_vars
    PROVE  ListsInv'
<1>0. FileStep
    BY EveryFileStep
<1>1. CASE Rests
    <2>1. Others({}) /\ {} \in SUBSET Requests
          /\ \A a \in Accounts : lists'[a] >= lists[a] /\ SettlesOn(a)
        BY <1>1 DEF Rests, SettlesOn, Typed
    <2> QED BY <1>0, <2>1, ListsCarry
<1>2. ASSUME NEW r \in Requests, Moves(r) PROVE ListsInv'
    BY <1>0, <1>2, AskLists, LookUpLists, FetchLists, StoreLists, PutLists, InvalidateLists,
       AcceptedLists, CountTagsLists DEF Moves, PutMoves
<1> QED BY <1>1, <1>2, MoveOrRest

\* Once `mark_interest` has answered, no list from the cache is older than the mark,
\* unless a request was reading or storing the list when Douban accepted it.
THEOREM MarksStayShown == Spec => []MarksAreShown
<1>1. Init => Typed /\ ListsInv
    <2> SUFFICES ASSUME Init PROVE Typed /\ ListsInv
        OBVIOUS
    <2>1. Typed
        BY InitCounts
    <2>2. \A r \in Requests : requests[r] = Null
        BY DEF Init
    <2>3. \A a \in Accounts : Due(a) = {0} /\ lists[a] = 0
        BY <2>2 DEF Init, Due, Alone, At
    <2>4. \A a \in Accounts : \A k \in LibraryKeys(a) : ~Parses(Final(k))
        BY KeysApart DEF Init, Parses, Holds, Paths
    <2> QED BY <2>1, <2>2, <2>3, <2>4 DEF ListsInv, IsLibraryOf
<1>2. Typed /\ ListsInv /\ [Next]_vars => Typed' /\ ListsInv'
    BY TypedStep, ListsStep
<1>3. Typed /\ ListsInv => MarksAreShown
    <2> SUFFICES ASSUME Typed, ListsInv, NEW r \in Requests, At(r, "answer")
                 PROVE  Shows(requests[r].answer, requests[r].owed)
        BY DEF MarksAreShown, Shows
    <2>1. requests[r] # Null /\ requests[r].pc = "answer" /\ RequestOK(requests[r])
        BY DEF At, Typed
    <2>2. requests[r].account \in Accounts /\ IsLibraryOf(requests[r], requests[r].account)
        BY <2>1 DEF RequestOK, IsLibraryRequest, IsMarkRequest, IsLibraryOf, PutPcs
    <2> QED BY <2>1, <2>2 DEF ListsInv, RequestShows
<1> QED BY <1>1, <1>2, <1>3, PTL DEF Spec
================================================================================
