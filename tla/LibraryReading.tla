---------------------------- MODULE LibraryReading ----------------------------
(***************************************************************************)
(* Two readers that see a list page by page while it changes.              *)
(*                                                                         *)
(* A poll reads the account's wish list on Douban: `douban::library` asks  *)
(* for one page after the other by offset, newest mark first, and decides  *)
(* page by page whether the list goes on, has been read to its end or has  *)
(* to be left unfinished.  What was read becomes one snapshot, applied to  *)
(* the stored rows in one transaction: a complete one also deactivates the *)
(* rows it does not hold.  Meanwhile the user marks and unmarks.           *)
(*                                                                         *)
(* A client reads the stored rows by `list_summaries`, with a cursor that  *)
(* names the last row of the page before, while polls change the rows.     *)
(*                                                                         *)
(* The bookkeeping of a poll (token, deadlines, retries) is modelled in    *)
(* SubscriptionRepository, and the rest of a row in SubscriptionRow; a row *)
(* is here what the two readers need of it.                                *)
(***************************************************************************)
EXTENDS Integers, FiniteSets, SequencesExt

CONSTANTS
    Subjects,       \* Douban subjects: numbers, ordered as subject ids are
    Dates,          \* sort times of marks: numbers
    PageSize,       \* entries of a page of the wish list (LIBRARY_PAGE_SIZE)
    MaxPages,       \* pages a reading asks for at most (LIBRARY_MAX_PAGES)
    Limits,         \* the values the user gives library_limit
    ListLimits,     \* rows of a page of the stored list, as clients choose
    FirstWish,      \* the wish list when the program starts, newest first
    MaxMarks,       \* bound: how often the user marks or unmarks
    MaxFailures,    \* bound: how many pages Douban fails to deliver
    Null            \* no row, no date, no cursor

ASSUME ReadingConstants ==
    /\ Subjects \subseteq Nat /\ IsFiniteSet(Subjects)
    /\ Dates \subseteq Nat /\ Dates # {} /\ IsFiniteSet(Dates)
    /\ PageSize \in Nat \ {0} /\ MaxPages \in Nat \ {0}
    /\ Limits \subseteq Nat \ {0} /\ Limits # {} /\ IsFiniteSet(Limits)
    /\ ListLimits \subseteq 1 .. 100 /\ ListLimits # {}
    /\ FirstWish \in Seq(Subjects) /\ IsInjective(FirstWish)
    /\ MaxMarks \in Nat /\ MaxFailures \in Nat
    /\ Null \notin Subjects \cup Dates

VARIABLES
    wish,       \* the wish list on Douban, newest first
    date,       \* subject -> the date its mark shows, Null if it shows none
    poll,       \* the reading of the running poll, Null between polls
    rows,       \* subject -> [active, sort], its stored row, Null if none
    visit,      \* the client's way through the stored list, Null before it
    marks,      \* marks the user has used up
    failures    \* failed pages used up

vars == <<wish, date, poll, rows, visit, marks, failures>>

-------------------------------------------------------------------------------
\* `SubscriptionListFilter`: the partitions of `active` a list is made of.
\* Its other fields select rows in the same way.
Filters == {{TRUE}, {FALSE}, BOOLEAN}

\* What the two readers need of a row, and the place of a row in the stored list.
Rows == [active : BOOLEAN, sort : Dates \cup {Null}]
Keys == [sort : Dates \cup {Null}, subject : Subjects]
Cursors == [scope : Filters, key : Keys]

ASSUME NullAssumption == Null \notin Rows /\ Null \notin Keys /\ Null \notin Cursors

-------------------------------------------------------------------------------
(* Reading the wish list *)

AtMost(seq, n) == SubSeq(seq, 1, IF Len(seq) < n THEN Len(seq) ELSE n)

\* What a snapshot records of an entry: the subject and its sort time.
Record(s) == [subject |-> s, date |-> date[s]]

\* `library_page_url` and `extract_library_items`: the entries from an offset.
PageFrom(start) ==
    AtMost([i \in 1 .. Len(wish) - start |-> Record(wish[start + i])], PageSize)

\* The clamp of the limit a reading starts from.
Clamped(limit) == IF limit < PageSize * MaxPages THEN limit ELSE PageSize * MaxPages

\* Where on a page the entries are that no earlier page has brought.
Fresh(reading, page) ==
    LET known == {item.subject : item \in ToSet(reading.items)}
    IN  {i \in DOMAIN page : page[i].subject \notin known}

Room(reading) == Clamped(reading.limit) - Len(reading.items)

\* Mutant: a list that was cut at the limit counts as read to its end.
CutIsTheEnd(reading, page) ==
    LET fresh == Fresh(reading, page)
    IN  IF page = <<>> \/ Cardinality(fresh) >= Room(reading) THEN "complete"
        ELSE IF fresh = {} \/ reading.pages + 1 >= MaxPages
          THEN "partial" ELSE "continue"

\* What `push_page` decides.  Only an empty page proves that the list ended.
Verdict(reading, page) ==
    LET fresh == Fresh(reading, page)
    IN  IF page = <<>> THEN "complete"
        ELSE IF \/ Cardinality(fresh) >= Room(reading)
                \/ fresh = {}
                \/ reading.pages + 1 >= MaxPages
          THEN "partial" ELSE "continue"

\* The fresh entries of a page, in its order, as far as the limit goes.
Taken(reading, page) ==
    LET fresh == Fresh(reading, page)
        Nth(i) == CHOOSE p \in fresh : Cardinality({q \in fresh : q < p}) = i - 1
    IN  AtMost([i \in 1 .. Cardinality(fresh) |-> page[Nth(i)]], Room(reading))

PushPage(reading, page) ==
    [reading EXCEPT !.items = @ \o Taken(reading, page),
                    !.pages = @ + 1,
                    !.start = @ + PageSize,
                    !.verdict = Verdict(reading, page)]

\* `wished` and `undisturbed` are history: the subjects that have stayed on
\* the list since the start, and whether anything on it has moved up.
NewReading(limit) ==
    [limit |-> limit, start |-> 0, items |-> <<>>, pages |-> 0,
     verdict |-> "continue", wished |-> ToSet(wish), undisturbed |-> TRUE]

\* Mutant: a subject that comes back stays deactivated.
SeenButAsleep(row, item) ==
    IF row = Null
      THEN [active |-> TRUE, sort |-> item.date]
      ELSE [row EXCEPT !.sort = IF item.date # Null THEN item.date ELSE @]

\* A row a snapshot holds: active, with the date shown, or else the one it had.
Seen(row, item) ==
    [active |-> TRUE,
     sort |-> IF item.date # Null THEN item.date
              ELSE IF row = Null THEN Null ELSE row.sort]

\* `validated_snapshot_terminal`: complete is what has been read to its end.
Completes(reading) == reading.verdict = "complete"

\* The rows after a snapshot.  Only a complete one deactivates what it lacks.
Applied(reading) ==
    LET items == ToSet(reading.items)
        Held(s) == {item \in items : item.subject = s}
    IN  [s \in Subjects |->
           IF Held(s) # {}
             THEN Seen(rows[s], CHOOSE item \in Held(s) : TRUE)
           ELSE IF rows[s] # Null /\ Completes(reading)
             THEN [rows[s] EXCEPT !.active = FALSE]
           ELSE rows[s]]

-------------------------------------------------------------------------------
(* Reading the stored list *)

Key(s) == [sort |-> rows[s].sort, subject |-> s]

\* The order of the list: newest first, rows without a date last, and the
\* larger subject id first among rows of one date.
Precedes(k, l) ==
    \/ k.sort # Null /\ l.sort = Null
    \/ k.sort # Null /\ l.sort # Null /\ k.sort > l.sort
    \/ k.sort = l.sort /\ k.subject > l.subject

\* Mutant: a page starts below the date of the last row, not below the row.
PastDate(key, cursor) ==
    cursor = Null \/ (cursor.sort # Null /\ (key.sort = Null \/ key.sort < cursor.sort))

\* `(douban_sort_time, subject_id) < (?, ?)`, and its form for missing dates.
Past(key, cursor) == cursor = Null \/ Precedes(cursor, key)

\* How many rows of a set come before one.
Rank(s, S) == Cardinality({t \in S : Precedes(Key(t), Key(s))})

InOrder(S) == [i \in 1 .. Cardinality(S) |-> CHOOSE s \in S : Rank(s, S) = i - 1]

FirstOf(S, n) == {s \in S : Rank(s, S) < n}

\* One query of a page: a partition of `active`, with or without dates.
Segment(active, dated, cursor, bound) ==
    FirstOf({s \in Subjects :
               /\ rows[s] # Null
               /\ rows[s].active = active
               /\ (rows[s].sort # Null) = dated
               /\ Past(Key(s), cursor)}, bound)

\* `build_list_queries`: past a row without a date there are no dated rows.
Segments(filter, cursor) ==
    filter \X (IF cursor # Null /\ cursor.sort = Null THEN {FALSE} ELSE BOOLEAN)

\* `list_summaries`: the bounded queries merged, and one row more than the
\* page takes to know whether there is a next page.
ListPage(filter, cursor, limit) ==
    LET found == UNION {Segment(q[1], q[2], cursor, limit + 1) :
                          q \in Segments(filter, cursor)}
        items == InOrder(FirstOf(found, limit))
    IN  [items |-> items,
         next |-> IF Cardinality(found) > limit THEN Key(Last(items)) ELSE Null]

\* `ListCursorScope`: the account and the filter, here the filter alone.
Scope(filter) == filter

Encoded(key, filter) ==
    IF key = Null THEN Null ELSE [scope |-> Scope(filter), key |-> key]

\* `decode`: a token is refused under another filter than its own.
Decodes(cursor, filter) == cursor = Null \/ cursor.scope = Scope(filter)

Position(cursor) == IF cursor = Null THEN Null ELSE cursor.key

\* The client's way after one more page of its list.
Advanced(v, limit) ==
    LET page == ListPage(v.filter, Position(v.cursor), limit)
    IN  [v EXCEPT !.shown = @ \o page.items,
                  !.cursor = Encoded(page.next, v.filter),
                  !.ended = page.next = Null]

-------------------------------------------------------------------------------
Init ==
    /\ wish = FirstWish
    /\ date \in [Subjects -> {CHOOSE d \in Dates : \A e \in Dates : d <= e}]
    /\ poll = Null
    /\ rows = [s \in Subjects |-> Null]
    /\ visit = Null
    /\ marks = 0
    /\ failures = 0

\* History: what a running poll will still be measured by.
Disturb(s, moved) ==
    poll' = IF poll = Null THEN Null
            ELSE [poll EXCEPT !.wished = @ \ (IF moved THEN {s} ELSE {}),
                              !.undisturbed = @ /\ ~moved]

\* The user marks a subject, anew or again: it comes to the front of the list,
\* with a date not before the others', or none.
Mark(s) ==
    /\ marks < MaxMarks
    /\ wish' = <<s>> \o RemoveFirst(wish, s)
    /\ \E d \in {d \in Dates : \A t \in ToSet(wish) : date[t] # Null => d >= date[t]}
              \cup {Null} :
         date' = [date EXCEPT ![s] = d]
    /\ Disturb(s, s \in ToSet(wish))
    /\ marks' = marks + 1
    /\ UNCHANGED <<rows, visit, failures>>

\* The user takes a subject off the list: what follows it moves up.
Unmark(s) ==
    /\ marks < MaxMarks
    /\ s \in ToSet(wish)
    /\ wish' = RemoveFirst(wish, s)
    /\ Disturb(s, TRUE)
    /\ marks' = marks + 1
    /\ UNCHANGED <<date, rows, visit, failures>>

BeginPoll ==
    /\ poll = Null
    /\ \E limit \in Limits : poll' = NewReading(limit)
    /\ UNCHANGED <<wish, date, rows, visit, marks, failures>>

FetchPage ==
    /\ poll # Null /\ poll.verdict = "continue"
    /\ poll' = PushPage(poll, PageFrom(poll.start))
    /\ UNCHANGED <<wish, date, rows, visit, marks, failures>>

\* `ensure_html_success`: an error status, a redirect to the login page or
\* no answer at all.  The poll ends as a failure, and none of its pages counts.
FailPage ==
    /\ poll # Null /\ poll.verdict = "continue"
    /\ failures < MaxFailures
    /\ failures' = failures + 1
    /\ poll' = Null
    /\ UNCHANGED <<wish, date, rows, visit, marks>>

\* The snapshot and the end of the poll are one transaction.
ApplySnapshot ==
    /\ poll # Null /\ poll.verdict # "continue"
    /\ rows' = Applied(poll)
    /\ visit' = IF visit = Null THEN Null
                ELSE [visit EXCEPT !.still = {s \in @ : rows'[s] = rows[s]}]
    /\ poll' = Null
    /\ UNCHANGED <<wish, date, marks, failures>>

\* A client opens the list, leaving whatever it was reading before.
\* `still` is history: the rows that have not changed since.
OpenList(filter, limit) ==
    /\ visit' = Advanced([filter |-> filter, cursor |-> Null, ended |-> FALSE,
                          shown |-> <<>>,
                          still |-> {s \in Subjects : rows[s] # Null}], limit)
    /\ UNCHANGED <<wish, date, poll, rows, marks, failures>>

\* It asks for the next page, with a limit of its choice.
NextPage(filter, limit) ==
    /\ visit # Null /\ ~visit.ended
    /\ Decodes(visit.cursor, filter)
    /\ visit' = Advanced(visit, limit)
    /\ UNCHANGED <<wish, date, poll, rows, marks, failures>>

Next ==
    \/ \E s \in Subjects : Mark(s) \/ Unmark(s)
    \/ BeginPoll
    \/ FetchPage
    \/ FailPage
    \/ ApplySnapshot
    \/ \E filter \in Filters, limit \in ListLimits :
         OpenList(filter, limit) \/ NextPage(filter, limit)

\* The worker polls for ever and a poll runs to its end; users and clients may
\* stop at any time, and Douban fails finitely often.
Fairness == WF_vars(BeginPoll) /\ WF_vars(FetchPage) /\ WF_vars(ApplySnapshot)

Spec == Init /\ [][Next]_vars /\ Fairness

-------------------------------------------------------------------------------
(* Properties *)

IsActive(s) == rows[s] # Null /\ rows[s].active

\* A poll never deactivates a subject that was on the wish list from its start
\* to its end, as long as nothing moved up meanwhile: marks that push the list
\* back while its pages are read, a limit or the last page make a snapshot
\* overlap or fall short, but never complete without the subject.
CompleteIsWhole ==
    [][poll # Null /\ poll.undisturbed =>
         \A s \in poll.wished : IsActive(s) => IsActive(s)']_vars

\* A client that reads the stored list to its end meets every row that did not
\* change meanwhile exactly once if its filter takes it, and no other row of
\* these, whatever polls inserted, dated anew or deactivated between two pages
\* and whatever page sizes it asked for.
ListedOnce ==
    visit # Null /\ visit.ended =>
      \A s \in visit.still :
        Cardinality({i \in DOMAIN visit.shown : visit.shown[i] = s})
          = IF rows[s].active \in visit.filter THEN 1 ELSE 0

\* The wish list can be read to its end under every limit in use.
Fits == /\ \A limit \in Limits : Len(wish) < Clamped(limit)
        /\ Len(wish) <= PageSize * (MaxPages - 1)

\* What a reading reaches under every limit in use.
InReach(s) == \A limit \in Limits : s \in ToSet(AtMost(wish, Clamped(limit)))

\* The rows follow the wish list once the user leaves it alone: what every
\* limit reaches becomes and stays active, and what is not on the list is
\* deactivated for good, if the list can be read to its end.
WishIsFollowed ==
    <>[](\A s \in Subjects :
           /\ InReach(s) => IsActive(s)
           /\ Fits /\ IsActive(s) => s \in ToSet(wish))
===============================================================================
