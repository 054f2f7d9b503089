------------------------- MODULE LibraryReadingProofs -------------------------
(***************************************************************************)
(* The two readers.  A reading of the wish list that nothing has moved up   *)
(* under holds every subject it passed, so one that reached the end holds   *)
(* all that stayed; and a page of the stored list is exactly what lies      *)
(* between its cursor and the next one.                                    *)
(***************************************************************************)
EXTENDS LibraryReading, FiniteOrders

LEMMA AtMostIs ==
    ASSUME NEW S, NEW seq \in Seq(S), NEW n \in Nat
    PROVE  /\ AtMost(seq, n) \in Seq(S)
           /\ Len(AtMost(seq, n)) = IF Len(seq) < n THEN Len(seq) ELSE n
           /\ \A i \in 1 .. Len(AtMost(seq, n)) : AtMost(seq, n)[i] = seq[i]
<1> DEFINE m == IF Len(seq) < n THEN Len(seq) ELSE n
<1>1. Len(seq) \in Nat /\ m \in Nat /\ m <= Len(seq)
  BY LenProperties
<1>2. \A i \in 1 .. m : seq[i] \in S
  BY <1>1, ElementOfSeq
<1>3. AtMost(seq, n) = SubSeq(seq, 1, m)
  BY DEF AtMost
<1> HIDE DEF m
<1>4. 1 \in Int /\ m \in Int
  BY <1>1
<1>5. /\ SubSeq(seq, 1, m) \in Seq(S)
      /\ Len(SubSeq(seq, 1, m)) = IF 1 <= m THEN m - 1 + 1 ELSE 0
      /\ \A i \in 1 .. m - 1 + 1 : SubSeq(seq, 1, m)[i] = seq[1 + i - 1]
  BY <1>2, <1>4, SubSeqProperties
<1>6. /\ Len(SubSeq(seq, 1, m)) = m
      /\ \A i \in 1 .. m : SubSeq(seq, 1, m)[i] = seq[i]
  BY <1>1, <1>5
<1> QED
  BY <1>3, <1>5, <1>6 DEF m

-------------------------------------------------------------------------------
(* The reading of the wish list.                                           *)

Items == [subject : Subjects, date : Dates \cup {Null}]

Readings ==
    [limit : Limits, start : Nat, items : Seq(Items), pages : Nat,
     verdict : {"continue", "partial", "complete"},
     wished : SUBSET Subjects, undisturbed : BOOLEAN]

\* The subjects that a reading has brought.
Brought(r) == {item.subject : item \in ToSet(r.items)}

\* Nothing that stayed has slipped past an undisturbed reading.
NothingSlipped(r) ==
    r.undisturbed =>
      /\ r.verdict = "complete" => r.wished \subseteq Brought(r)
      /\ r.verdict = "continue" =>
           /\ r.wished \subseteq ToSet(wish)
           /\ \A i \in 1 .. Len(wish) :
                i <= r.start /\ wish[i] \in r.wished => wish[i] \in Brought(r)

WishInv ==
    /\ wish \in Seq(Subjects)
    /\ date \in [Subjects -> Dates \cup {Null}]
    /\ rows \in [Subjects -> Rows \cup {Null}]
    /\ poll # Null =>
         /\ poll \in Readings
         /\ Len(poll.items) <= Clamped(poll.limit)
         /\ NothingSlipped(poll)

LEMMA PageIs ==
    ASSUME wish \in Seq(Subjects), date \in [Subjects -> Dates \cup {Null}], NEW start \in Nat
    PROVE  LET page == PageFrom(start)
           IN  /\ page \in Seq(Items)
               /\ \A i \in 1 .. Len(page) :
                    start + i \in 1 .. Len(wish) /\ page[i].subject = wish[start + i]
               /\ \A i \in 1 .. Len(wish) :
                    start < i /\ i <= start + PageSize => i - start \in 1 .. Len(page)
<1> DEFINE rest == [i \in 1 .. Len(wish) - start |-> Record(wish[start + i])]
           m == IF Len(wish) - start < 0 THEN 0 ELSE Len(wish) - start
<1>1. /\ Len(wish) \in Nat /\ m \in Nat /\ 1 .. Len(wish) - start = 1 .. m
      /\ \A i \in 1 .. Len(wish) : wish[i] \in Subjects
  BY LenProperties, ElementOfSeq
<1>2. \A i \in 1 .. m : start + i \in 1 .. Len(wish)
  BY <1>1
<1>3. rest \in [1 .. m -> Items]
  BY <1>1, <1>2 DEF Record, Items
<1>4. rest \in Seq(Items) /\ Len(rest) = m
  BY <1>1, <1>3, FunctionIsSequence
<1>5. \A i \in 1 .. m : rest[i].subject = wish[start + i]
  BY <1>1 DEF Record
<1>6. PageSize \in Nat
  BY ReadingConstants
<1>7. PageFrom(start) = AtMost(rest, PageSize)
  BY DEF PageFrom
<1> HIDE DEF rest
<1>8. /\ PageFrom(start) \in Seq(Items)
      /\ Len(PageFrom(start)) = IF m < PageSize THEN m ELSE PageSize
      /\ \A i \in 1 .. Len(PageFrom(start)) : PageFrom(start)[i] = rest[i]
  BY <1>4, <1>6, <1>7, AtMostIs
<1>9. \A i \in 1 .. Len(PageFrom(start)) : i \in 1 .. m
  BY <1>1, <1>6, <1>8
<1>10. \A i \in 1 .. Len(wish) :
         start < i /\ i <= start + PageSize => i - start \in 1 .. Len(PageFrom(start))
  BY <1>1, <1>6, <1>8
<1> QED
  BY <1>2, <1>5, <1>8, <1>9, <1>10

\* What a page adds to a reading: entries of its own, no more than there is
\* room for, and all that are fresh if there is room for more than these.
LEMMA TakenIs ==
    ASSUME NEW reading \in Readings, NEW page \in Seq(Items), Room(reading) \in Nat
    PROVE  /\ Taken(reading, page) \in Seq(Items)
           /\ Len(Taken(reading, page)) <= Room(reading)
           /\ Cardinality(Fresh(reading, page)) \in Nat
           /\ Cardinality(Fresh(reading, page)) < Room(reading) =>
                \A p \in Fresh(reading, page) : page[p] \in ToSet(Taken(reading, page))
<1> DEFINE fresh == Fresh(reading, page)
           R == {q \in fresh \X fresh : q[1] < q[2]}
           Nth(i) == CHOOSE p \in fresh : Cardinality({q \in fresh : q < p}) = i - 1
           n == Cardinality(fresh)
           seq == [i \in 1 .. n |-> page[Nth(i)]]
<1>1. fresh \in SUBSET (1 .. Len(page)) /\ Len(page) \in Nat
  BY LenProperties DEF Fresh
<1>2. IsFiniteSet(fresh) /\ n \in Nat
  <2>1. 1 \in Int /\ Len(page) \in Int
    BY <1>1
  <2>2. IsFiniteSet(1 .. Len(page))
    BY <2>1, FS_Interval
  <2> HIDE DEF fresh
  <2> QED
    BY <1>1, <2>2, FS_Subset, FS_CardinalityType
<1>3. Taken(reading, page) = AtMost(seq, Room(reading))
  BY DEF Taken
<1>4. \A p \in fresh : p \in 1 .. Len(page) /\ page[p] \in Items
  BY <1>1, ElementOfSeq
<1> HIDE DEF fresh
<1>5. Orders(R, fresh)
  BY <1>1 DEF Orders
<1>6. \A p \in fresh : RankBy(p, fresh, R) = Cardinality({q \in fresh : q < p})
  <2> TAKE p \in fresh
  <2>1. Before(p, fresh, R) = {q \in fresh : q < p}
    BY DEF Before
  <2> HIDE DEF R
  <2> QED
    BY <2>1 DEF RankBy
<1> HIDE DEF R
<1>7. \A i : Nth(i) = CHOOSE p \in fresh : RankBy(p, fresh, R) = i - 1
  BY <1>6
<1> HIDE DEF Nth
<1>8. \A i \in 1 .. n : Nth(i) = Ranked(fresh, R)[i]
  <2> TAKE i \in 1 .. n
  <2>1. Ranked(fresh, R)[i] = CHOOSE p \in fresh : RankBy(p, fresh, R) = i - 1
    BY DEF Ranked
  <2>2. Nth(i) = CHOOSE p \in fresh : RankBy(p, fresh, R) = i - 1
    BY <1>7
  <2> QED
    BY <2>1, <2>2
<1>9. DOMAIN Ranked(fresh, R) = 1 .. n
  BY <1>2, <1>5, RankedIsS
<1>10. \A i \in 1 .. n : Nth(i) \in fresh
  BY <1>2, <1>5, <1>8, <1>9, RankedIsS
<1>11. \A p \in fresh : \E i \in 1 .. n : Nth(i) = p
  BY <1>2, <1>5, <1>8, <1>9, RankedIsS
<1> HIDE DEF n
<1>12. seq \in [1 .. n -> Items]
  BY <1>4, <1>10
<1>13. \A p \in fresh : \E i \in 1 .. n : seq[i] = page[p]
  BY <1>11
<1> HIDE DEF seq
<1>14. seq \in Seq(Items) /\ Len(seq) = n
  BY <1>2, <1>12, FunctionIsSequence
<1>15. /\ Taken(reading, page) \in Seq(Items)
       /\ Len(Taken(reading, page)) = IF n < Room(reading) THEN n ELSE Room(reading)
       /\ \A i \in 1 .. Len(Taken(reading, page)) : Taken(reading, page)[i] = seq[i]
  BY <1>3, <1>14, AtMostIs
<1>16. ASSUME n < Room(reading), NEW p \in fresh
       PROVE  page[p] \in ToSet(Taken(reading, page))
  <2>1. PICK i \in 1 .. n : seq[i] = page[p]
    BY <1>13
  <2>2. Len(Taken(reading, page)) = n
    BY <1>15, <1>16
  <2>3. Taken(reading, page)[i] = page[p] /\ i \in DOMAIN Taken(reading, page)
    BY <1>15, <2>1, <2>2
  <2> QED
    BY <2>3 DEF ToSet
<1>17. Len(Taken(reading, page)) <= Room(reading)
  BY <1>2, <1>15
<1> QED
  BY <1>2, <1>15, <1>16, <1>17 DEF fresh, n

\* What taking a subject off the wish list leaves.
LEMMA RemoveFirstIs ==
    ASSUME NEW S, NEW seq \in Seq(S), NEW e
    PROVE  /\ RemoveFirst(seq, e) \in Seq(S)
           /\ e \notin ToSet(seq) => RemoveFirst(seq, e) = seq
<1> DEFINE held == \E i \in 1 .. Len(seq) : seq[i] = e
           T == {i \in 1 .. Len(seq) : seq[i] = e}
           at == CHOOSE i \in T : \A j \in T : i <= j
           rest == SubSeq(seq, 1, at - 1) \o SubSeq(seq, at + 1, Len(seq))
<1>1. RemoveFirst(seq, e) = IF held THEN rest ELSE seq
  BY DEF RemoveFirst, RemoveAt, SelectInSeq, Min
<1>2. e \notin ToSet(seq) => ~held
  BY DEF ToSet
<1>3. ASSUME held
      PROVE  rest \in Seq(S)
  <2>1. Len(seq) \in Nat /\ T \in SUBSET Nat /\ T # {}
    BY <1>3, LenProperties
  <2>2. at \in T
    BY <2>1, LeastOf
  <2>3. at \in 1 .. Len(seq)
    BY <2>2
  <2> HIDE DEF at
  <2>4. SubSeq(seq, 1, at - 1) \in Seq(S)
    <3>1. 1 \in Int /\ at - 1 \in Int /\ \A i \in 1 .. at - 1 : i \in 1 .. Len(seq)
      BY <2>1, <2>3
    <3>2. \A i \in 1 .. at - 1 : seq[i] \in S
      BY <3>1, ElementOfSeq
    <3> QED
      BY <3>1, <3>2, SubSeqProperties
  <2>5. SubSeq(seq, at + 1, Len(seq)) \in Seq(S)
    <3>1. at + 1 \in Int /\ Len(seq) \in Int /\ \A i \in at + 1 .. Len(seq) : i \in 1 .. Len(seq)
      BY <2>1, <2>3
    <3>2. \A i \in at + 1 .. Len(seq) : seq[i] \in S
      BY <3>1, ElementOfSeq
    <3> QED
      BY <3>1, <3>2, SubSeqProperties
  <2> QED
    BY <2>4, <2>5, ConcatProperties
<1> QED
  BY <1>1, <1>2, <1>3

\* The user marks a subject.  One that was not on the list pushes the list back
\* and was not wished; one that was disturbs the reading.
LEMMA MarkKeepsWishInv ==
    ASSUME WishInv, NEW s \in Subjects, Mark(s)
    PROVE  WishInv'
<1>1. /\ wish \in Seq(Subjects) /\ date \in [Subjects -> Dates \cup {Null}]
      /\ rows \in [Subjects -> Rows \cup {Null}]
      /\ poll # Null =>
           /\ poll \in Readings /\ Len(poll.items) <= Clamped(poll.limit)
           /\ NothingSlipped(poll)
  BY DEF WishInv
<1>2. wish' = <<s>> \o RemoveFirst(wish, s) /\ rows' = rows /\ Disturb(s, s \in ToSet(wish))
  BY DEF Mark
<1>3. wish' \in Seq(Subjects)
  BY <1>1, <1>2, RemoveFirstIs, ConcatProperties
<1>4. date' \in [Subjects -> Dates \cup {Null}]
  BY <1>1 DEF Mark
<1>5. rows' \in [Subjects -> Rows \cup {Null}]
  BY <1>1, <1>2
<1>6. ASSUME poll' # Null
      PROVE  poll' \in Readings /\ Len(poll'.items) <= Clamped(poll'.limit)
             /\ NothingSlipped(poll)'
  <2>1. /\ poll # Null
        /\ poll' = [poll EXCEPT !.wished = @ \ (IF s \in ToSet(wish) THEN {s} ELSE {}),
                                !.undisturbed = @ /\ ~(s \in ToSet(wish))]
    BY <1>2, <1>6 DEF Disturb
  <2>2. poll' \in Readings /\ Len(poll'.items) <= Clamped(poll'.limit)
    BY <1>1, <2>1 DEF Readings
  <2>3. CASE s \in ToSet(wish)
    <3>1. poll'.undisturbed = FALSE
      BY <1>1, <2>1, <2>3 DEF Readings
    <3> QED
      BY <2>2, <3>1 DEF NothingSlipped
  <2>4. CASE s \notin ToSet(wish)
    <3>1. poll' = poll
      BY <1>1, <2>1, <2>4 DEF Readings
    <3>2. wish' = <<s>> \o wish
      BY <1>1, <1>2, <2>4, RemoveFirstIs
    <3>3. /\ Len(wish) \in Nat /\ Len(wish') = Len(wish) + 1 /\ wish'[1] = s
          /\ \A i \in 1 .. Len(wish) : wish'[i + 1] = wish[i]
      BY <1>1, <3>2
    <3>4. ASSUME poll.undisturbed
          PROVE  /\ poll.verdict = "complete" => poll.wished \subseteq Brought(poll)
                 /\ poll.verdict = "continue" =>
                      /\ poll.wished \subseteq ToSet(wish')
                      /\ \A i \in 1 .. Len(wish') :
                           i <= poll.start /\ wish'[i] \in poll.wished => wish'[i] \in Brought(poll)
      <4>1. /\ poll.verdict = "complete" => poll.wished \subseteq Brought(poll)
            /\ poll.verdict = "continue" =>
                 /\ poll.wished \subseteq ToSet(wish)
                 /\ \A i \in 1 .. Len(wish) :
                      i <= poll.start /\ wish[i] \in poll.wished => wish[i] \in Brought(poll)
        BY <1>1, <2>1, <3>4 DEF NothingSlipped
      <4>2. ToSet(wish) \subseteq ToSet(wish')
        <5> SUFFICES ASSUME NEW i \in 1 .. Len(wish)
                     PROVE  wish[i] \in ToSet(wish')
          BY <1>1 DEF ToSet
        <5>1. i + 1 \in 1 .. Len(wish') /\ wish'[i + 1] = wish[i] /\ DOMAIN wish' = 1 .. Len(wish')
          BY <1>3, <3>3
        <5> QED
          BY <5>1 DEF ToSet
      <4>3. ASSUME poll.verdict = "continue", NEW i \in 1 .. Len(wish'),
                   i <= poll.start, wish'[i] \in poll.wished
            PROVE  wish'[i] \in Brought(poll)
        <5>1. i # 1
          BY <2>4, <3>3, <4>1, <4>3
        <5>2. i - 1 \in 1 .. Len(wish) /\ wish'[(i - 1) + 1] = wish[i - 1] /\ (i - 1) + 1 = i
          BY <3>3, <5>1
        <5>3. i - 1 <= poll.start
          BY <1>1, <2>1, <3>3, <4>3 DEF Readings
        <5> QED
          BY <4>1, <4>3, <5>2, <5>3
      <4> QED
        BY <4>1, <4>2, <4>3
    <3> QED
      BY <2>2, <3>1, <3>4 DEF NothingSlipped, Brought
  <2> QED
    BY <2>3, <2>4, <2>2
<1> QED
  BY <1>3, <1>4, <1>5, <1>6 DEF WishInv

\* The user takes a subject off the list, which disturbs the reading.
LEMMA UnmarkKeepsWishInv ==
    ASSUME WishInv, NEW s \in Subjects, Unmark(s)
    PROVE  WishInv'
<1>1. /\ wish' = RemoveFirst(wish, s) /\ rows' = rows /\ date' = date /\ Disturb(s, TRUE)
      /\ wish' \in Seq(Subjects)
  BY RemoveFirstIs DEF WishInv, Unmark
<1>2. ASSUME poll' # Null
      PROVE  poll' \in Readings /\ Len(poll'.items) <= Clamped(poll'.limit)
             /\ poll'.undisturbed = FALSE
  <2>1. /\ poll # Null
        /\ poll' = [poll EXCEPT !.wished = @ \ (IF TRUE THEN {s} ELSE {}),
                                !.undisturbed = @ /\ ~TRUE]
    BY <1>1, <1>2 DEF Disturb
  <2>2. poll \in Readings /\ Len(poll.items) <= Clamped(poll.limit)
    BY <2>1 DEF WishInv
  <2> QED
    BY <2>1, <2>2 DEF Readings
<1> QED
  BY <1>1, <1>2 DEF WishInv, NothingSlipped

LEMMA ClampedIsNat ==
    ASSUME NEW limit \in Limits
    PROVE  Clamped(limit) \in Nat
<1>1. limit \in Nat /\ PageSize * MaxPages \in Nat
  BY ReadingConstants
<1> QED
  BY <1>1 DEF Clamped

\* A reading starts with nothing passed.
LEMMA BeginKeepsWishInv ==
    ASSUME WishInv, BeginPoll
    PROVE  WishInv'
<1>1. PICK limit \in Limits : poll' = NewReading(limit)
  BY DEF BeginPoll
<1>2. wish' = wish /\ date' = date /\ rows' = rows /\ wish \in Seq(Subjects) /\ Len(wish) \in Nat
  BY LenProperties DEF BeginPoll, WishInv
<1>3. ToSet(wish) \subseteq Subjects
  BY <1>2, ElementOfSeq DEF ToSet
<1>4. <<>> \in Seq(Items) /\ Len(<<>>) = 0
  OBVIOUS
<1>5. Clamped(limit) \in Nat
  BY ClampedIsNat
<1> DEFINE none == <<>>
<1>6. NewReading(limit) =
        [limit |-> limit, start |-> 0, items |-> none, pages |-> 0,
         verdict |-> "continue", wished |-> ToSet(wish), undisturbed |-> TRUE]
  BY DEF NewReading
<1>7. none \in Seq(Items) /\ Len(none) = 0
  BY <1>4
<1> HIDE DEF none
<1>8. poll' \in Readings /\ Len(poll'.items) <= Clamped(poll'.limit)
  BY <1>1, <1>3, <1>5, <1>6, <1>7 DEF Readings
<1>9. NothingSlipped(poll)'
  BY <1>1, <1>2, <1>6 DEF NothingSlipped
<1> QED
  BY <1>2, <1>8, <1>9 DEF WishInv

\* A page is added to the reading: it passes what it brings, and an empty one
\* lies past everything on the list.
LEMMA FetchKeepsWishInv ==
    ASSUME WishInv, FetchPage
    PROVE  WishInv'
<1> DEFINE page == PageFrom(poll.start)
           taken == Taken(poll, page)
           fresh == Fresh(poll, page)
<1>1. /\ wish' = wish /\ date' = date /\ rows' = rows /\ poll # Null
      /\ poll.verdict = "continue" /\ poll' = PushPage(poll, page)
  BY DEF FetchPage
<1>2. /\ wish \in Seq(Subjects) /\ date \in [Subjects -> Dates \cup {Null}]
      /\ rows \in [Subjects -> Rows \cup {Null}]
      /\ poll \in Readings /\ Len(poll.items) <= Clamped(poll.limit) /\ NothingSlipped(poll)
      /\ Len(wish) \in Nat
  BY <1>1, LenProperties DEF WishInv
<1>3. /\ poll.items \in Seq(Items) /\ Len(poll.items) \in Nat
      /\ poll.start \in Nat /\ poll.pages \in Nat /\ poll.limit \in Limits
      /\ poll.wished \in SUBSET Subjects /\ poll.undisturbed \in BOOLEAN
  BY <1>2, LenProperties DEF Readings
<1>4. PageSize \in Nat \ {0} /\ MaxPages \in Nat \ {0} /\ Clamped(poll.limit) \in Nat
  BY <1>3, ReadingConstants, ClampedIsNat
<1>5. Room(poll) = Clamped(poll.limit) - Len(poll.items) /\ Room(poll) \in Nat
  BY <1>2, <1>3, <1>4 DEF Room
<1>6. /\ page \in Seq(Items)
      /\ \A i \in 1 .. Len(page) :
           poll.start + i \in 1 .. Len(wish) /\ page[i].subject = wish[poll.start + i]
      /\ \A i \in 1 .. Len(wish) :
           poll.start < i /\ i <= poll.start + PageSize => i - poll.start \in 1 .. Len(page)
  BY <1>2, <1>3, PageIs
<1> HIDE DEF page
<1>7. /\ taken \in Seq(Items) /\ Len(taken) <= Room(poll) /\ Cardinality(fresh) \in Nat
      /\ Cardinality(fresh) < Room(poll) => \A p \in fresh : page[p] \in ToSet(taken)
  BY <1>2, <1>5, <1>6, TakenIs
<1>8. /\ poll'.items = poll.items \o taken /\ poll'.pages = poll.pages + 1
      /\ poll'.start = poll.start + PageSize /\ poll'.verdict = Verdict(poll, page)
      /\ poll'.limit = poll.limit /\ poll'.wished = poll.wished
      /\ poll'.undisturbed = poll.undisturbed
      /\ poll' = [limit |-> poll.limit, start |-> poll.start + PageSize,
                  items |-> poll.items \o taken, pages |-> poll.pages + 1,
                  verdict |-> Verdict(poll, page), wished |-> poll.wished,
                  undisturbed |-> poll.undisturbed]
  BY <1>1, <1>2 DEF PushPage, Readings
<1>9. Verdict(poll, page) \in {"continue", "partial", "complete"}
  BY DEF Verdict
<1> HIDE DEF taken, fresh
<1>10. /\ poll.items \o taken \in Seq(Items)
       /\ Len(poll.items \o taken) = Len(poll.items) + Len(taken) /\ Len(taken) \in Nat
       /\ \A i \in 1 .. Len(poll.items) + Len(taken) :
            (poll.items \o taken)[i] =
              IF i <= Len(poll.items) THEN poll.items[i] ELSE taken[i - Len(poll.items)]
  BY <1>3, <1>7, ConcatProperties, LenProperties
<1>11. poll' \in Readings
  BY <1>3, <1>4, <1>8, <1>9, <1>10 DEF Readings
<1>12. Len(poll'.items) <= Clamped(poll'.limit)
  BY <1>3, <1>4, <1>5, <1>7, <1>8, <1>10
<1>13. ToSet(poll.items) \cup ToSet(taken) \subseteq ToSet(poll'.items)
  <2>1. DOMAIN poll.items = 1 .. Len(poll.items) /\ DOMAIN taken = 1 .. Len(taken)
        /\ DOMAIN poll'.items = 1 .. Len(poll.items) + Len(taken)
    BY <1>3, <1>7, <1>8, <1>10
  <2>2. ASSUME NEW i \in 1 .. Len(poll.items)
        PROVE  poll.items[i] \in ToSet(poll'.items)
    <3>1. i \in 1 .. Len(poll.items) + Len(taken) /\ poll'.items[i] = poll.items[i]
      BY <1>3, <1>8, <1>10
    <3> QED
      BY <2>1, <3>1 DEF ToSet
  <2>3. ASSUME NEW i \in 1 .. Len(taken)
        PROVE  taken[i] \in ToSet(poll'.items)
    <3>1. /\ i + Len(poll.items) \in 1 .. Len(poll.items) + Len(taken)
          /\ ~(i + Len(poll.items) <= Len(poll.items)) /\ (i + Len(poll.items)) - Len(poll.items) = i
      BY <1>3, <1>10
    <3>2. poll'.items[i + Len(poll.items)] = taken[i]
      BY <1>8, <1>10, <3>1
    <3> QED
      BY <2>1, <3>1, <3>2 DEF ToSet
  <2> QED
    BY <2>1, <2>2, <2>3 DEF ToSet
<1>14. Brought(poll) \subseteq Brought(poll')
  BY <1>13 DEF Brought
<1>15. ASSUME poll.undisturbed
       PROVE  /\ poll'.verdict = "complete" => poll'.wished \subseteq Brought(poll')
              /\ poll'.verdict = "continue" =>
                   /\ poll'.wished \subseteq ToSet(wish)
                   /\ \A i \in 1 .. Len(wish) :
                        i <= poll'.start /\ wish[i] \in poll'.wished => wish[i] \in Brought(poll')
  <2>1. /\ poll.wished \subseteq ToSet(wish)
        /\ \A i \in 1 .. Len(wish) :
             i <= poll.start /\ wish[i] \in poll.wished => wish[i] \in Brought(poll)
    BY <1>1, <1>2, <1>15 DEF NothingSlipped
  <2>2. ASSUME poll'.verdict = "complete", NEW s \in poll.wished
        PROVE  s \in Brought(poll')
    <3>1. Len(page) = 0
      BY <1>6, <1>8, <2>2 DEF Verdict
    <3>2. PICK i \in 1 .. Len(wish) : wish[i] = s
      BY <1>2, <2>1, <2>2 DEF ToSet
    <3>3. \A j \in 1 .. Len(wish) : ~(poll.start < j /\ j <= poll.start + PageSize)
      BY <1>6, <3>1
    <3>4. poll.start + 1 \notin 1 .. Len(wish)
      BY <1>3, <1>4, <3>3
    <3>5. i <= poll.start
      BY <1>2, <1>3, <3>4
    <3> QED
      BY <1>14, <2>1, <2>2, <3>2, <3>5
  <2>3. ASSUME poll'.verdict = "continue", NEW i \in 1 .. Len(wish),
               i <= poll.start + PageSize, wish[i] \in poll.wished
        PROVE  wish[i] \in Brought(poll')
    <3>1. ~(Cardinality(fresh) >= Room(poll))
      BY <1>8, <2>3 DEF Verdict, fresh
    <3>2. Cardinality(fresh) < Room(poll)
      BY <1>5, <1>7, <3>1
    <3>3. CASE i <= poll.start
      BY <1>14, <2>1, <2>3, <3>3
    <3>4. CASE poll.start < i
      <4>1. i - poll.start \in 1 .. Len(page) /\ poll.start + (i - poll.start) = i
        BY <1>3, <1>6, <2>3, <3>4
      <4>2. page[i - poll.start].subject = wish[i]
        BY <1>6, <4>1
      <4>3. i - poll.start \in DOMAIN page
        BY <1>6, <4>1
      <4>4. CASE i - poll.start \in fresh
        <5>1. page[i - poll.start] \in ToSet(poll'.items)
          BY <1>7, <1>13, <3>2, <4>4
        <5> QED
          BY <4>2, <5>1 DEF Brought
      <4>5. CASE i - poll.start \notin fresh
        <5>1. page[i - poll.start].subject \in Brought(poll)
          BY <4>3, <4>5 DEF fresh, Fresh, Brought
        <5> QED
          BY <1>14, <4>2, <5>1
      <4> QED
        BY <4>4, <4>5
    <3> QED
      BY <1>3, <3>3, <3>4
  <2> QED
    BY <1>8, <2>1, <2>2, <2>3
<1>16. NothingSlipped(poll)'
  BY <1>1, <1>8, <1>15 DEF NothingSlipped, Brought
<1> QED
  BY <1>1, <1>2, <1>11, <1>12, <1>16 DEF WishInv

\* A snapshot writes rows.
LEMMA AppliedIsRows ==
    ASSUME WishInv, poll # Null
    PROVE  /\ Applied(poll) \in [Subjects -> Rows \cup {Null}]
           /\ \A s \in Subjects :
                \/ s \in Brought(poll) /\ Applied(poll)[s] \in Rows /\ Applied(poll)[s].active
                \/ /\ s \notin Brought(poll) /\ rows[s] # Null /\ poll.verdict = "complete"
                   /\ Applied(poll)[s] = [rows[s] EXCEPT !.active = FALSE]
                \/ /\ s \notin Brought(poll) /\ ~(rows[s] # Null /\ poll.verdict = "complete")
                   /\ Applied(poll)[s] = rows[s]
<1> DEFINE items == ToSet(poll.items)
           Held(s) == {item \in items : item.subject = s}
<1>1. rows \in [Subjects -> Rows \cup {Null}] /\ poll.items \in Seq(Items)
  BY DEF WishInv, Readings
<1>2. items \subseteq Items
  BY <1>1, ElementOfSeq DEF ToSet
<1>3. Applied(poll) =
        [s \in Subjects |->
           IF Held(s) # {} THEN Seen(rows[s], CHOOSE item \in Held(s) : TRUE)
           ELSE IF rows[s] # Null /\ poll.verdict = "complete"
             THEN [rows[s] EXCEPT !.active = FALSE]
           ELSE rows[s]]
  BY DEF Applied, Completes
<1>4. \A s : Held(s) # {} <=> s \in Brought(poll)
  BY DEF Brought
<1>5. \A s \in Subjects, item \in Items :
        Seen(rows[s], item) \in Rows /\ Seen(rows[s], item).active
  BY <1>1, <1>2 DEF Seen, Rows, Items
<1> HIDE DEF items
<1>6. ASSUME NEW s \in Subjects
      PROVE  /\ Applied(poll)[s] \in Rows \cup {Null}
             /\ \/ s \in Brought(poll) /\ Applied(poll)[s] \in Rows /\ Applied(poll)[s].active
                \/ /\ s \notin Brought(poll) /\ rows[s] # Null /\ poll.verdict = "complete"
                   /\ Applied(poll)[s] = [rows[s] EXCEPT !.active = FALSE]
                \/ /\ s \notin Brought(poll) /\ ~(rows[s] # Null /\ poll.verdict = "complete")
                   /\ Applied(poll)[s] = rows[s]
  <2>1. CASE s \in Brought(poll)
    <3>1. (CHOOSE item \in Held(s) : TRUE) \in Held(s)
      BY <1>4, <2>1
    <3>2. (CHOOSE item \in Held(s) : TRUE) \in Items
      BY <1>2, <3>1
    <3>3. Applied(poll)[s] = Seen(rows[s], CHOOSE item \in Held(s) : TRUE)
      BY <1>3, <1>4, <2>1
    <3> HIDE DEF Held
    <3> QED
      BY <1>5, <2>1, <3>2, <3>3
  <2>2. CASE s \notin Brought(poll)
    <3>1. Applied(poll)[s] = IF rows[s] # Null /\ poll.verdict = "complete"
                               THEN [rows[s] EXCEPT !.active = FALSE] ELSE rows[s]
      BY <1>3, <1>4, <2>2
    <3> HIDE DEF Held
    <3>2. rows[s] # Null => [rows[s] EXCEPT !.active = FALSE] \in Rows
      BY <1>1 DEF Rows
    <3> QED
      BY <1>1, <2>2, <3>1, <3>2
  <2> QED
    BY <2>1, <2>2
<1>7. Applied(poll) \in [Subjects -> Rows \cup {Null}]
  <2>1. Applied(poll) = [s \in Subjects |-> Applied(poll)[s]]
    BY <1>3, Zenon
  <2> QED
    BY <1>6, <2>1
<1> QED
  BY <1>6, <1>7

LEMMA InitHasWishInv == Init => WishInv
<1> SUFFICES ASSUME Init
             PROVE  WishInv
  OBVIOUS
<1> DEFINE first == CHOOSE d \in Dates : \A e \in Dates : d <= e
<1>1. first \in Dates
  BY ReadingConstants, LeastOf
<1>2. date \in [Subjects -> {first}] /\ wish = FirstWish /\ poll = Null
      /\ rows = [s \in Subjects |-> Null]
  BY DEF Init
<1> HIDE DEF first
<1> QED
  BY <1>1, <1>2, ReadingConstants DEF WishInv

LEMMA StepKeepsWishInv == WishInv /\ [Next]_vars => WishInv'
<1> SUFFICES ASSUME WishInv, [Next]_vars
             PROVE  WishInv'
  OBVIOUS
<1>1. CASE \E s \in Subjects : Mark(s) \/ Unmark(s)
  BY <1>1, MarkKeepsWishInv, UnmarkKeepsWishInv
<1>2. CASE BeginPoll
  BY <1>2, BeginKeepsWishInv
<1>3. CASE FetchPage
  BY <1>3, FetchKeepsWishInv
<1>4. CASE FailPage
  BY <1>4 DEF FailPage, WishInv
<1>5. CASE ApplySnapshot
  <2>1. /\ wish' = wish /\ date' = date /\ poll' = Null /\ poll # Null
        /\ rows' = Applied(poll)
    BY <1>5 DEF ApplySnapshot
  <2>2. rows' \in [Subjects -> Rows \cup {Null}]
    BY <2>1, AppliedIsRows
  <2> QED
    BY <2>1, <2>2 DEF WishInv
<1>6. CASE \E filter \in Filters, limit \in ListLimits :
             OpenList(filter, limit) \/ NextPage(filter, limit)
  <2>1. wish' = wish /\ date' = date /\ poll' = poll /\ rows' = rows
    BY <1>6 DEF OpenList, NextPage
  <2> QED
    BY <2>1 DEF WishInv, NothingSlipped, Brought
<1>7. CASE UNCHANGED vars
  BY <1>7 DEF vars, WishInv, NothingSlipped, Brought
<1> QED
  BY <1>1, <1>2, <1>3, <1>4, <1>5, <1>6, <1>7 DEF Next

\* A poll never deactivates a subject that was on the wish list from its start
\* to its end, as long as nothing moved up meanwhile.
THEOREM WholeSnapshots == Spec => CompleteIsWhole
<1>1. Init => WishInv
  BY InitHasWishInv
<1>2. WishInv /\ [Next]_vars => WishInv'
  BY StepKeepsWishInv
<1>3. WishInv /\ [Next]_vars =>
        [poll # Null /\ poll.undisturbed =>
           \A s \in poll.wished : IsActive(s) => IsActive(s)']_vars
  <2> SUFFICES ASSUME WishInv, Next, poll # Null, poll.undisturbed,
                      NEW s \in poll.wished, IsActive(s)
               PROVE  IsActive(s)'
    BY DEF vars
  <2>1. CASE rows' = rows
    BY <2>1 DEF IsActive
  <2>2. CASE ApplySnapshot
    <3>1. rows' = Applied(poll) /\ poll.verdict # "continue" /\ s \in Subjects
      BY <2>2 DEF ApplySnapshot, WishInv, Readings
    <3>2. poll.verdict = "complete" => s \in Brought(poll)
      BY DEF WishInv, NothingSlipped
    <3>3. Null \notin Rows
      BY NullAssumption
    <3> QED
      BY <3>1, <3>2, <3>3, AppliedIsRows DEF IsActive
  <2> QED
    BY <2>1, <2>2 DEF Next, Mark, Unmark, BeginPoll, FetchPage, FailPage, OpenList, NextPage
<1> QED
  BY <1>1, <1>2, <1>3, PTL DEF Spec, CompleteIsWhole

-------------------------------------------------------------------------------
(* The reading of the stored list.                                         *)

LEMMA KeysOrdered ==
    ASSUME NEW k \in Keys, NEW l \in Keys, NEW m \in Keys
    PROVE  /\ ~Precedes(k, k)
           /\ k = l \/ Precedes(k, l) \/ Precedes(l, k)
           /\ Precedes(k, l) /\ Precedes(l, m) => Precedes(k, m)
           /\ Precedes(k, l) => ~Precedes(l, k)
<1>1. Subjects \subseteq Int /\ Dates \subseteq Int /\ Null \notin Dates
  BY ReadingConstants
<1>2. \A x \in {k, l, m} : x.subject \in Int /\ (x.sort # Null => x.sort \in Int)
  BY <1>1 DEF Keys
<1>3. k.sort = l.sort /\ k.subject = l.subject => k = l
  BY DEF Keys
<1> QED
  BY <1>2, <1>3 DEF Precedes

StoredRows == {s \in Subjects : rows[s] # Null}

LEMMA KeyOfRow ==
    ASSUME WishInv, NEW s \in StoredRows
    PROVE  Key(s) \in Keys /\ Key(s) # Null /\ Key(s).subject = s
           /\ rows[s] \in Rows
<1>1. rows[s] \in Rows /\ s \in Subjects
  BY DEF WishInv, StoredRows
<1>2. Key(s) \in Keys /\ Key(s).subject = s
  BY <1>1 DEF Key, Keys, Rows
<1> QED
  BY <1>1, <1>2, NullAssumption

\* The order of the stored list on a set of rows.
Listing(S) == {q \in S \X S : Precedes(Key(q[1]), Key(q[2]))}

LEMMA ListingOrders ==
    ASSUME WishInv, NEW S \in SUBSET StoredRows
    PROVE  /\ IsFiniteSet(S) /\ Cardinality(S) \in Nat
           /\ Orders(Listing(S), S)
           /\ \A s, t \in S : <<s, t>> \in Listing(S) <=> Precedes(Key(s), Key(t))
           /\ \A s \in S : Rank(s, S) = RankBy(s, S, Listing(S))
<1>1. IsFiniteSet(S) /\ Cardinality(S) \in Nat
  BY ReadingConstants, FS_Subset, FS_CardinalityType DEF StoredRows
<1>2. \A s, t \in S : <<s, t>> \in Listing(S) <=> Precedes(Key(s), Key(t))
  BY DEF Listing
<1>3. \A s \in S : Key(s) \in Keys /\ Key(s).subject = s
  BY KeyOfRow
<1>4. Orders(Listing(S), S)
  <2>1. \A s \in S : <<s, s>> \notin Listing(S)
    BY <1>2, <1>3, KeysOrdered
  <2>2. \A s, t \in S : s = t \/ <<s, t>> \in Listing(S) \/ <<t, s>> \in Listing(S)
    <3> TAKE s, t \in S
    <3>1. Key(s) = Key(t) => s = t
      BY <1>3
    <3>2. Key(s) = Key(t) \/ Precedes(Key(s), Key(t)) \/ Precedes(Key(t), Key(s))
      BY <1>3, KeysOrdered
    <3> QED
      BY <1>2, <3>1, <3>2
  <2>3. \A s, t, u \in S :
          <<s, t>> \in Listing(S) /\ <<t, u>> \in Listing(S) => <<s, u>> \in Listing(S)
    <3> TAKE s, t, u \in S
    <3>1. Precedes(Key(s), Key(t)) /\ Precedes(Key(t), Key(u)) => Precedes(Key(s), Key(u))
      BY <1>3, KeysOrdered
    <3> QED
      BY <1>2, <3>1
  <2> QED
    BY <2>1, <2>2, <2>3 DEF Orders
<1>5. \A s \in S : Rank(s, S) = RankBy(s, S, Listing(S))
  <2> TAKE s \in S
  <2>1. Before(s, S, Listing(S)) = {t \in S : Precedes(Key(t), Key(s))}
    BY <1>2 DEF Before
  <2> QED
    BY <2>1 DEF RankBy, Rank
<1> QED
  BY <1>1, <1>2, <1>4, <1>5

\* Ranks among rows follow the order of the list, and those below the size of
\* the set are taken.
LEMMA RanksOfRows ==
    ASSUME WishInv, NEW S \in SUBSET StoredRows
    PROVE  /\ Cardinality(S) \in Nat
           /\ \A s \in S : Rank(s, S) \in 0 .. Cardinality(S) - 1
           /\ \A s, t \in S : Precedes(Key(s), Key(t)) <=> Rank(s, S) < Rank(t, S)
           /\ \A s, t \in S : Rank(s, S) = Rank(t, S) => s = t
           /\ \A k \in 0 .. Cardinality(S) - 1 : \E s \in S : Rank(s, S) = k
<1>1. /\ IsFiniteSet(S) /\ Cardinality(S) \in Nat
      /\ Orders(Listing(S), S)
      /\ \A s, t \in S : <<s, t>> \in Listing(S) <=> Precedes(Key(s), Key(t))
      /\ \A s \in S : Rank(s, S) = RankBy(s, S, Listing(S))
  BY ListingOrders
<1>2. \A s, t \in S :
        /\ RankBy(s, S, Listing(S)) \in 0 .. Cardinality(S) - 1
        /\ <<s, t>> \in Listing(S) <=> RankBy(s, S, Listing(S)) < RankBy(t, S, Listing(S))
        /\ RankBy(s, S, Listing(S)) = RankBy(t, S, Listing(S)) => s = t
  BY <1>1, RankFollowsOrder
<1>3. \A k \in 0 .. Cardinality(S) - 1 : \E s \in S : RankBy(s, S, Listing(S)) = k
  BY <1>1, RanksAreTaken
<1> QED
  BY <1>1, <1>2, <1>3

\* Rows in order: each once, at the place its rank says.
LEMMA InOrderIs ==
    ASSUME WishInv, NEW S \in SUBSET StoredRows
    PROVE  /\ InOrder(S) \in Seq(S) /\ Len(InOrder(S)) = Cardinality(S)
           /\ \A i \in 1 .. Cardinality(S) :
                InOrder(S)[i] \in S /\ Rank(InOrder(S)[i], S) = i - 1
           /\ \A s \in S : /\ Rank(s, S) + 1 \in 1 .. Cardinality(S)
                           /\ \A i \in 1 .. Cardinality(S) :
                                InOrder(S)[i] = s <=> i = Rank(s, S) + 1
<1>1. /\ IsFiniteSet(S) /\ Cardinality(S) \in Nat
      /\ Orders(Listing(S), S)
      /\ \A s \in S : Rank(s, S) = RankBy(s, S, Listing(S))
  BY ListingOrders
<1>2. \A i \in 1 .. Cardinality(S) : InOrder(S)[i] = Ranked(S, Listing(S))[i]
  <2> TAKE i \in 1 .. Cardinality(S)
  <2>1. InOrder(S)[i] = CHOOSE s \in S : Rank(s, S) = i - 1
    BY DEF InOrder
  <2>2. Ranked(S, Listing(S))[i] = CHOOSE s \in S : RankBy(s, S, Listing(S)) = i - 1
    BY DEF Ranked
  <2>3. (CHOOSE s \in S : Rank(s, S) = i - 1)
        = (CHOOSE s \in S : RankBy(s, S, Listing(S)) = i - 1)
    BY <1>1
  <2> QED
    BY <2>1, <2>2, <2>3
<1>3. /\ DOMAIN Ranked(S, Listing(S)) = 1 .. Cardinality(S)
      /\ \A i \in 1 .. Cardinality(S) :
           Ranked(S, Listing(S))[i] \in S
           /\ RankBy(Ranked(S, Listing(S))[i], S, Listing(S)) = i - 1
      /\ \A s \in S : /\ RankBy(s, S, Listing(S)) + 1 \in 1 .. Cardinality(S)
                      /\ \A i \in 1 .. Cardinality(S) :
                           Ranked(S, Listing(S))[i] = s <=> i = RankBy(s, S, Listing(S)) + 1
  BY <1>1, RankedIsS
<1>4. InOrder(S) \in [1 .. Cardinality(S) -> S]
  <2>1. InOrder(S) = [i \in 1 .. Cardinality(S) |-> InOrder(S)[i]]
    BY DEF InOrder
  <2> QED
    BY <1>2, <1>3, <2>1
<1>5. InOrder(S) \in Seq(S) /\ Len(InOrder(S)) = Cardinality(S)
  BY <1>1, <1>4, FunctionIsSequence
<1> QED
  BY <1>1, <1>2, <1>3, <1>5

\* A row that is not among the first n follows n that are.
LEMMA FirstOfIs ==
    ASSUME WishInv, NEW S \in SUBSET StoredRows, NEW n \in Nat
    PROVE  /\ FirstOf(S, n) \in SUBSET S
           /\ \A s \in S \ FirstOf(S, n) :
                /\ \A t \in FirstOf(S, n) : Precedes(Key(t), Key(s))
                /\ Cardinality(FirstOf(S, n)) \in Nat
                /\ n <= Cardinality(FirstOf(S, n))
<1> DEFINE F == FirstOf(S, n)
<1>1. F \in SUBSET S /\ F \in SUBSET StoredRows
  BY DEF FirstOf
<1>2. ASSUME NEW s \in S \ F
      PROVE  /\ \A t \in F : Precedes(Key(t), Key(s))
             /\ Cardinality(F) \in Nat /\ n <= Cardinality(F)
  <2>1. Rank(s, S) \in 0 .. Cardinality(S) - 1 /\ Cardinality(S) \in Nat /\ ~(Rank(s, S) < n)
    BY <1>2, RanksOfRows DEF FirstOf
  <2>2. \A t \in F : Precedes(Key(t), Key(s))
    <3> TAKE t \in F
    <3>1. t \in S /\ Rank(t, S) < n /\ Rank(t, S) \in 0 .. Cardinality(S) - 1
      BY RanksOfRows DEF FirstOf
    <3>2. Rank(t, S) < Rank(s, S)
      BY <2>1, <3>1
    <3> QED
      BY <1>2, <3>1, <3>2, RanksOfRows
  <2>3. IsFiniteSet(F) /\ Cardinality(F) \in Nat
    BY <1>1, ListingOrders
  <2> DEFINE nth == [k \in 0 .. n - 1 |-> CHOOSE t \in S : Rank(t, S) = k]
  <2>4. \A k \in 0 .. n - 1 : nth[k] \in F /\ Rank(nth[k], S) = k
    <3> TAKE k \in 0 .. n - 1
    <3>1. k \in 0 .. Cardinality(S) - 1 /\ k < n
      BY <2>1
    <3>2. \E t \in S : Rank(t, S) = k
      BY <3>1, RanksOfRows
    <3>3. nth[k] = CHOOSE t \in S : Rank(t, S) = k
      OBVIOUS
    <3> HIDE DEF nth
    <3>4. nth[k] \in S /\ Rank(nth[k], S) = k
      BY <3>2, <3>3
    <3> QED
      BY <3>1, <3>4 DEF FirstOf
  <2>5. nth \in [0 .. n - 1 -> F]
    BY <2>4
  <2> HIDE DEF nth
  <2>6. nth \in Injection(0 .. n - 1, F)
    BY <2>4, <2>5 DEF Injection, IsInjective
  <2>7. Cardinality(0 .. n - 1) = n
    BY FS_Interval
  <2>8. Cardinality(0 .. n - 1) <= Cardinality(F)
    BY <2>3, <2>6, FS_Injection
  <2> QED
    BY <2>2, <2>3, <2>7, <2>8
<1> QED
  BY <1>1, <1>2

\* What a list still has to show past a cursor, and its partitions.
Ahead(filter, cursor) ==
    {s \in StoredRows : rows[s].active \in filter /\ Past(Key(s), cursor)}

Part(q, cursor) ==
    {s \in StoredRows : /\ rows[s].active = q[1]
                        /\ (rows[s].sort # Null) = q[2]
                        /\ Past(Key(s), cursor)}

LEMMA SegmentsOfAhead ==
    ASSUME WishInv, NEW filter \in Filters, NEW cursor \in Keys \cup {Null}
    PROVE  /\ \A q \in Segments(filter, cursor) : Part(q, cursor) \in SUBSET Ahead(filter, cursor)
           /\ \A s \in Ahead(filter, cursor) :
                \E q \in Segments(filter, cursor) : s \in Part(q, cursor)
           /\ \A q, bound : Segment(q[1], q[2], cursor, bound) = FirstOf(Part(q, cursor), bound)
<1> DEFINE kinds == IF cursor # Null /\ cursor.sort = Null THEN {FALSE} ELSE BOOLEAN
<1>1. Segments(filter, cursor) = filter \X kinds /\ filter \subseteq BOOLEAN
  BY DEF Segments, Filters
<1>2. \A q \in Segments(filter, cursor) : Part(q, cursor) \in SUBSET Ahead(filter, cursor)
  BY <1>1 DEF Part, Ahead
<1>3. ASSUME NEW s \in Ahead(filter, cursor)
      PROVE  \E q \in Segments(filter, cursor) : s \in Part(q, cursor)
  <2> DEFINE q == <<rows[s].active, rows[s].sort # Null>>
  <2>1. s \in StoredRows /\ rows[s].active \in filter /\ Past(Key(s), cursor)
    BY DEF Ahead
  <2>2. (rows[s].sort # Null) \in kinds
    <3>1. cursor # Null /\ cursor.sort = Null => rows[s].sort = Null
      BY <2>1 DEF Past, Precedes, Key
    <3> QED
      BY <3>1
  <2>3. q \in Segments(filter, cursor)
    BY <1>1, <2>1, <2>2
  <2>4. s \in Part(q, cursor)
    BY <2>1 DEF Part
  <2> QED
    BY <2>3, <2>4
<1>4. ASSUME NEW q, NEW bound
      PROVE  Segment(q[1], q[2], cursor, bound) = FirstOf(Part(q, cursor), bound)
  <2>1. {s \in Subjects : /\ rows[s] # Null /\ rows[s].active = q[1]
                          /\ (rows[s].sort # Null) = q[2] /\ Past(Key(s), cursor)}
        = Part(q, cursor)
    BY DEF Part, StoredRows
  <2> QED
    BY <2>1 DEF Segment
<1> QED
  BY <1>2, <1>3, <1>4

\* A page is what the list has up to the next cursor, in order; without a next
\* cursor it is all the list still has.
LEMMA ListPageIs ==
    ASSUME WishInv, NEW filter \in Filters, NEW cursor \in Keys \cup {Null},
           NEW limit \in ListLimits
    PROVE  LET page == ListPage(filter, cursor, limit)
           IN  \E shown \in SUBSET Ahead(filter, cursor) :
                 /\ page.items = InOrder(shown)
                 /\ \/ page.next = Null /\ shown = Ahead(filter, cursor)
                    \/ /\ page.next \in Keys /\ page.next # Null /\ Past(page.next, cursor)
                       /\ \A s \in Ahead(filter, cursor) :
                            s \in shown <=> ~Past(Key(s), page.next)
<1> DEFINE ahead == Ahead(filter, cursor)
           parts == Segments(filter, cursor)
           bound == limit + 1
           found == UNION {Segment(q[1], q[2], cursor, bound) : q \in parts}
           F == FirstOf(found, limit)
           page == ListPage(filter, cursor, limit)
<1>1. limit \in Nat /\ 1 <= limit /\ bound \in Nat
  BY ReadingConstants
<1>2. ahead \in SUBSET StoredRows
  BY DEF Ahead
<1>3. /\ page.items = InOrder(F)
      /\ page.next = IF Cardinality(found) > limit THEN Key(Last(InOrder(F))) ELSE Null
  BY DEF ListPage
<1>4. /\ \A q \in parts : Part(q, cursor) \in SUBSET ahead
      /\ \A s \in ahead : \E q \in parts : s \in Part(q, cursor)
      /\ \A q : Segment(q[1], q[2], cursor, bound) = FirstOf(Part(q, cursor), bound)
  BY SegmentsOfAhead
<1> HIDE DEF page, parts, ahead
<1>5. \A q \in parts : FirstOf(Part(q, cursor), bound) \subseteq found
  <2> TAKE q \in parts
  <2>1. Segment(q[1], q[2], cursor, bound) \subseteq found
    OBVIOUS
  <2> QED
    BY <1>4, <2>1
<1>6. found \in SUBSET ahead
  <2> SUFFICES ASSUME NEW q \in parts, NEW s \in Segment(q[1], q[2], cursor, bound)
               PROVE  s \in ahead
    OBVIOUS
  <2>1. s \in FirstOf(Part(q, cursor), bound)
    BY <1>4
  <2>2. s \in Part(q, cursor)
    BY <2>1 DEF FirstOf
  <2> QED
    BY <1>4, <2>2
<1> HIDE DEF found
\* A row that no query found follows more found rows than the page takes.
<1>7. ASSUME NEW s \in ahead \ found
      PROVE  \E W \in SUBSET found :
               /\ \A t \in W : Precedes(Key(t), Key(s))
               /\ Cardinality(W) \in Nat /\ limit + 1 <= Cardinality(W)
  <2>1. PICK q \in parts : s \in Part(q, cursor)
    BY <1>4, <1>7
  <2> DEFINE W == FirstOf(Part(q, cursor), bound)
  <2>2. Part(q, cursor) \in SUBSET StoredRows /\ W \in SUBSET found /\ s \notin W
    BY <1>2, <1>4, <1>5, <1>7, <2>1
  <2>3. /\ \A t \in W : Precedes(Key(t), Key(s))
        /\ Cardinality(W) \in Nat /\ bound <= Cardinality(W)
    BY <1>1, <2>1, <2>2, FirstOfIs
  <2> HIDE DEF W
  <2> QED
    BY <2>2, <2>3
<1> HIDE DEF F
<1>8. /\ found \in SUBSET StoredRows /\ F \in SUBSET found /\ F \in SUBSET ahead
      /\ F \in SUBSET StoredRows /\ IsFiniteSet(found) /\ IsFiniteSet(F)
      /\ Cardinality(found) \in Nat /\ Cardinality(F) \in Nat
  <2>1. F \in SUBSET found /\ found \in SUBSET StoredRows
    BY <1>2, <1>6 DEF F, FirstOf
  <2> QED
    BY <1>2, <1>6, <2>1, ListingOrders
<1>9. \A s \in found : Rank(s, found) \in 0 .. Cardinality(found) - 1
  BY <1>8, RanksOfRows
<1>10. \A s \in found : s \in F <=> Rank(s, found) < limit
  BY DEF F, FirstOf
<1>11. CASE ~(Cardinality(found) > limit)
  <2>1. ahead \ found = {}
    <3> SUFFICES ASSUME NEW s \in ahead \ found
                 PROVE  FALSE
      OBVIOUS
    <3>1. PICK W \in SUBSET found : Cardinality(W) \in Nat /\ limit + 1 <= Cardinality(W)
      BY <1>7
    <3>2. Cardinality(W) <= Cardinality(found)
      BY <1>8, FS_Subset
    <3> QED
      BY <1>1, <1>8, <1>11, <3>1, <3>2
  <2>2. found \subseteq F
    BY <1>1, <1>8, <1>9, <1>10, <1>11
  <2>3. F = ahead
    BY <1>6, <1>8, <2>1, <2>2
  <2> QED
    BY <1>3, <1>8, <1>11, <2>3 DEF page, ahead
<1>12. CASE Cardinality(found) > limit
  <2> DEFINE n == Cardinality(F)
             z == InOrder(F)[n]
  <2>1. /\ InOrder(F) \in Seq(F) /\ Len(InOrder(F)) = n
        /\ \A i \in 1 .. n : InOrder(F)[i] \in F /\ Rank(InOrder(F)[i], F) = i - 1
    BY <1>8, InOrderIs
  <2>2. 1 <= n
    <3>1. 0 \in 0 .. Cardinality(found) - 1
      BY <1>1, <1>8, <1>12
    <3>2. PICK s \in found : Rank(s, found) = 0
      BY <1>8, <3>1, RanksOfRows
    <3>3. s \in F
      BY <1>1, <1>10, <3>2
    <3>4. n # 0
      BY <1>8, <3>3, FS_EmptySet
    <3> QED
      BY <1>8, <3>4
  <2>3. n \in 1 .. n
    BY <1>8, <2>2
  <2>4. z \in F /\ Rank(z, F) = n - 1 /\ z = Last(InOrder(F))
    BY <2>1, <2>3 DEF Last
  <2> HIDE DEF z
  <2>5. z \in ahead /\ z \in StoredRows /\ z \in found
    BY <1>8, <2>4
  <2>6. page.next = Key(z) /\ Key(z) \in Keys /\ Key(z) # Null
    BY <1>3, <1>12, <2>4, <2>5, KeyOfRow
  <2>7. Past(page.next, cursor)
    BY <2>5, <2>6 DEF ahead, Ahead
  <2>8. ASSUME NEW s \in F
        PROVE  ~Precedes(Key(z), Key(s))
    <3>1. Rank(s, F) \in 0 .. n - 1
      BY <1>8, RanksOfRows
    <3>2. ~(Rank(z, F) < Rank(s, F))
      BY <1>8, <2>4, <3>1
    <3> QED
      BY <1>8, <2>4, <3>2, RanksOfRows
  <2>9. ASSUME NEW s \in found \ F
        PROVE  Precedes(Key(z), Key(s))
    <3>1. /\ Rank(z, found) \in 0 .. Cardinality(found) - 1 /\ Rank(z, found) < limit
          /\ Rank(s, found) \in 0 .. Cardinality(found) - 1 /\ ~(Rank(s, found) < limit)
      BY <1>9, <1>10, <2>4, <2>5
    <3>2. Rank(z, found) < Rank(s, found)
      BY <1>1, <1>8, <3>1
    <3> QED
      BY <1>8, <2>5, <3>2, RanksOfRows
  <2>10. ASSUME NEW s \in ahead \ found
         PROVE  Precedes(Key(z), Key(s))
    <3> SUFFICES ASSUME ~Precedes(Key(z), Key(s))
                 PROVE  FALSE
      OBVIOUS
    <3>1. PICK W \in SUBSET found : /\ \A t \in W : Precedes(Key(t), Key(s))
                                    /\ Cardinality(W) \in Nat /\ limit + 1 <= Cardinality(W)
      BY <1>7
    <3>2. s \in StoredRows /\ Key(s) \in Keys /\ Key(z) \in Keys /\ Key(s) # Key(z)
      <4>1. s \in StoredRows /\ s # z
        BY <1>2, <2>5
      <4> QED
        BY <2>5, <4>1, KeyOfRow
    <3>3. Precedes(Key(s), Key(z))
      BY <3>2, KeysOrdered
    <3>4. \A t \in W : Precedes(Key(t), Key(z))
      <4> TAKE t \in W
      <4>1. Key(t) \in Keys /\ Precedes(Key(t), Key(s))
        BY <1>8, <3>1, KeyOfRow
      <4> QED
        BY <3>2, <3>3, <4>1, KeysOrdered
    <3> DEFINE B == {t \in found : Precedes(Key(t), Key(z))}
    <3>5. W \in SUBSET B /\ B \in SUBSET found
      BY <3>4
    <3>6. IsFiniteSet(B) /\ Cardinality(B) \in Nat
      BY <1>8, <3>5, FS_Subset, FS_CardinalityType
    <3>7. Cardinality(W) <= Cardinality(B)
      BY <3>5, <3>6, FS_Subset
    <3>8. Rank(z, found) = Cardinality(B) /\ Rank(z, found) < limit
      BY <1>10, <2>4, <2>5 DEF Rank
    <3> QED
      BY <1>1, <3>1, <3>6, <3>7, <3>8
  <2>11. \A s \in ahead : s \in F <=> ~Past(Key(s), page.next)
    BY <2>6, <2>8, <2>9, <2>10 DEF Past
  <2> QED
    BY <1>3, <1>8, <2>6, <2>7, <2>11 DEF page, ahead
<1> QED
  BY <1>11, <1>12

-------------------------------------------------------------------------------
(* The client's way.  What it has been shown is, of the rows that have not  *)
(* changed, what its filter takes up to its cursor.                        *)

Visits ==
    [filter : Filters, cursor : Cursors \cup {Null}, ended : BOOLEAN,
     shown : Seq(Subjects), still : SUBSET Subjects]

\* The client is past a row.
Passed(v, s) == v.ended \/ (v.cursor # Null /\ ~Past(Key(s), v.cursor.key))

OnceIn(seq, s) ==
    \E i \in DOMAIN seq : seq[i] = s /\ \A j \in DOMAIN seq : seq[j] = s => j = i

NeverIn(seq, s) == \A i \in DOMAIN seq : seq[i] # s

Met(v, s) ==
    IF rows[s].active \in v.filter /\ Passed(v, s) THEN OnceIn(v.shown, s)
                                                   ELSE NeverIn(v.shown, s)

\* A way on which the rows met are right: what `visit` is, and what OpenList
\* starts from.
Right(v) ==
    /\ v \in Visits
    /\ \A s \in v.still : s \in StoredRows /\ Met(v, s)

VisitInv == visit # Null => Right(visit)

LEMMA OnceInConcat ==
    ASSUME NEW S, NEW a \in Seq(S), NEW b \in Seq(S), NEW s
    PROVE  /\ NeverIn(a, s) /\ NeverIn(b, s) => NeverIn(a \o b, s)
           /\ OnceIn(a, s) /\ NeverIn(b, s) => OnceIn(a \o b, s)
           /\ NeverIn(a, s) /\ OnceIn(b, s) => OnceIn(a \o b, s)
<1>1. /\ Len(a) \in Nat /\ Len(b) \in Nat
      /\ DOMAIN a = 1 .. Len(a) /\ DOMAIN b = 1 .. Len(b)
  BY LenProperties
<1>2. /\ a \o b \in Seq(S) /\ Len(a \o b) = Len(a) + Len(b)
      /\ \A i \in 1 .. Len(a) + Len(b) :
           (a \o b)[i] = IF i <= Len(a) THEN a[i] ELSE b[i - Len(a)]
  BY ConcatProperties
<1> DEFINE ab == a \o b
<1>3. DOMAIN ab = 1 .. Len(a) + Len(b)
  BY <1>2, LenProperties
<1>4. \A i \in 1 .. Len(a) + Len(b) :
        \/ i \in 1 .. Len(a) /\ ab[i] = a[i]
        \/ ~(i <= Len(a)) /\ i - Len(a) \in 1 .. Len(b) /\ ab[i] = b[i - Len(a)]
  BY <1>1, <1>2
<1>5. \A i \in 1 .. Len(a) : i \in 1 .. Len(a) + Len(b) /\ ab[i] = a[i]
  BY <1>1, <1>2
<1>6. \A i \in 1 .. Len(b) : i + Len(a) \in 1 .. Len(a) + Len(b) /\ ab[i + Len(a)] = b[i]
  <2> TAKE i \in 1 .. Len(b)
  <2>1. /\ i + Len(a) \in 1 .. Len(a) + Len(b) /\ ~(i + Len(a) <= Len(a))
        /\ (i + Len(a)) - Len(a) = i
    BY <1>1
  <2> QED
    BY <1>2, <2>1
<1> HIDE DEF ab
<1>7. NeverIn(a, s) /\ NeverIn(b, s) => NeverIn(ab, s)
  BY <1>1, <1>3, <1>4 DEF NeverIn
<1>8. ASSUME OnceIn(a, s), NeverIn(b, s)
      PROVE  OnceIn(ab, s)
  <2>1. PICK i \in 1 .. Len(a) : a[i] = s /\ \A j \in 1 .. Len(a) : a[j] = s => j = i
    BY <1>1, <1>8 DEF OnceIn
  <2>2. i \in DOMAIN ab /\ ab[i] = s
    BY <1>3, <1>5, <2>1
  <2>3. \A j \in DOMAIN ab : ab[j] = s => j = i
    BY <1>1, <1>3, <1>4, <1>8, <2>1 DEF NeverIn
  <2> QED
    BY <2>2, <2>3 DEF OnceIn
<1>9. ASSUME NeverIn(a, s), OnceIn(b, s)
      PROVE  OnceIn(ab, s)
  <2>1. PICK i \in 1 .. Len(b) : b[i] = s /\ \A j \in 1 .. Len(b) : b[j] = s => j = i
    BY <1>1, <1>9 DEF OnceIn
  <2>2. i + Len(a) \in DOMAIN ab /\ ab[i + Len(a)] = s
    BY <1>3, <1>6, <2>1
  <2>3. \A j \in DOMAIN ab : ab[j] = s => j - Len(a) = i
    BY <1>1, <1>3, <1>4, <1>9, <2>1 DEF NeverIn
  <2>4. \A j \in DOMAIN ab : ab[j] = s => j = i + Len(a)
    BY <1>1, <1>3, <2>3
  <2> QED
    BY <2>2, <2>4 DEF OnceIn
<1> QED
  BY <1>7, <1>8, <1>9 DEF ab

LEMMA OnceInOrder ==
    ASSUME WishInv, NEW S \in SUBSET StoredRows, NEW s
    PROVE  /\ InOrder(S) \in Seq(Subjects)
           /\ IF s \in S THEN OnceIn(InOrder(S), s) ELSE NeverIn(InOrder(S), s)
<1>1. /\ InOrder(S) \in Seq(S) /\ DOMAIN InOrder(S) = 1 .. Cardinality(S)
      /\ \A i \in 1 .. Cardinality(S) : InOrder(S)[i] \in S
      /\ \A r \in S : /\ Rank(r, S) + 1 \in 1 .. Cardinality(S)
                      /\ \A i \in 1 .. Cardinality(S) :
                           InOrder(S)[i] = r <=> i = Rank(r, S) + 1
  <2>1. DOMAIN InOrder(S) = 1 .. Cardinality(S)
    BY DEF InOrder
  <2> QED
    BY <2>1, InOrderIs
<1>2. InOrder(S) \in Seq(Subjects)
  BY <1>1, SeqMonotonic DEF StoredRows
<1>3. s \in S => OnceIn(InOrder(S), s)
  BY <1>1 DEF OnceIn
<1>4. s \notin S => NeverIn(InOrder(S), s)
  BY <1>1 DEF NeverIn
<1> QED
  BY <1>2, <1>3, <1>4

\* One more page leaves the way right.
LEMMA AdvancedIsRight ==
    ASSUME WishInv, NEW v, Right(v), v.ended = FALSE, NEW limit \in ListLimits
    PROVE  Right(Advanced(v, limit))
<1> DEFINE cursor == Position(v.cursor)
           page == ListPage(v.filter, cursor, limit)
           w == Advanced(v, limit)
           ahead == Ahead(v.filter, cursor)
<1>1. /\ v \in Visits /\ v.filter \in Filters /\ v.cursor \in Cursors \cup {Null}
      /\ v.shown \in Seq(Subjects) /\ v.still \in SUBSET Subjects
  BY DEF Right, Visits
<1>2. /\ cursor \in Keys \cup {Null}
      /\ cursor = Null <=> v.cursor = Null
      /\ v.cursor # Null => cursor = v.cursor.key
  BY <1>1, NullAssumption DEF Position, Cursors
<1>3. w = [v EXCEPT !.shown = @ \o page.items, !.cursor = Encoded(page.next, v.filter),
                    !.ended = page.next = Null]
  BY DEF Advanced
<1> HIDE DEF cursor, page, w
<1>4. PICK shown \in SUBSET ahead :
        /\ page.items = InOrder(shown)
        /\ \/ page.next = Null /\ shown = ahead
           \/ /\ page.next \in Keys /\ page.next # Null /\ Past(page.next, cursor)
              /\ \A s \in ahead : s \in shown <=> ~Past(Key(s), page.next)
  BY <1>1, <1>2, ListPageIs DEF page
<1>5. shown \in SUBSET StoredRows
  BY DEF Ahead
<1>6. page.items \in Seq(Subjects)
  BY <1>4, <1>5, OnceInOrder
<1>7. Encoded(page.next, v.filter) \in Cursors \cup {Null}
  BY <1>1, <1>4 DEF Encoded, Cursors, Scope
<1>8. /\ w.filter = v.filter /\ w.still = v.still /\ w.shown = v.shown \o page.items
      /\ w.cursor = Encoded(page.next, v.filter) /\ w.ended = (page.next = Null)
  BY <1>1, <1>3 DEF Visits
<1>9. w \in Visits
  <2>1. v.shown \o page.items \in Seq(Subjects)
    BY <1>1, <1>6, ConcatProperties
  <2> QED
    BY <1>1, <1>3, <1>7, <2>1 DEF Visits
<1>10. ASSUME NEW s \in v.still
       PROVE  s \in StoredRows /\ Met(w, s)
  <2>1. s \in StoredRows /\ Met(v, s) /\ Key(s) \in Keys
    BY <1>10, KeyOfRow DEF Right
  <2>2. Passed(w, s) <=> page.next = Null \/ ~Past(Key(s), page.next)
    <3>1. page.next # Null => w.cursor # Null /\ w.cursor.key = page.next
      <4>1. page.next # Null => w.cursor = [scope |-> v.filter, key |-> page.next]
        BY <1>8 DEF Encoded, Scope
      <4>2. page.next # Null => [scope |-> v.filter, key |-> page.next] \in Cursors
        BY <1>1, <1>4 DEF Cursors
      <4> QED
        BY <4>1, <4>2, NullAssumption
    <3>2. page.next = Null => w.ended = TRUE
      BY <1>8
    <3>3. page.next # Null => w.ended = FALSE
      BY <1>8
    <3> QED
      BY <3>1, <3>2, <3>3 DEF Passed
  <2>3. Passed(v, s) <=> ~Past(Key(s), cursor)
    BY <1>2 DEF Passed, Past
  <2>4. s \in ahead <=> rows[s].active \in v.filter /\ ~Passed(v, s)
    BY <2>1, <2>3 DEF Ahead
  <2>5. IF s \in shown THEN OnceIn(page.items, s) ELSE NeverIn(page.items, s)
    BY <1>4, <1>5, OnceInOrder
  <2>6. CASE rows[s].active \notin v.filter
    <3>1. NeverIn(v.shown, s) /\ NeverIn(page.items, s)
      BY <2>1, <2>4, <2>5, <2>6 DEF Met
    <3>2. NeverIn(w.shown, s)
      BY <1>1, <1>6, <1>8, <3>1, OnceInConcat
    <3> QED
      BY <1>8, <2>1, <2>6, <3>2 DEF Met
  <2>7. CASE rows[s].active \in v.filter /\ Passed(v, s)
    <3>1. OnceIn(v.shown, s) /\ NeverIn(page.items, s)
      BY <2>1, <2>4, <2>5, <2>7 DEF Met
    <3>2. OnceIn(w.shown, s)
      BY <1>1, <1>6, <1>8, <3>1, OnceInConcat
    <3>3. Passed(w, s)
      <4>1. cursor # Null /\ cursor \in Keys /\ ~Precedes(cursor, Key(s))
        BY <1>2, <2>3, <2>7 DEF Past
      <4>2. ASSUME page.next # Null
            PROVE  ~Past(Key(s), page.next)
        <5>1. page.next \in Keys /\ Precedes(cursor, page.next)
          BY <1>4, <4>1, <4>2 DEF Past
        <5>2. ~Precedes(page.next, Key(s))
          BY <2>1, <4>1, <5>1, KeysOrdered
        <5> QED
          BY <4>2, <5>2 DEF Past
      <4> QED
        BY <2>2, <4>2
    <3> QED
      BY <1>8, <2>1, <2>7, <3>2, <3>3 DEF Met
  <2>8. CASE rows[s].active \in v.filter /\ ~Passed(v, s)
    <3>1. NeverIn(v.shown, s) /\ s \in ahead
      BY <2>1, <2>4, <2>8 DEF Met
    <3>2. s \in shown <=> Passed(w, s)
      BY <1>4, <2>2, <3>1
    <3>3. CASE s \in shown
      <4>1. OnceIn(w.shown, s)
        BY <1>1, <1>6, <1>8, <2>5, <3>1, <3>3, OnceInConcat
      <4> QED
        BY <1>8, <2>1, <2>8, <3>2, <3>3, <4>1 DEF Met
    <3>4. CASE s \notin shown
      <4>1. NeverIn(w.shown, s)
        BY <1>1, <1>6, <1>8, <2>5, <3>1, <3>4, OnceInConcat
      <4> QED
        BY <1>8, <2>1, <2>8, <3>2, <3>4, <4>1 DEF Met
    <3> QED
      BY <3>3, <3>4
  <2> QED
    BY <2>6, <2>7, <2>8
<1> QED
  BY <1>8, <1>9, <1>10 DEF Right, w

\* A way as it begins: nothing shown, nothing passed.
LEMMA BeginningIsRight ==
    ASSUME WishInv, NEW filter \in Filters
    PROVE  Right([filter |-> filter, cursor |-> Null, ended |-> FALSE, shown |-> <<>>,
                  still |-> {s \in Subjects : rows[s] # Null}])
<1> DEFINE none == <<>>
           v == [filter |-> filter, cursor |-> Null, ended |-> FALSE, shown |-> none,
                 still |-> {s \in Subjects : rows[s] # Null}]
<1>1. none \in Seq(Subjects) /\ \A s : NeverIn(none, s)
  BY DEF NeverIn
<1> HIDE DEF none
<1>2. v \in Visits
  BY <1>1 DEF Visits
<1>3. \A s \in v.still : s \in StoredRows /\ Met(v, s)
  BY <1>1 DEF StoredRows, Met, Passed
<1> HIDE DEF v
<1>4. Right(v)
  BY <1>2, <1>3 DEF Right
<1> QED
  BY <1>4 DEF v, none

LEMMA StepKeepsVisitInv ==
    ASSUME WishInv, VisitInv, [Next]_vars
    PROVE  VisitInv'
<1>1. CASE visit' = visit /\ rows' = rows
  BY <1>1 DEF VisitInv, Right, StoredRows, Met, Passed, Key
<1>2. ASSUME NEW filter \in Filters, NEW limit \in ListLimits, OpenList(filter, limit)
      PROVE  VisitInv'
  <2> DEFINE v == [filter |-> filter, cursor |-> Null, ended |-> FALSE, shown |-> <<>>,
                   still |-> {s \in Subjects : rows[s] # Null}]
  <2>1. visit' = Advanced(v, limit) /\ rows' = rows
    BY <1>2 DEF OpenList
  <2>2. Right(v) /\ v.ended = FALSE
    BY BeginningIsRight
  <2> HIDE DEF v
  <2>3. Right(Advanced(v, limit))
    BY <2>2, AdvancedIsRight
  <2> DEFINE w == Advanced(v, limit)
  <2>4. Right(w) /\ visit' = w
    BY <2>1, <2>3
  <2> HIDE DEF w
  <2>5. Right(visit)'
    BY <2>1, <2>4 DEF Right, StoredRows, Met, Passed, Key
  <2> QED
    BY <2>5 DEF VisitInv
<1>3. ASSUME NEW filter \in Filters, NEW limit \in ListLimits, NextPage(filter, limit)
      PROVE  VisitInv'
  <2>1. visit # Null /\ visit.ended = FALSE /\ visit' = Advanced(visit, limit) /\ rows' = rows
        /\ Right(visit)
    BY <1>3 DEF NextPage, VisitInv, Right, Visits
  <2>2. Right(Advanced(visit, limit))
    BY <2>1, AdvancedIsRight
  <2> DEFINE w == Advanced(visit, limit)
  <2>3. Right(w) /\ visit' = w
    BY <2>1, <2>2
  <2> HIDE DEF w
  <2>4. Right(visit)'
    BY <2>1, <2>3 DEF Right, StoredRows, Met, Passed, Key
  <2> QED
    BY <2>4 DEF VisitInv
<1>4. CASE ApplySnapshot
  <2>1. /\ visit' = IF visit = Null THEN Null
                    ELSE [visit EXCEPT !.still = {s \in @ : rows'[s] = rows[s]}]
    BY <1>4 DEF ApplySnapshot
  <2>2. CASE visit = Null
    BY <2>1, <2>2 DEF VisitInv
  <2>3. CASE visit # Null
    <3>1. Right(visit) /\ visit \in Visits
      BY <2>3 DEF VisitInv, Right
    <3>2. /\ visit' \in Visits /\ visit'.filter = visit.filter /\ visit'.cursor = visit.cursor
          /\ visit'.ended = visit.ended /\ visit'.shown = visit.shown
          /\ visit'.still = {s \in visit.still : rows'[s] = rows[s]}
      BY <2>1, <2>3, <3>1 DEF Visits
    <3>3. ASSUME NEW s \in visit'.still
          PROVE  (s \in StoredRows)' /\ Met(visit, s)'
      <4>1. s \in visit.still /\ rows'[s] = rows[s] /\ s \in StoredRows /\ Met(visit, s)
        BY <3>1, <3>2, <3>3 DEF Right
      <4>2. (s \in StoredRows)'
        BY <4>1 DEF StoredRows
      <4>3. Passed(visit, s)' <=> Passed(visit, s)
        BY <3>2, <4>1 DEF Passed, Key
      <4> QED
        BY <3>2, <4>1, <4>2, <4>3 DEF Met
    <3> QED
      BY <3>2, <3>3 DEF VisitInv, Right
  <2> QED
    BY <2>2, <2>3
<1> QED
  BY <1>1, <1>2, <1>3, <1>4 DEF Next, vars, Mark, Unmark, BeginPoll, FetchPage, FailPage

\* A client that reads the stored list to its end meets every row that did not
\* change meanwhile exactly once if its filter takes it, and no other of these.
THEOREM ListsShowOnce == Spec => []ListedOnce
<1>1. Init => WishInv /\ VisitInv
  BY InitHasWishInv DEF Init, VisitInv
<1>2. WishInv /\ VisitInv /\ [Next]_vars => (WishInv /\ VisitInv)'
  BY StepKeepsWishInv, StepKeepsVisitInv
<1>3. WishInv /\ VisitInv => ListedOnce
  <2> SUFFICES ASSUME VisitInv, visit # Null, visit.ended, NEW s \in visit.still
               PROVE  Cardinality({i \in DOMAIN visit.shown : visit.shown[i] = s})
                        = IF rows[s].active \in visit.filter THEN 1 ELSE 0
    BY DEF ListedOnce
  <2>1. Met(visit, s) /\ Passed(visit, s)
    BY DEF VisitInv, Right, Passed
  <2> DEFINE places == {i \in DOMAIN visit.shown : visit.shown[i] = s}
  <2>2. CASE rows[s].active \in visit.filter
    <3>1. PICK i \in DOMAIN visit.shown :
            visit.shown[i] = s /\ \A j \in DOMAIN visit.shown : visit.shown[j] = s => j = i
      BY <2>1, <2>2 DEF Met, OnceIn
    <3>2. places = {i}
      BY <3>1
    <3> HIDE DEF places
    <3>3. Cardinality(places) = 1
      BY <3>2, FS_Singleton
    <3> QED
      BY <2>2, <3>3 DEF places
  <2>3. CASE rows[s].active \notin visit.filter
    <3>1. places = {}
      BY <2>1, <2>3 DEF Met, NeverIn
    <3> HIDE DEF places
    <3>2. Cardinality(places) = 0
      BY <3>1, FS_EmptySet
    <3> QED
      BY <2>3, <3>2 DEF places
  <2> QED
    BY <2>2, <2>3
<1> QED
  BY <1>1, <1>2, <1>3, PTL DEF Spec
===============================================================================
