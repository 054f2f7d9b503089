---------------------------- MODULE FiniteOrders ----------------------------
(***************************************************************************)
(* Facts the proofs share: natural numbers have a least one in every set,   *)
(* and a finite set that is ordered can be put in order.                   *)
(***************************************************************************)
EXTENDS Integers, Sequences, FiniteSets, FiniteSetTheorems, SequenceTheorems,
        WellFoundedInduction, TLAPS

\* A set of natural numbers that is not empty has a least one.
LEMMA LeastOf ==
    ASSUME NEW T \in SUBSET Nat, T # {}
    PROVE  \E m \in T : \A k \in T : m <= k
<1>1. IsWellFoundedOn(OpToRel(<, Nat), Nat)
  BY NatLessThanWellFounded
<1>2. PICK m \in T : \A k \in T : <<k, m>> \notin OpToRel(<, Nat)
  BY <1>1, WFMin
<1>3. \A k \in T : ~(k < m)
  BY <1>2 DEF OpToRel
<1> QED
  BY <1>3

-------------------------------------------------------------------------------
(* A finite set in order.                                                  *)

\* R orders S: it holds <<a, b>> if a comes first.
Orders(R, S) ==
    /\ \A a \in S : <<a, a>> \notin R
    /\ \A a, b \in S : a = b \/ <<a, b>> \in R \/ <<b, a>> \in R
    /\ \A a, b, c \in S : <<a, b>> \in R /\ <<b, c>> \in R => <<a, c>> \in R

Before(s, S, R) == {t \in S : <<t, s>> \in R}
RankBy(s, S, R) == Cardinality(Before(s, S, R))

LEMMA RankFollowsOrder ==
    ASSUME NEW S, IsFiniteSet(S), NEW R, Orders(R, S), NEW a \in S, NEW b \in S
    PROVE  /\ RankBy(a, S, R) \in 0 .. Cardinality(S) - 1
           /\ <<a, b>> \in R <=> RankBy(a, S, R) < RankBy(b, S, R)
           /\ RankBy(a, S, R) = RankBy(b, S, R) => a = b
<1>1. \A c \in S : /\ IsFiniteSet(Before(c, S, R)) /\ RankBy(c, S, R) \in Nat
                   /\ RankBy(c, S, R) < Cardinality(S)
  <2> TAKE c \in S
  <2>1. Before(c, S, R) \in SUBSET (S \ {c})
    BY DEF Before, Orders
  <2>2. IsFiniteSet(S \ {c}) /\ Cardinality(S \ {c}) = Cardinality(S) - 1
        /\ Cardinality(S) \in Nat
    BY FS_RemoveElement, FS_CardinalityType
  <2>3. IsFiniteSet(Before(c, S, R)) /\ RankBy(c, S, R) <= Cardinality(S \ {c})
        /\ RankBy(c, S, R) \in Nat
    BY <2>1, <2>2, FS_Subset, FS_CardinalityType DEF RankBy
  <2> QED
    BY <2>2, <2>3
<1>2. ASSUME NEW c \in S, NEW d \in S, <<c, d>> \in R
      PROVE  RankBy(c, S, R) < RankBy(d, S, R)
  <2>1. Before(c, S, R) \in SUBSET (Before(d, S, R) \ {c}) /\ c \in Before(d, S, R)
    BY <1>2 DEF Before, Orders
  <2>2. IsFiniteSet(Before(d, S, R) \ {c})
        /\ Cardinality(Before(d, S, R) \ {c}) = RankBy(d, S, R) - 1
    BY <1>1, <2>1, FS_RemoveElement DEF RankBy
  <2>3. RankBy(c, S, R) <= RankBy(d, S, R) - 1
    BY <2>1, <2>2, FS_Subset DEF RankBy
  <2> QED
    BY <1>1, <2>3
<1>3. Cardinality(S) \in Nat
  BY FS_CardinalityType
<1>4. a = b \/ <<a, b>> \in R \/ <<b, a>> \in R
  BY DEF Orders
<1>5. RankBy(a, S, R) \in Nat /\ RankBy(b, S, R) \in Nat /\ RankBy(a, S, R) < Cardinality(S)
  BY <1>1
<1>6. /\ <<a, b>> \in R => RankBy(a, S, R) < RankBy(b, S, R)
      /\ <<b, a>> \in R => RankBy(b, S, R) < RankBy(a, S, R)
  BY <1>2
<1> HIDE DEF RankBy
<1>7. RankBy(a, S, R) = RankBy(b, S, R) => a = b
  BY <1>4, <1>5, <1>6
<1>8. RankBy(a, S, R) < RankBy(b, S, R) => <<a, b>> \in R
  BY <1>4, <1>5, <1>6
<1> QED
  BY <1>3, <1>5, <1>6, <1>7, <1>8

\* Every rank below the size of the set is taken.
LEMMA RanksAreTaken ==
    ASSUME NEW S, IsFiniteSet(S), NEW R, Orders(R, S), NEW k \in 0 .. Cardinality(S) - 1
    PROVE  \E s \in S : RankBy(s, S, R) = k
<1> DEFINE n == Cardinality(S)
           f == [s \in S |-> RankBy(s, S, R)]
<1>1. n \in Nat /\ 0 <= n - 1
  BY FS_CardinalityType
<1>2. IsFiniteSet(0 .. n - 1) /\ Cardinality(0 .. n - 1) = n
  BY <1>1, FS_Interval
<1>3. f \in Injection(S, 0 .. n - 1)
  <2>1. f \in [S -> 0 .. n - 1]
    BY RankFollowsOrder
  <2>2. \A s, t \in S : f[s] = f[t] => s = t
    BY RankFollowsOrder
  <2> QED
    BY <2>1, <2>2 DEF Injection, IsInjective
<1>4. f \in Surjection(S, 0 .. n - 1)
  BY <1>2, <1>3, FS_Injection
<1>5. \E s \in S : f[s] = k
  BY <1>4 DEF Surjection
<1> QED
  BY <1>5

\* The i-th of the elements in order.
Ranked(S, R) == [i \in 1 .. Cardinality(S) |-> CHOOSE s \in S : RankBy(s, S, R) = i - 1]

LEMMA RankedIsS ==
    ASSUME NEW S, IsFiniteSet(S), NEW R, Orders(R, S)
    PROVE  /\ Cardinality(S) \in Nat /\ DOMAIN Ranked(S, R) = 1 .. Cardinality(S)
           /\ \A i \in DOMAIN Ranked(S, R) :
                Ranked(S, R)[i] \in S /\ RankBy(Ranked(S, R)[i], S, R) = i - 1
           /\ \A s \in S : /\ RankBy(s, S, R) + 1 \in DOMAIN Ranked(S, R)
                           /\ \A i \in DOMAIN Ranked(S, R) :
                                Ranked(S, R)[i] = s <=> i = RankBy(s, S, R) + 1
<1> DEFINE seq == Ranked(S, R)
<1>1. Cardinality(S) \in Nat /\ DOMAIN seq = 1 .. Cardinality(S)
  BY FS_CardinalityType DEF Ranked
<1>2. ASSUME NEW i \in DOMAIN seq
      PROVE  seq[i] \in S /\ RankBy(seq[i], S, R) = i - 1
  <2>1. i - 1 \in 0 .. Cardinality(S) - 1
    BY <1>1
  <2>2. \E s \in S : RankBy(s, S, R) = i - 1
    BY <2>1, RanksAreTaken
  <2>3. seq[i] = CHOOSE s \in S : RankBy(s, S, R) = i - 1
    BY <1>1 DEF Ranked
  <2> HIDE DEF seq
  <2> QED
    BY <2>2, <2>3
<1>3. ASSUME NEW s \in S
      PROVE  /\ RankBy(s, S, R) + 1 \in DOMAIN seq
             /\ \A i \in DOMAIN seq : seq[i] = s <=> i = RankBy(s, S, R) + 1
  <2>1. RankBy(s, S, R) \in 0 .. Cardinality(S) - 1
    BY RankFollowsOrder
  <2>2. RankBy(s, S, R) + 1 \in DOMAIN seq
    BY <1>1, <2>1
  <2> SUFFICES ASSUME NEW i \in DOMAIN seq
               PROVE  seq[i] = s <=> i = RankBy(s, S, R) + 1
    BY <2>2
  <2>3. seq[i] \in S /\ RankBy(seq[i], S, R) = i - 1 /\ i \in Nat
    BY <1>1, <1>2
  <2>4. RankBy(seq[i], S, R) = RankBy(s, S, R) => seq[i] = s
    BY <2>3, RankFollowsOrder
  <2> HIDE DEF seq
  <2> QED
    BY <2>1, <2>3, <2>4
<1> QED
  BY <1>1, <1>2, <1>3

LEMMA FunctionIsSequence ==
    ASSUME NEW S, NEW n \in Nat, NEW f \in [1 .. n -> S]
    PROVE  f \in Seq(S) /\ Len(f) = n
<1>1. f \in Seq(S)
  BY SeqDef
<1> QED
  BY <1>1, LenProperties
=============================================================================
