---------------------------- MODULE SequenceLemmas ----------------------------
(***************************************************************************)
(* What the operators on sets of numbers and on queues return that the     *)
(* models of the SDK are built from.                                       *)
(***************************************************************************)
EXTENDS Integers, Sequences, SequencesExt, SequenceTheorems, WellFoundedInduction, TLAPS

\* A set of numbers has a least one, which is what Min returns: the search of a
\* list, or of the handle table, stops at the first entry that fits.
LEMMA LeastExists ==
    ASSUME NEW T, T \subseteq Nat, T # {}
    PROVE  Min(T) \in T /\ \A y \in T : Min(T) <= y
  <1> DEFINE R == {ss \in Nat \X Nat : ss[1] < ss[2]}
  <1>1. IsWellFoundedOn(R, Nat)
    BY NatLessThanWellFounded, Zenon DEF OpToRel
  <1> HIDE DEF R
  <1>2. PICK x \in T : \A y \in T : ~ (<<y, x>> \in R)
    BY <1>1, WFMin
  <1>3. \A y \in Nat, z \in Nat : y < z => <<y, z>> \in R
    BY DEF R
  <1>4. ASSUME NEW y \in T PROVE x <= y
    <2>1. x \in Nat /\ y \in Nat
      OBVIOUS
    <2>2. ~ (y < x)
      BY <1>2, <1>3, <2>1
    <2> QED BY <2>1, <2>2
  <1>5. \E z \in T : \A y \in T : z =< y
    BY <1>4
  <1> QED BY <1>5 DEF Min

\* A new node of a list at the place n, before the one that was there.
LEMMA Inserted ==
    ASSUME NEW S, NEW s \in Seq(S), NEW n \in 1..(Len(s) + 1), NEW e \in S
    PROVE  /\ InsertAt(s, n, e) \in Seq(S)
           /\ Len(InsertAt(s, n, e)) = Len(s) + 1
           /\ \A i \in 1..(Len(s) + 1) : InsertAt(s, n, e)[i] =
                 IF i < n THEN s[i] ELSE IF i = n THEN e ELSE s[i - 1]
  <1> DEFINE a == SubSeq(s, 1, n - 1)
             b == SubSeq(s, n, Len(s))
  <1>0. Len(s) \in Nat /\ n \in Nat
    OBVIOUS
  <1>1. /\ a \in Seq(S) /\ Len(a) = n - 1
        /\ \A i \in 1..(n - 1) : a[i] = s[i]
    BY SubSeqProperties
  <1>2. /\ b \in Seq(S) /\ Len(b) = Len(s) + 1 - n
        /\ \A i \in 1..(Len(s) + 1 - n) : b[i] = s[i + n - 1]
    BY SubSeqProperties
  <1>3. <<e>> \in Seq(S) /\ Len(<<e>>) = 1 /\ <<e>>[1] = e
    OBVIOUS
  <1> HIDE DEF a, b
  <1>4. /\ a \o <<e>> \in Seq(S) /\ Len(a \o <<e>>) = n
        /\ \A i \in 1..n : (a \o <<e>>)[i] = IF i < n THEN s[i] ELSE e
    BY <1>1, <1>3
  <1>5. /\ (a \o <<e>>) \o b \in Seq(S) /\ Len((a \o <<e>>) \o b) = Len(s) + 1
        /\ \A i \in 1..(Len(s) + 1) : ((a \o <<e>>) \o b)[i] =
              IF i < n THEN s[i] ELSE IF i = n THEN e ELSE s[i - 1]
    <2> DEFINE c == a \o <<e>>
    <2> HIDE DEF c
    <2>1. /\ c \in Seq(S) /\ Len(c) = n
          /\ \A i \in 1..n : c[i] = IF i < n THEN s[i] ELSE e
      BY <1>4 DEF c
    <2>2. /\ c \o b \in Seq(S) /\ Len(c \o b) = Len(c) + Len(b)
          /\ \A i \in 1..(Len(c) + Len(b)) :
                (c \o b)[i] = IF i <= Len(c) THEN c[i] ELSE b[i - Len(c)]
      BY <1>2, <2>1, ConcatProperties
    <2>3. ASSUME NEW i \in 1..(Len(s) + 1)
          PROVE  (c \o b)[i] = IF i < n THEN s[i] ELSE IF i = n THEN e ELSE s[i - 1]
      <3>1. CASE i <= n
        BY <2>1, <2>2, <1>2, <3>1
      <3>2. CASE i > n
        <4>1. (c \o b)[i] = b[i - n] /\ i - n \in 1..(Len(s) + 1 - n)
          BY <1>2, <2>1, <2>2, <3>2
        <4>2. b[i - n] = s[(i - n) + n - 1]
          BY <1>2, <4>1
        <4> QED BY <3>2, <4>1, <4>2
      <3>3. i <= n \/ i > n
        BY <1>0
      <3> QED BY <3>1, <3>2, <3>3, Zenon
    <2>4. Len(c \o b) = Len(s) + 1
      BY <1>0, <1>2, <2>1, <2>2
    <2> QED BY <2>2, <2>3, <2>4 DEF c
  <1>6. InsertAt(s, n, e) = (a \o <<e>>) \o b
    BY DEF InsertAt, a, b
  <1> QED BY <1>5, <1>6

\* A list without its node at the place n.
LEMMA Removed ==
    ASSUME NEW S, NEW s \in Seq(S), NEW n \in 1..Len(s)
    PROVE  /\ RemoveAt(s, n) \in Seq(S)
           /\ Len(RemoveAt(s, n)) = Len(s) - 1
           /\ \A i \in 1..(Len(s) - 1) : RemoveAt(s, n)[i] =
                 IF i < n THEN s[i] ELSE s[i + 1]
  <1> DEFINE a == SubSeq(s, 1, n - 1)
             b == SubSeq(s, n + 1, Len(s))
  <1>0. Len(s) \in Nat /\ n \in Nat
    OBVIOUS
  <1>1. /\ a \in Seq(S) /\ Len(a) = n - 1
        /\ \A i \in 1..(n - 1) : a[i] = s[i]
    BY SubSeqProperties
  <1>2. /\ b \in Seq(S) /\ Len(b) = Len(s) - n
        /\ \A i \in 1..(Len(s) - n) : b[i] = s[i + n]
    BY SubSeqProperties
  <1> HIDE DEF a, b
  <1>3. /\ a \o b \in Seq(S) /\ Len(a \o b) = Len(s) - 1
        /\ \A i \in 1..(Len(s) - 1) : (a \o b)[i] = IF i < n THEN s[i] ELSE s[i + 1]
    <2>1. /\ a \o b \in Seq(S) /\ Len(a \o b) = Len(a) + Len(b)
          /\ \A i \in 1..(Len(a) + Len(b)) :
                (a \o b)[i] = IF i <= Len(a) THEN a[i] ELSE b[i - Len(a)]
      BY <1>1, <1>2, ConcatProperties
    <2>2. ASSUME NEW i \in 1..(Len(s) - 1)
          PROVE  (a \o b)[i] = IF i < n THEN s[i] ELSE s[i + 1]
      <3>1. CASE i < n
        BY <1>1, <1>2, <2>1, <3>1
      <3>2. CASE i >= n
        <4>1. (a \o b)[i] = b[i - (n - 1)] /\ i - (n - 1) \in 1..(Len(s) - n)
          BY <1>1, <1>2, <2>1, <3>2
        <4>2. b[i - (n - 1)] = s[(i - (n - 1)) + n]
          BY <1>2, <4>1
        <4> QED BY <3>2, <4>1, <4>2
      <3>3. i < n \/ i >= n
        BY <1>0
      <3> QED BY <3>1, <3>2, <3>3, Zenon
    <2> QED BY <1>1, <1>2, <2>1, <2>2
  <1>4. RemoveAt(s, n) = a \o b
    BY DEF RemoveAt, a, b
  <1> QED BY <1>3, <1>4
=============================================================================
