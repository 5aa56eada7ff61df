-------------------------- MODULE StringMapProofs --------------------------
(***************************************************************************)
(* What put, get and removeElement of libs/helper.c do to an association    *)
(* list of any length, and to one of at most one element, which is all that *)
(* the authentication server ever keeps (see AuthServerProofs).             *)
(***************************************************************************)
EXTENDS StringMap, WellFoundedInduction, SequenceTheorems, TLAPS

\* A nonempty set of naturals has its minimum: get and removeElement stop at
\* the first element with the key.
LEMMA MinNat ==
  ASSUME NEW T \in SUBSET Nat, T # {}
  PROVE  Min(T) \in T /\ \A y \in T : Min(T) <= y
<1> DEFINE Less == {ss \in Nat \X Nat : ss[1] < ss[2]}
<1>1. IsWellFoundedOn(Less, Nat)
  <2>1. Less = OpToRel(<, Nat)
    BY DEF OpToRel
  <2> QED
    BY NatLessThanWellFounded, <2>1, Zenon
<1>2. PICK x \in T : \A y \in T : ~(<<y, x>> \in Less)
  <2> HIDE DEF Less
  <2> QED
    BY <1>1, WFMin
<1>3. ASSUME NEW y \in T, y < x
      PROVE  FALSE
  <2>1. <<y, x>> \in Nat \X Nat
    OBVIOUS
  <2>2. <<y, x>>[1] < <<y, x>>[2]
    BY <1>3
  <2> QED
    BY <1>2, <2>1, <2>2, Zenon
<1>4. \A y \in T : x <= y
  BY <1>3
<1> QED
  BY <1>4 DEF Min

\* The search of get and removeElement ends at an element with the key, and at
\* the first one.
LEMMA FirstIndexProperties ==
  ASSUME NEW m, NEW S, m \in Seq(S), NEW k, HasKey(m, k)
  PROVE  /\ FirstIndex(m, k) \in DOMAIN m
         /\ m[FirstIndex(m, k)].key = k
         /\ \A i \in DOMAIN m : m[i].key = k => FirstIndex(m, k) <= i
<1> DEFINE I == {i \in 1..Len(m) : m[i].key = k}
<1>1. I \in SUBSET Nat /\ I # {}
  BY DEF HasKey
<1>2. Min(I) \in I /\ \A y \in I : Min(I) <= y
  <2> HIDE DEF I
  <2> QED
    BY <1>1, MinNat
<1>3. FirstIndex(m, k) = Min(I)
  BY <1>1 DEF FirstIndex, SelectInSeq
<1> QED
  BY <1>2, <1>3

\* put makes the list one element longer and keeps its type.
LEMMA PutType ==
  ASSUME NEW K, NEW V, NEW m \in MapOf(K, V), NEW k \in K, NEW v \in V
  PROVE  put(m, k, v) \in MapOf(K, V) /\ Len(put(m, k, v)) = Len(m) + 1
BY DEF put, MapOf

\* Removing one element keeps the type and makes the list one shorter.
LEMMA RemoveAtType ==
  ASSUME NEW S, NEW m \in Seq(S), NEW i \in DOMAIN m
  PROVE  RemoveAt(m, i) \in Seq(S) /\ Len(RemoveAt(m, i)) = Len(m) - 1
<1> DEFINE before == SubSeq(m, 1, i - 1)
           after == SubSeq(m, i + 1, Len(m))
<1>1. i \in 1..Len(m) /\ Len(m) \in Nat
  OBVIOUS
<1>2. before \in Seq(S) /\ Len(before) = i - 1
  BY <1>1
<1>3. after \in Seq(S) /\ Len(after) = Len(m) - i
  BY <1>1
<1>4. RemoveAt(m, i) = before \o after
  BY DEF RemoveAt
<1> HIDE DEF before, after
<1>5. (before \o after) \in Seq(S) /\ Len(before \o after) = Len(before) + Len(after)
  BY <1>2, <1>3, ConcatProperties
<1> QED
  BY <1>1, <1>2, <1>3, <1>4, <1>5

\* removeElement unlinks exactly one element when the key occurs, and none
\* otherwise.
LEMMA RemoveType ==
  ASSUME NEW K, NEW V, NEW m \in MapOf(K, V), NEW k
  PROVE  /\ removeElement(m, k) \in MapOf(K, V)
         /\ Len(removeElement(m, k)) = IF HasKey(m, k) THEN Len(m) - 1 ELSE Len(m)
<1>1. CASE HasKey(m, k)
  <2>1. FirstIndex(m, k) \in DOMAIN m
    BY <1>1, FirstIndexProperties DEF MapOf
  <2> QED
    BY <1>1, <2>1, RemoveAtType DEF removeElement, MapOf
<1>2. CASE ~HasKey(m, k)
  BY <1>2 DEF removeElement
<1> QED
  BY <1>1, <1>2

\* AS.c's idiom for the oldest element keeps the type too.
LEMMA RemoveOldestType ==
  ASSUME NEW K, NEW V, NEW m \in MapOf(K, V)
  PROVE  removeOldest(m) \in MapOf(K, V)
BY RemoveType DEF removeOldest

\* Lists of at most one element.

\* HasKey compares with the one element.
LEMMA SingletonKey ==
  ASSUME NEW e, NEW k
  PROVE  HasKey(<<e>>, k) <=> e.key = k
BY DEF HasKey

\* The search stops at the one element.
LEMMA SingletonIndex ==
  ASSUME NEW e, NEW k, e.key = k
  PROVE  FirstIndex(<<e>>, k) = 1
<1>1. {i \in 1..Len(<<e>>) : <<e>>[i].key = k} = {1}
  OBVIOUS
<1>2. Min({1}) = 1
  BY DEF Min
<1> QED
  BY <1>1, <1>2 DEF FirstIndex, SelectInSeq

\* removeElement empties the list or leaves it alone.
LEMMA SingletonRemove ==
  ASSUME NEW e, NEW k
  PROVE  removeElement(<<e>>, k) = IF e.key = k THEN newMap ELSE <<e>>
<1>1. CASE e.key = k
  <2>1. HasKey(<<e>>, k) /\ FirstIndex(<<e>>, k) = 1
    BY <1>1, SingletonKey, SingletonIndex
  <2>2. RemoveAt(<<e>>, 1) = newMap
    BY DEF RemoveAt, newMap
  <2> QED
    BY <1>1, <2>1, <2>2 DEF removeElement
<1>2. CASE e.key # k
  BY <1>2, SingletonKey DEF removeElement
<1> QED
  BY <1>1, <1>2

\* What put, removeElement and the idiom for the oldest element do to a list of
\* at most one element.
LEMMA AtMostOneEmpty == AtMostOne(newMap)
BY DEF AtMostOne

\* put on the empty list makes it a list of one.
LEMMA AtMostOnePut ==
  ASSUME NEW k, NEW v
  PROVE  /\ AtMostOne(put(newMap, k, v))
         /\ put(newMap, k, v) # newMap
         /\ Head(put(newMap, k, v)) = [key |-> k, value |-> v]
BY DEF put, newMap, AtMostOne

\* HasKey looks at the head only.
LEMMA AtMostOneKey ==
  ASSUME NEW m, AtMostOne(m), NEW k
  PROVE  HasKey(m, k) <=> m # newMap /\ Head(m).key = k
<1>1. CASE m = newMap
  BY <1>1 DEF HasKey, newMap
<1>2. CASE m # newMap
  BY <1>2, SingletonKey DEF AtMostOne
<1> QED
  BY <1>1, <1>2

\* removeElement empties the list when its head has the key.
LEMMA AtMostOneRemove ==
  ASSUME NEW m, AtMostOne(m), NEW k
  PROVE  removeElement(m, k) = IF m # newMap /\ Head(m).key = k THEN newMap ELSE m
<1>1. CASE HasKey(m, k)
  <2>1. m # newMap /\ m = <<Head(m)>> /\ Head(m).key = k
    BY <1>1, AtMostOneKey DEF AtMostOne
  <2>2. removeElement(<<Head(m)>>, k) = newMap
    BY <2>1, SingletonRemove
  <2> QED
    BY <2>1, <2>2
<1>2. CASE ~HasKey(m, k)
  BY <1>2, AtMostOneKey DEF removeElement
<1> QED
  BY <1>1, <1>2

\* The idiom for the oldest element always empties the list.
LEMMA AtMostOneOldest ==
  ASSUME NEW m, AtMostOne(m)
  PROVE  removeOldest(m) = newMap
BY AtMostOneRemove DEF removeOldest

\* The one element is at the head.
LEMMA AtMostOneIndex ==
  ASSUME NEW m, AtMostOne(m), NEW i \in DOMAIN m
  PROVE  m # newMap /\ m[i] = Head(m)
<1>1. CASE m = newMap
  BY <1>1 DEF newMap
<1>2. CASE m # newMap
  <2>1. PICK e : e = Head(m)
    OBVIOUS
  <2>2. m = <<e>>
    BY <1>2, <2>1 DEF AtMostOne
  <2> QED
    BY <1>2, <2>1, <2>2
<1> QED
  BY <1>1, <1>2

\* The search finds the one element.
LEMMA AtMostOneGet ==
  ASSUME NEW m, AtMostOne(m), m # newMap
  PROVE  get(m, Head(m).key) = Head(m).value
<1>1. PICK e : e = Head(m)
  OBVIOUS
<1>2. m = <<e>> /\ FirstIndex(<<e>>, e.key) = 1
  BY <1>1, SingletonIndex DEF AtMostOne
<1> QED
  BY <1>1, <1>2 DEF get

\* The head of a list that is not empty is one of its elements.
LEMMA HeadType ==
  ASSUME NEW K, NEW V, NEW m \in MapOf(K, V), m # newMap
  PROVE  Head(m).key \in K /\ Head(m).value \in V
<1>1. Head(m) \in [key : K, value : V]
  BY HeadTailProperties DEF MapOf, newMap
<1> QED
  BY <1>1
=============================================================================
