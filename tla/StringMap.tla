----------------------------- MODULE StringMap -----------------------------
(***************************************************************************)
(* The association list of libs/helper.c (struct map, struct element of    *)
(* libs/data.h).  A Map is a linked list of key/value pairs: put() appends  *)
(* at the tail without looking for the key, so a key may occur twice;       *)
(* get() returns the value of the first element with the key;               *)
(* removeElement() unlinks the first element with the key.                  *)
(***************************************************************************)
EXTENDS SequencesExt

MapOf(Keys, Values) == Seq([key : Keys, value : Values])

newMap == <<>>

put(myMap, key, value) == Append(myMap, [key |-> key, value |-> value])

HasKey(myMap, key) == \E i \in DOMAIN myMap : myMap[i].key = key

\* The first element with the key, where the loops over the list stop.
FirstIndex(myMap, key) == SelectInSeq(myMap, LAMBDA element : element.key = key)

\* Defined when HasKey(myMap, key); otherwise the code returns NULL, and every
\* caller modelled here tests HasKey first.
get(myMap, key) == myMap[FirstIndex(myMap, key)].value

removeElement(myMap, key) ==
  IF HasKey(myMap, key) THEN RemoveAt(myMap, FirstIndex(myMap, key)) ELSE myMap

\* For properties.
AtMostOne(myMap) == myMap = newMap \/ myMap = <<Head(myMap)>>

\* The idiom of AS.c: take the first element, remove its key.
removeOldest(myMap) ==
  IF myMap = newMap THEN myMap ELSE removeElement(myMap, Head(myMap).key)

=============================================================================
