--------------------------- MODULE OutboundProofs ---------------------------
(***************************************************************************)
(* What the service shows, for every number of sockets, requests and       *)
(* rows: the feeds, the capability report and the selection of the SDK.    *)
(***************************************************************************)
EXTENDS MCOutbound, ScorecardsProofs, Orderings, SequencesExt, FiniteSetTheorems,
        SequenceTheorems, WellFoundedInduction, TLAPS

-----------------------------------------------------------------------------
(* Lists *)

\* R is a strict total order of S.
Orders(R, S) ==
  /\ \A x \in S : <<x, x>> \notin R
  /\ \A x, y \in S : x # y => <<x, y>> \in R \/ <<y, x>> \in R
  /\ \A x, y, z \in S : <<x, y>> \in R /\ <<y, z>> \in R => <<x, z>> \in R

Before(x, S, R) == {y \in S : <<y, x>> \in R}

LEMMA BeforeCounts ==
  ASSUME NEW S, IsFiniteSet(S), NEW R, Orders(R, S), NEW x \in S
  PROVE  /\ Cardinality(Before(x, S, R)) \in Nat
         /\ Cardinality(Before(x, S, R)) < Cardinality(S)
         /\ IsFiniteSet(Before(x, S, R))
         /\ \A y \in S : <<x, y>> \in R =>
              Cardinality(Before(x, S, R)) < Cardinality(Before(y, S, R))
  <1> DEFINE b(y) == Before(y, S, R)
  <1>1. \A y \in S : b(y) \in SUBSET S
    BY DEF Before
  <1>2. \A y \in S : IsFiniteSet(b(y)) /\ Cardinality(b(y)) \in Nat
    BY <1>1, FS_Subset, FS_CardinalityType
  <1>3. x \notin b(x)
    BY DEF Before, Orders
  <1>4. IsFiniteSet(b(x) \cup {x}) /\ Cardinality(b(x) \cup {x}) = Cardinality(b(x)) + 1
    BY <1>2, <1>3, FS_AddElement
  <1>5. ASSUME NEW U, IsFiniteSet(U), b(x) \cup {x} \subseteq U
        PROVE  Cardinality(b(x)) < Cardinality(U)
    <2>1. Cardinality(b(x) \cup {x}) <= Cardinality(U)
      BY <1>5, FS_Subset
    <2>2. Cardinality(U) \in Nat /\ Cardinality(b(x)) \in Nat
      BY <1>2, <1>5, FS_CardinalityType
    <2> QED  BY <1>4, <2>1, <2>2
  <1>6. Cardinality(b(x)) < Cardinality(S)
    BY <1>1, <1>5
  <1>7. ASSUME NEW y \in S, <<x, y>> \in R
        PROVE  Cardinality(b(x)) < Cardinality(b(y))
    <2>1. b(x) \cup {x} \subseteq b(y)
      BY <1>7 DEF Before, Orders
    <2> QED  BY <1>2, <1>5, <2>1
  <1> QED  BY <1>2, <1>6, <1>7

LEMMA InOrderCounts ==
  ASSUME NEW S, IsFiniteSet(S), NEW R, Orders(R, S)
  PROVE  /\ InOrder(S, R) \in [1..Cardinality(S) -> S]
         /\ \A n \in 1..Cardinality(S) :
              Cardinality(Before(InOrder(S, R)[n], S, R)) = n - 1
  <1> DEFINE size == Cardinality(S)
             rank == [x \in S |-> Cardinality(Before(x, S, R)) + 1]
  <1>1. size \in Nat
    BY FS_CardinalityType
  <1>2. \A x \in S : Cardinality(Before(x, S, R)) \in Nat /\ Cardinality(Before(x, S, R)) < size
    BY BeforeCounts
  <1>3. rank \in [S -> 1..size]
    <2>1. \A x \in S : Cardinality(Before(x, S, R)) + 1 \in 1..size
      <3> HIDE DEF size
      <3> QED  BY <1>1, <1>2
    <2> QED  BY <2>1
  <1>4. \A x, y \in S : <<x, y>> \in R => rank[x] # rank[y]
    <2> SUFFICES ASSUME NEW x \in S, NEW y \in S, <<x, y>> \in R PROVE rank[x] # rank[y]
      OBVIOUS
    <2>1. Cardinality(Before(x, S, R)) < Cardinality(Before(y, S, R))
      BY BeforeCounts
    <2> QED  BY <1>2, <2>1
  <1>5. rank \in Injection(S, 1..size)
    <2>1. \A x, y \in S : rank[x] = rank[y] => x = y
      BY <1>4 DEF Orders
    <2> HIDE DEF rank, size
    <2> QED  BY <1>3, <2>1 DEF Injection, IsInjective
  <1>6. IsFiniteSet(1..size) /\ Cardinality(1..size) = size
    BY <1>1, FS_Interval
  <1>7. rank \in Surjection(S, 1..size)
    <2> HIDE DEF rank
    <2> QED  BY <1>5, <1>6, FS_Injection
  <1>8. \A n \in 1..size : \E x \in S : Cardinality(Before(x, S, R)) = n - 1
    <2> SUFFICES ASSUME NEW n \in 1..size
                 PROVE  \E x \in S : Cardinality(Before(x, S, R)) = n - 1
      OBVIOUS
    <2>1. PICK x \in S : rank[x] = n
      <3> HIDE DEF rank, size
      <3> QED  BY <1>7 DEF Surjection
    <2>2. Cardinality(Before(x, S, R)) + 1 = n /\ Cardinality(Before(x, S, R)) \in Nat
      BY <1>2, <2>1
    <2> QED  BY <2>2
  <1>9. ASSUME NEW n \in 1..size
        PROVE  /\ InOrder(S, R)[n] \in S
               /\ Cardinality(Before(InOrder(S, R)[n], S, R)) = n - 1
    BY <1>8, <1>9 DEF InOrder, Before
  <1> QED  BY <1>9 DEF InOrder

\* InOrder lists every element once, and lists them in the order.
LEMMA InOrderSorts ==
  ASSUME NEW S, IsFiniteSet(S), NEW R, Orders(R, S)
  PROVE  LET size == Cardinality(S)
             list == InOrder(S, R)
         IN  /\ size \in Nat
             /\ list \in [1..size -> S]
             /\ \A x \in S : \E n \in 1..size : list[n] = x
             /\ \A m, n \in 1..size : list[m] = list[n] => m = n
             /\ \A m, n \in 1..size : <<list[m], list[n]>> \in R <=> m < n
  <1> DEFINE size == Cardinality(S)
             list == InOrder(S, R)
             count(x) == Cardinality(Before(x, S, R))
  <1>1. size \in Nat
    BY FS_CardinalityType
  <1>2. list \in [1..size -> S] /\ \A n \in 1..size : count(list[n]) = n - 1
    BY InOrderCounts
  <1>3. \A x \in S : count(x) \in Nat /\ count(x) < size
    BY BeforeCounts
  <1>4. \A x, y \in S : <<x, y>> \in R => count(x) < count(y)
    BY BeforeCounts
  <1>5. \A x, y \in S : x = y \/ <<x, y>> \in R \/ <<y, x>> \in R
    BY DEF Orders
  <1>8. \A x \in S : <<x, x>> \notin R
    BY DEF Orders
  <1> HIDE DEF size, list, count
  <1>6. \A m, n \in 1..size : list[m] = list[n] => m = n
    BY <1>1, <1>2
  <1>7. \A m, n \in 1..size : <<list[m], list[n]>> \in R <=> m < n
    <2> SUFFICES ASSUME NEW m \in 1..size, NEW n \in 1..size
                 PROVE  <<list[m], list[n]>> \in R <=> m < n
      OBVIOUS
    <2>1. list[m] \in S /\ list[n] \in S /\ count(list[m]) = m - 1 /\ count(list[n]) = n - 1
      BY <1>2
    <2>2. ASSUME <<list[m], list[n]>> \in R PROVE m < n
      <3>1. count(list[m]) < count(list[n])
        BY <1>4, <2>1, <2>2
      <3> QED  BY <2>1, <3>1
    <2>3. ASSUME m < n PROVE <<list[m], list[n]>> \in R
      <3>1. list[m] # list[n]
        BY <1>6, <2>3
      <3>2. ~ <<list[n], list[m]>> \in R
        <4> SUFFICES ASSUME <<list[n], list[m]>> \in R PROVE FALSE
          OBVIOUS
        <4>1. count(list[n]) < count(list[m])
          BY <1>4, <2>1
        <4> QED  BY <2>1, <2>3, <4>1
      <3> QED  BY <1>5, <2>1, <3>1, <3>2
    <2> QED  BY <2>2, <2>3
  <1>9. ASSUME NEW x \in S PROVE \E n \in 1..size : list[n] = x
    <2>1. count(x) + 1 \in 1..size
      BY <1>1, <1>3
    <2>2. /\ list[count(x) + 1] \in S
          /\ count(list[count(x) + 1]) = count(x)
      <3>1. list[count(x) + 1] \in S
         BY <1>2, <2>1
      <3>2. count(list[count(x) + 1]) = (count(x) + 1) - 1
        BY <1>2, <2>1
      <3>3. count(x) \in Nat
        BY <1>3
      <3> QED  BY <3>1, <3>2, <3>3
    <2>3. ~ <<x, list[count(x) + 1]>> \in R /\ ~ <<list[count(x) + 1], x>> \in R
      <3>1. count(x) \in Nat
        BY <1>3
      <3> QED  BY <1>4, <2>2, <3>1
    <2> QED  BY <1>5, <2>1, <2>2, <2>3
  <1> QED  BY <1>1, <1>2, <1>6, <1>7, <1>9 DEF size, list

\* What Only keeps of a sequence, and where it stood: nothing is moved to the back.
LEMMA OnlyKeeps ==
  ASSUME NEW D, NEW s \in Seq(D), NEW T
  PROVE  LET new == Only(s, T)
         IN  /\ new \in Seq(D)
             /\ \E place \in [1..Len(new) -> 1..Len(s)] :
                  /\ \A n \in 1..Len(new) :
                       new[n] = s[place[n]] /\ new[n] \in T /\ n <= place[n]
                  /\ \A n \in 1..Len(new) :
                       (\A i \in 1..place[n] : s[i] \in T) => place[n] = n
                  /\ \A m, n \in 1..Len(new) : place[m] < place[n] <=> m < n
                  /\ \A i \in 1..Len(s) :
                       s[i] \in T => \E n \in 1..Len(new) : place[n] = i
  <1> DEFINE places == {i \in 1..Len(s) : s[i] \in T}
             place == InOrder(places, Earlier(places))
             size == Cardinality(places)
             new == Only(s, T)
  <1>1. places \in SUBSET (1..Len(s)) /\ IsFiniteSet(1..Len(s)) /\ Len(s) \in Nat
    BY FS_Interval
  <1>2. IsFiniteSet(places)
    BY <1>1, FS_Subset
  <1>3. Orders(Earlier(places), places)
    <2>1. \A i, j \in places : <<i, j>> \in Earlier(places) <=> i < j
      BY DEF Earlier
    <2>2. places \subseteq Int
      BY <1>1
    <2> HIDE DEF places
    <2> QED  BY <2>1, <2>2 DEF Orders
  <1>4. /\ size \in Nat
        /\ place \in [1..size -> places]
        /\ \A i \in places : \E n \in 1..size : place[n] = i
        /\ \A m, n \in 1..size : <<place[m], place[n]>> \in Earlier(places) <=> m < n
    <2> HIDE DEF places
    <2> QED  BY <1>2, <1>3, InOrderSorts
  <1>5. ASSUME NEW n \in 1..size PROVE n <= place[n]
    <2>1. Cardinality(Before(place[n], places, Earlier(places))) = n - 1
      <3> HIDE DEF places
      <3> QED  BY <1>2, <1>3, InOrderCounts
    <2>2. place[n] \in places /\ place[n] \in Nat
      BY <1>1, <1>4
    <2> HIDE DEF place
    <2>3. Before(place[n], places, Earlier(places)) \in SUBSET (1..(place[n] - 1))
      <3> SUFFICES ASSUME NEW i \in places, <<i, place[n]>> \in Earlier(places)
                   PROVE  i \in 1..(place[n] - 1)
        BY DEF Before
      <3>1. i < place[n]
        BY DEF Earlier
      <3>2. i \in Nat /\ 1 <= i
        BY <1>1
      <3> QED  BY <2>2, <3>1, <3>2
    <2> HIDE DEF places
    <2>4. /\ IsFiniteSet(1..(place[n] - 1))
          /\ Cardinality(1..(place[n] - 1)) = place[n] - 1
      <3>1. place[n] - 1 \in Nat
        BY <2>2 DEF places
      <3>2. \A k \in Nat : IsFiniteSet(1..k) /\ Cardinality(1..k) = k
        BY FS_Interval
      <3> QED  BY <3>1, <3>2
    <2>5. Cardinality(Before(place[n], places, Earlier(places))) <= Cardinality(1..(place[n] - 1))
      BY <2>3, <2>4, FS_Subset
    <2>6. n - 1 <= place[n] - 1
      BY <2>1, <2>4, <2>5
    <2> QED  BY <1>4, <2>2, <2>6
  <1>13. ASSUME NEW n \in 1..size, \A i \in 1..place[n] : s[i] \in T
         PROVE  place[n] = n
    <2>1. Cardinality(Before(place[n], places, Earlier(places))) = n - 1
      <3> HIDE DEF places
      <3> QED  BY <1>2, <1>3, InOrderCounts
    <2>2. place[n] \in places /\ place[n] \in 1..Len(s)
      BY <1>1, <1>4
    <2> HIDE DEF place
    <2>3. Before(place[n], places, Earlier(places)) = 1..(place[n] - 1)
      <3>1. ASSUME NEW i \in places, <<i, place[n]>> \in Earlier(places)
            PROVE  i \in 1..(place[n] - 1)
        <4>1. i < place[n]
          BY <3>1 DEF Earlier
        <4>2. i \in Nat /\ 1 <= i
          BY <1>1
        <4> QED  BY <2>2, <4>1, <4>2
      <3>2. ASSUME NEW i \in 1..(place[n] - 1)
            PROVE  i \in places /\ <<i, place[n]>> \in Earlier(places)
        <4>1. i \in 1..Len(s) /\ i \in 1..place[n] /\ i < place[n]
          BY <2>2
        <4>2. i \in places
          BY <1>13, <4>1
        <4> HIDE DEF places
        <4> QED  BY <2>2, <4>1, <4>2 DEF Earlier
      <3> HIDE DEF places
      <3> QED  BY <3>1, <3>2 DEF Before
    <2>4. Cardinality(1..(place[n] - 1)) = place[n] - 1
      <3>1. place[n] - 1 \in Nat
        BY <2>2
      <3>2. \A k \in Nat : Cardinality(1..k) = k
        BY FS_Interval
      <3> QED  BY <3>1, <3>2
    <2> HIDE DEF places
    <2>5. n - 1 = place[n] - 1
      BY <2>1, <2>3, <2>4
    <2> QED  BY <1>4, <2>2, <2>5
  <1>6. new = [n \in 1..size |-> s[place[n]]]
    BY DEF Only
  <1>7. \A m, n \in 1..size : place[m] < place[n] <=> m < n
    <2>1. \A i, j \in places : <<i, j>> \in Earlier(places) <=> i < j
      BY DEF Earlier
    <2> HIDE DEF place, places
    <2> QED  BY <1>4, <2>1
  <1>8. \A i \in places : i \in 1..Len(s) /\ s[i] \in T /\ s[i] \in D
    OBVIOUS
  <1>9. \A i \in 1..Len(s) : s[i] \in T => i \in places
    OBVIOUS
  <1> HIDE DEF size, place, places
  <1>10. new \in Seq(D) /\ Len(new) = size
    <2>1. \A n \in 1..size : s[place[n]] \in D
      BY <1>4, <1>8
    <2>2. [n \in 1..size |-> s[place[n]]] \in Seq(D)
      BY <1>4, <2>1
    <2> QED  BY <1>4, <1>6, <2>2
  <1>11. place \in [1..Len(new) -> 1..Len(s)]
    BY <1>4, <1>8, <1>10
  <1>12. \A n \in 1..Len(new) : new[n] = s[place[n]] /\ new[n] \in T /\ n <= place[n]
    BY <1>4, <1>5, <1>6, <1>8, <1>10
  <1>14. \A n \in 1..Len(new) : (\A i \in 1..place[n] : s[i] \in T) => place[n] = n
    BY <1>10, <1>13
  <1> HIDE DEF new
  <1> QED  BY <1>4, <1>7, <1>9, <1>10, <1>11, <1>12, <1>14 DEF new

LEMMA Members ==
  ASSUME NEW D, NEW l \in Seq(D)
  PROVE  \A x : x \in ToSet(l) <=> \E i \in 1..Len(l) : l[i] = x
  BY DEF ToSet

\* Only keeps the members that are in T, each as often as it was there.
LEMMA OnlyMembers ==
  ASSUME NEW D, NEW l \in Seq(D), NEW T, \A i, j \in 1..Len(l) : l[i] = l[j] => i = j
  PROVE  /\ ToSet(Only(l, T)) = ToSet(l) \cap T
         /\ \A i, j \in 1..Len(Only(l, T)) : Only(l, T)[i] = Only(l, T)[j] => i = j
  <1> DEFINE new == Only(l, T)
  <1>1. new \in Seq(D) /\ Len(new) \in Nat /\ Len(l) \in Nat
    BY OnlyKeeps
  <1>2. PICK at \in [1..Len(new) -> 1..Len(l)] :
          /\ \A n \in 1..Len(new) : new[n] = l[at[n]] /\ new[n] \in T
          /\ \A m, n \in 1..Len(new) : at[m] < at[n] <=> m < n
          /\ \A i \in 1..Len(l) : l[i] \in T => \E n \in 1..Len(new) : at[n] = i
    BY OnlyKeeps
  <1> HIDE DEF new
  <1>3. \A x : x \in ToSet(l) <=> \E i \in 1..Len(l) : l[i] = x
    BY Members
  <1>4. \A x : x \in ToSet(new) <=> \E i \in 1..Len(new) : new[i] = x
    BY <1>1, Members
  <1>5. ASSUME NEW x \in ToSet(new) PROVE x \in ToSet(l) /\ x \in T
    BY <1>2, <1>3, <1>4
  <1>6. ASSUME NEW x \in ToSet(l), x \in T PROVE x \in ToSet(new)
    <2>1. PICK i \in 1..Len(l) : l[i] = x
      BY <1>3
    <2>2. PICK n \in 1..Len(new) : at[n] = i
      BY <1>2, <1>6, <2>1
    <2> QED  BY <1>2, <1>4, <2>1, <2>2
  <1>7. ASSUME NEW i \in 1..Len(new), NEW j \in 1..Len(new), new[i] = new[j]
        PROVE  i = j
    <2>1. at[i] = at[j] /\ at[i] \in 1..Len(l)
      BY <1>2, <1>7
    <2>2. ~ (i < j) /\ ~ (j < i)
      BY <1>2, <2>1
    <2> QED  BY <2>2
  <1> QED  BY <1>5, <1>6, <1>7 DEF new

\* Every set of numbers has a least one, so that every set of places has a last one.
Smaller == {p \in Nat \X Nat : p[1] < p[2]}

LEMMA LeastNumber ==
  ASSUME NEW S \in SUBSET Nat, S # {}
  PROVE  \E x \in S : \A y \in S : x <= y
  <1>1. IsWellFoundedOn(Smaller, Nat)
    BY NatLessThanWellFounded DEF OpToRel, Smaller
  <1>2. PICK x \in S : \A y \in S : ~ (<<y, x>> \in Smaller)
    BY <1>1, WFMin
  <1>3. \A y \in S : ~ (y < x)
    BY <1>2 DEF Smaller
  <1> QED  BY <1>3

LEMMA LastPlace ==
  ASSUME NEW n \in Nat, NEW S \in SUBSET (1..n), S # {}
  PROVE  \E x \in S : \A y \in S : x >= y
  <1> DEFINE bounds == {u \in Nat : \A y \in S : y <= u}
  <1>1. bounds \in SUBSET Nat /\ n \in bounds
    OBVIOUS
  <1>2. PICK u \in bounds : \A v \in bounds : u <= v
    <2> HIDE DEF bounds
    <2> QED  BY <1>1, LeastNumber
  <1>3. u \in S
    <2> SUFFICES ASSUME u \notin S PROVE FALSE
      OBVIOUS
    <2>1. \A y \in S : y \in Nat /\ 1 <= y /\ y <= u /\ y # u
      OBVIOUS
    <2>2. u - 1 \in Nat /\ \A y \in S : y <= u - 1
      <3>1. PICK y \in S : TRUE
        OBVIOUS
      <3>2. u \in Nat /\ u >= 1
        BY <2>1, <3>1
      <3> QED  BY <2>1, <3>2
    <2>3. u - 1 \in bounds
      BY <2>2
    <2> QED  BY <1>2, <2>2, <2>3
  <1>4. u \in Nat /\ \A y \in S : y \in Nat /\ y <= u
    OBVIOUS
  <1>5. \A y \in S : u >= y
    BY <1>4
  <1> QED  BY <1>3, <1>5

-----------------------------------------------------------------------------
(* The feeds.  The invariant keeps the loop of every broadcast apart from the *)
(* list it goes over: what it has seen stands before its place.               *)

\* The list l has every connection once, has the open ones and has no new one.
ListRight(l, state) ==
  /\ \A i, j \in 1..Len(l) : l[i] = l[j] => i = j
  /\ \A s \in Socket : state[s] = "open" => s \in ToSet(l)
  /\ \A s \in ToSet(l) : state[s] # "new"

\* A broadcast with the locals b that has seen the sockets "seen" finds them before its
\* place of the list l.  While all that were due are listed, they are the first of the
\* list, and those that it has passed it has seen.
Passed(b, seen, l) ==
  /\ \A i \in 1..Len(l) : l[i] \in seen => i < b.place
  /\ b.due \subseteq ToSet(l) =>
       /\ \A i, j \in 1..Len(l) : i <= j /\ l[j] \in b.due => l[i] \in b.due
       /\ \A i \in 1..Len(l) : i < b.place /\ l[i] \in b.due => l[i] \in seen

\* What a generator with the locals b knows of the list l.
LoopRight(b, l) ==
  /\ b.at \notin {"sending", "sleeping"} =>
       b.place = 1 /\ b.sent = {} /\ b.dead = {} /\ b.due = {}
  /\ b.at = "sending" =>
       /\ b.current \in Socket /\ b.current \notin b.sent \cup b.dead
       /\ Passed(b, b.sent \cup b.dead \cup {b.current}, l)
  /\ b.at = "sleeping" =>
       /\ b.dead \cap ToSet(l) = {}
       /\ b.due \subseteq ToSet(l) => b.due \subseteq b.sent

\* It knows no connection that is new, and one it has found dead is not open.
KnownRight(b, state) ==
  /\ \A s \in b.sent \cup b.dead \cup b.due : state[s] # "new"
  /\ b.at = "sending" => state[b.current] # "new"
  /\ \A s \in b.dead : state[s] # "open"

StreamInv ==
  /\ Stream!TypeOK
  /\ ListRight(connections, socket)
  /\ \A g \in Feed : LoopRight(feed[g], connections) /\ KnownRight(feed[g], socket)


\* The operators of ScoreStream, in the terms of this module.
LEMMA StreamTerms ==
  /\ \A l : Stream!ToSet(l) = ToSet(l)
  /\ \A l, S : Stream!Without(l, S) = Only(l, ToSet(l) \ S)
  <1>1. \A l : Stream!ToSet(l) = ToSet(l)
    BY DEF Stream!ToSet, ToSet
  <1>2. \A S, R : Stream!InOrder(S, R) = InOrder(S, R)
    BY DEF Stream!InOrder, InOrder, Stream!Cardinality, Cardinality
  <1>3. \A I : Stream!Earlier(I) = Earlier(I)
    BY DEF Stream!Earlier, Earlier
  <1>4. \A l, T : Stream!Only(l, T) = Only(l, T)
    BY DEF Stream!Only, Only, Stream!InOrder, InOrder, Stream!Earlier, Earlier,
           Stream!Cardinality, Cardinality
  <1> QED  BY <1>1, <1>4 DEF Stream!Without

-----------------------------------------------------------------------------
(* The list changes under the loops *)

\* A connection that comes is last and no broadcast knows it.
LEMMA AppendRight ==
  ASSUME NEW l \in Seq(Socket), NEW state \in [Socket -> Stream!SocketState],
         NEW s \in Socket, state[s] = "new", ListRight(l, state)
  PROVE  /\ ListRight(Append(l, s), [state EXCEPT ![s] = "open"])
         /\ \A b \in Stream!FeedLocal :
              LoopRight(b, l) /\ KnownRight(b, state) =>
                LoopRight(b, Append(l, s)) /\ KnownRight(b, [state EXCEPT ![s] = "open"])
  <1> DEFINE new == Append(l, s)
             known == [state EXCEPT ![s] = "open"]
  <1>1. /\ new \in Seq(Socket) /\ Len(new) = Len(l) + 1 /\ new[Len(l) + 1] = s
        /\ Len(l) \in Nat
        /\ \A i \in 1..Len(l) : new[i] = l[i]
    OBVIOUS
  <1>2. \A x : x \in ToSet(l) <=> \E i \in 1..Len(l) : l[i] = x
    BY Members
  <1>3. \A x : x \in ToSet(new) <=> \E i \in 1..Len(new) : new[i] = x
    BY <1>1, Members
  <1>4. s \notin ToSet(l)
    BY DEF ListRight
  <1>5. known[s] = "open" /\ \A x \in Socket : x # s => known[x] = state[x]
    OBVIOUS
  <1>6. \A x : x \in ToSet(new) <=> x \in ToSet(l) \/ x = s
    <2> HIDE DEF new
    <2>1. \A i : i \in 1..Len(new) <=> i \in 1..Len(l) \/ i = Len(l) + 1
      BY <1>1
    <2> QED  BY <1>1, <1>2, <1>3, <2>1
  <1>7. \A i : i \in 1..Len(new) <=> i \in 1..Len(l) \/ i = Len(l) + 1
    BY <1>1
  <1> HIDE DEF new, known
  <1>8. ListRight(new, known)
    <2>1. \A i, j \in 1..Len(new) : new[i] = new[j] => i = j
      BY <1>1, <1>2, <1>4, <1>7 DEF ListRight
    <2>2. \A x \in Socket : known[x] = "open" => x \in ToSet(new)
      BY <1>5, <1>6 DEF ListRight
    <2>3. \A x \in ToSet(l) : x \in Socket
      BY <1>2
    <2>4. \A x \in ToSet(new) : known[x] # "new"
      BY <1>5, <1>6, <2>3 DEF ListRight
    <2> QED  BY <2>1, <2>2, <2>4 DEF ListRight
  <1>9. ASSUME NEW b \in Stream!FeedLocal, LoopRight(b, l), KnownRight(b, state)
        PROVE  LoopRight(b, new) /\ KnownRight(b, known)
    <2>1. /\ b.current \in Socket \cup {None} /\ b.place \in Nat
          /\ b.dead \subseteq Socket /\ b.sent \subseteq Socket /\ b.due \subseteq Socket
      BY DEF Stream!FeedLocal
    <2>2. s \notin b.sent \cup b.dead \cup b.due /\ (b.at = "sending" => s # b.current)
      BY <1>9 DEF KnownRight
    <2>3. KnownRight(b, known)
      <3>1. \A x \in b.sent \cup b.dead \cup b.due : known[x] # "new"
        BY <1>5, <1>9, <2>1, <2>2 DEF KnownRight
      <3>2. b.at = "sending" => known[b.current] # "new"
        BY <1>5, <1>9, <2>1, <2>2 DEF KnownRight, LoopRight
      <3>3. \A x \in b.dead : known[x] # "open"
        BY <1>5, <1>9, <2>1, <2>2 DEF KnownRight
      <3> QED  BY <3>1, <3>2, <3>3 DEF KnownRight
    <2>4. b.due \subseteq ToSet(new) <=> b.due \subseteq ToSet(l)
      BY <1>6, <2>2
    <2>5. ASSUME b.at = "sending" PROVE Passed(b, b.sent \cup b.dead \cup {b.current}, new)
      <3> DEFINE seen == b.sent \cup b.dead \cup {b.current}
      <3>1. Passed(b, seen, l) /\ s \notin seen
        BY <1>9, <2>2, <2>5 DEF LoopRight
      <3> HIDE DEF seen
      <3>2. \A i \in 1..Len(new) : new[i] \in seen => i < b.place
        BY <1>1, <1>7, <3>1 DEF Passed
      <3>3. ASSUME b.due \subseteq ToSet(new)
            PROVE  /\ \A i, j \in 1..Len(new) : i <= j /\ new[j] \in b.due => new[i] \in b.due
                   /\ \A i \in 1..Len(new) : i < b.place /\ new[i] \in b.due => new[i] \in seen
        <4>1. /\ \A i, j \in 1..Len(l) : i <= j /\ l[j] \in b.due => l[i] \in b.due
              /\ \A i \in 1..Len(l) : i < b.place /\ l[i] \in b.due => l[i] \in seen
          BY <2>4, <3>1, <3>3 DEF Passed
        <4>2. \A i \in 1..Len(new) : new[i] \in b.due => i \in 1..Len(l)
          BY <1>1, <1>7, <2>2
        <4>3. \A i, j \in 1..Len(new) : i <= j /\ j \in 1..Len(l) => i \in 1..Len(l)
          BY <1>1
        <4> QED  BY <1>1, <4>1, <4>2, <4>3
      <3> QED  BY <3>2, <3>3 DEF Passed, seen
    <2>6. b.at = "sleeping" => b.dead \cap ToSet(new) = {}
      BY <1>6, <1>9, <2>2 DEF LoopRight
    <2>7. b.at = "sleeping" => (b.due \subseteq ToSet(new) => b.due \subseteq b.sent)
      BY <1>9, <2>4 DEF LoopRight
    <2>8. LoopRight(b, new)
      BY <1>9, <2>5, <2>6, <2>7 DEF LoopRight
    <2> QED  BY <2>3, <2>8
  <1> QED  BY <1>8, <1>9 DEF new, known

\* Taking connections off a list moves none to the back, and none that is due while all
\* that are due remain.
LEMMA OnlyRight ==
  ASSUME NEW l \in Seq(Socket), NEW T, \A i, j \in 1..Len(l) : l[i] = l[j] => i = j
  PROVE  /\ Only(l, T) \in Seq(Socket)
         /\ ToSet(Only(l, T)) = ToSet(l) \cap T
         /\ \A i, j \in 1..Len(Only(l, T)) : Only(l, T)[i] = Only(l, T)[j] => i = j
         /\ \A seen : \A b \in Stream!FeedLocal :
              Passed(b, seen, l) => Passed(b, seen, Only(l, T))
         /\ \A b \in Stream!FeedLocal : LoopRight(b, l) => LoopRight(b, Only(l, T))
  <1> DEFINE new == Only(l, T)
  <1>1. new \in Seq(Socket) /\ Len(new) \in Nat /\ Len(l) \in Nat
    BY OnlyKeeps
  <1>2. PICK at \in [1..Len(new) -> 1..Len(l)] :
          /\ \A n \in 1..Len(new) : new[n] = l[at[n]] /\ new[n] \in T /\ n <= at[n]
          /\ \A n \in 1..Len(new) : (\A i \in 1..at[n] : l[i] \in T) => at[n] = n
          /\ \A m, n \in 1..Len(new) : at[m] < at[n] <=> m < n
          /\ \A i \in 1..Len(l) : l[i] \in T => \E n \in 1..Len(new) : at[n] = i
    BY OnlyKeeps
  <1> HIDE DEF new
  <1>5. /\ ToSet(new) = ToSet(l) \cap T
        /\ \A i, j \in 1..Len(new) : new[i] = new[j] => i = j
    BY OnlyMembers DEF new
  <1>7. ASSUME NEW b \in Stream!FeedLocal, NEW seen, Passed(b, seen, l)
        PROVE  Passed(b, seen, new)
    <2>1. b.place \in Nat
      BY DEF Stream!FeedLocal
    <2>2. ASSUME NEW n \in 1..Len(new), new[n] \in seen PROVE n < b.place
      <3>1. at[n] \in 1..Len(l) /\ l[at[n]] \in seen /\ n <= at[n]
        BY <1>2, <2>2
      <3>2. at[n] < b.place
        BY <1>7, <3>1 DEF Passed
      <3> QED  BY <2>1, <3>1, <3>2
    <2>3. ASSUME b.due \subseteq ToSet(new)
          PROVE  /\ \A m, n \in 1..Len(new) : m <= n /\ new[n] \in b.due => new[m] \in b.due
                 /\ \A n \in 1..Len(new) : n < b.place /\ new[n] \in b.due => new[n] \in seen
      <3>1. b.due \subseteq ToSet(l) /\ b.due \subseteq T
        BY <1>5, <2>3
      <3>2. /\ \A i, j \in 1..Len(l) : i <= j /\ l[j] \in b.due => l[i] \in b.due
            /\ \A i \in 1..Len(l) : i < b.place /\ l[i] \in b.due => l[i] \in seen
        BY <1>7, <3>1 DEF Passed
      <3>3. ASSUME NEW n \in 1..Len(new), new[n] \in b.due
            PROVE  at[n] = n /\ l[n] = new[n]
        <4>1. at[n] \in 1..Len(l) /\ l[at[n]] \in b.due
          BY <1>2, <3>3
        <4>2. \A i \in 1..at[n] : i \in 1..Len(l) /\ i <= at[n]
          BY <4>1
        <4>3. \A i \in 1..at[n] : l[i] \in T
          BY <3>1, <3>2, <4>1, <4>2
        <4>4. at[n] = n
          BY <1>2, <4>3
        <4> QED  BY <1>2, <4>4
      <3>4. ASSUME NEW m \in 1..Len(new), NEW n \in 1..Len(new), m <= n, new[n] \in b.due
            PROVE  new[m] \in b.due
        <4>1. at[m] <= at[n]
          <5>1. ~ (at[n] < at[m])
            BY <1>2, <3>4
          <5> QED  BY <1>2, <5>1
        <4>2. at[m] \in 1..Len(l) /\ at[n] \in 1..Len(l) /\ l[at[n]] \in b.due
          BY <1>2, <3>4
        <4>3. l[at[m]] \in b.due
          BY <3>2, <4>1, <4>2
        <4> QED  BY <1>2, <4>3
      <3>5. ASSUME NEW n \in 1..Len(new), n < b.place, new[n] \in b.due
            PROVE  new[n] \in seen
        <4>1. at[n] = n /\ l[n] = new[n] /\ n \in 1..Len(l)
          BY <1>2, <3>3, <3>5
        <4> QED  BY <3>2, <3>5, <4>1
      <3> QED  BY <3>4, <3>5
    <2> QED  BY <2>2, <2>3 DEF Passed
  <1>8. ASSUME NEW b \in Stream!FeedLocal, LoopRight(b, l) PROVE LoopRight(b, new)
    <2>1. b.at = "sending" => Passed(b, b.sent \cup b.dead \cup {b.current}, new)
      BY <1>7, <1>8 DEF LoopRight
    <2>2. b.dead \cap ToSet(l) = {} => b.dead \cap ToSet(new) = {}
      BY <1>5
    <2>3. b.due \subseteq ToSet(new) => b.due \subseteq ToSet(l)
      BY <1>5
    <2> QED  BY <1>8, <2>1, <2>2, <2>3 DEF LoopRight
  <1> QED  BY <1>1, <1>5, <1>7, <1>8 DEF new

\* Taking off connections that are not open leaves the list right.
LEMMA OnlyListRight ==
  ASSUME NEW l \in Seq(Socket), NEW state, ListRight(l, state), NEW T,
         \A s \in ToSet(l) : state[s] = "open" => s \in T
  PROVE  ListRight(Only(l, T), state)
  <1>1. \A i, j \in 1..Len(l) : l[i] = l[j] => i = j
    BY DEF ListRight
  <1>2. /\ ToSet(Only(l, T)) = ToSet(l) \cap T
        /\ \A i, j \in 1..Len(Only(l, T)) : Only(l, T)[i] = Only(l, T)[j] => i = j
    BY <1>1, OnlyRight
  <1> QED  BY <1>2 DEF ListRight

-----------------------------------------------------------------------------
(* The steps of the feeds *)

LEMMA StreamInvInit == Stream!Init => StreamInv
  <1> SUFFICES ASSUME Stream!Init PROVE StreamInv
    OBVIOUS
  <1>1. connections = <<>> /\ socket = [s \in Socket |-> "new"]
        /\ feed = [g \in Feed |-> Stream!Outside("off", "clean")]
    BY DEF Stream!Init
  <1>2. Stream!TypeOK
    BY <1>1 DEF Stream!TypeOK, Stream!SocketState, Stream!FeedLocal, Stream!Outside
  <1>3. ListRight(connections, socket)
    BY <1>1 DEF ListRight, ToSet
  <1>4. ASSUME NEW g \in Feed
        PROVE  LoopRight(feed[g], connections) /\ KnownRight(feed[g], socket)
    <2>1. feed[g] = Stream!Outside("off", "clean")
      BY <1>1
    <2> QED  BY <2>1 DEF Stream!Outside, LoopRight, KnownRight
  <1> QED  BY <1>2, <1>3, <1>4 DEF StreamInv

\* A generator that changes nothing but itself has to keep its own part.
LEMMA FeedMoves ==
  ASSUME StreamInv, NEW g \in Feed, NEW b \in Stream!FeedLocal,
         feed' = [feed EXCEPT ![g] = b], UNCHANGED <<connections, socket>>,
         LoopRight(b, connections), KnownRight(b, socket)
  PROVE  StreamInv'
  <1>1. Stream!TypeOK'
    BY DEF StreamInv, Stream!TypeOK
  <1>2. ListRight(connections', socket')
    BY DEF StreamInv
  <1>3. ASSUME NEW h \in Feed
        PROVE  LoopRight(feed'[h], connections') /\ KnownRight(feed'[h], socket')
    <2>1. feed'[h] = IF h = g THEN b ELSE feed[h]
      BY DEF StreamInv, Stream!TypeOK
    <2> QED  BY <2>1 DEF StreamInv
  <1> QED  BY <1>1, <1>2, <1>3 DEF StreamInv

\* The loop of a broadcast takes its next connection, or ends.
LEMMA AdvanceRight ==
  ASSUME StreamInv, NEW g \in Feed, NEW b \in Stream!FeedLocal,
         b.at \in {"yielding", "sending"}, b.place \in Nat \ {0},
         Passed(b, b.sent \cup b.dead, connections),
         \A s \in b.sent \cup b.dead \cup b.due : socket[s] # "new",
         \A s \in b.dead : socket[s] # "open",
         Stream!Advance(g, b), UNCHANGED socket
  PROVE  StreamInv'
  <1> DEFINE l == connections
  <1>1. /\ l \in Seq(Socket) /\ Len(l) \in Nat /\ socket \in [Socket -> Stream!SocketState]
        /\ feed \in [Feed -> Stream!FeedLocal]
        /\ ListRight(l, socket)
        /\ \A h \in Feed : LoopRight(feed[h], l) /\ KnownRight(feed[h], socket)
    BY DEF StreamInv, Stream!TypeOK
  <1>2. /\ b.dead \subseteq Socket /\ b.sent \subseteq Socket /\ b.due \subseteq Socket
        /\ b.session \in {"clean", "broken"} /\ b.place \in Nat
    BY DEF Stream!FeedLocal
  <1>3. \A x : x \in ToSet(l) <=> \E i \in 1..Len(l) : l[i] = x
    BY <1>1, Members
  <1>4. CASE b.place <= Len(l)
    <2> DEFINE new == [b EXCEPT !.at = "sending", !.place = @ + 1, !.current = l[b.place]]
    <2>1. feed' = [feed EXCEPT ![g] = new] /\ UNCHANGED connections
      BY <1>4 DEF Stream!Advance
    <2>2. b.place \in 1..Len(l) /\ l[b.place] \in Socket /\ l[b.place] \in ToSet(l)
      BY <1>1, <1>2, <1>3, <1>4
    <2>3. new \in Stream!FeedLocal
      <3> DEFINE next == b.place + 1
                 s == l[b.place]
      <3>1. next \in Nat \ {0} /\ s \in Socket \cup {None} /\ b \in Stream!FeedLocal
        BY <1>2, <2>2
      <3>2. new = [b EXCEPT !.at = "sending", !.place = next, !.current = s]
        OBVIOUS
      <3> HIDE DEF next, s, new
      <3> QED  BY <3>1, <3>2 DEF Stream!FeedLocal
    <2>4. /\ new.at = "sending" /\ new.place = b.place + 1 /\ new.current = l[b.place]
          /\ new.dead = b.dead /\ new.sent = b.sent /\ new.due = b.due
      BY DEF Stream!FeedLocal
    <2> HIDE DEF new
    <2>5. new.current \notin new.sent \cup new.dead
      BY <1>2, <2>2, <2>4 DEF Passed
    <2>6. Passed(new, new.sent \cup new.dead \cup {new.current}, l)
      <3>1. ASSUME NEW i \in 1..Len(l), l[i] \in new.sent \cup new.dead \cup {new.current}
            PROVE  i < new.place
        <4>1. CASE l[i] \in b.sent \cup b.dead
          BY <1>2, <2>4, <4>1 DEF Passed
        <4>2. CASE l[i] = l[b.place]
          BY <1>1, <1>2, <2>2, <2>4, <4>2 DEF ListRight
        <4> QED  BY <2>4, <3>1, <4>1, <4>2
      <3>2. ASSUME new.due \subseteq ToSet(l)
            PROVE  /\ \A i, j \in 1..Len(l) : i <= j /\ l[j] \in new.due => l[i] \in new.due
                   /\ \A i \in 1..Len(l) : i < new.place /\ l[i] \in new.due =>
                        l[i] \in new.sent \cup new.dead \cup {new.current}
        <4>1. /\ \A i, j \in 1..Len(l) : i <= j /\ l[j] \in b.due => l[i] \in b.due
              /\ \A i \in 1..Len(l) : i < b.place /\ l[i] \in b.due =>
                   l[i] \in b.sent \cup b.dead
          BY <2>4, <3>2 DEF Passed
        <4>2. \A i \in 1..Len(l) : i < new.place => i < b.place \/ i = b.place
          BY <1>2, <2>4
        <4> QED  BY <2>4, <4>1, <4>2
      <3> QED  BY <3>1, <3>2 DEF Passed
    <2>7. LoopRight(new, l)
      BY <2>2, <2>4, <2>5, <2>6 DEF LoopRight
    <2>8. KnownRight(new, socket)
      BY <1>1, <2>2, <2>4 DEF KnownRight, ListRight
    <2> QED  BY <2>1, <2>3, <2>7, <2>8, FeedMoves
  <1>5. CASE ~ (b.place <= Len(l))
    <2> DEFINE new == [b EXCEPT !.at = "sleeping", !.current = None]
               rest == Only(l, ToSet(l) \ b.dead)
    <2>1. feed' = [feed EXCEPT ![g] = new] /\ connections' = rest
      BY <1>5, StreamTerms DEF Stream!Advance
    <2>2. new \in Stream!FeedLocal
      BY <1>2 DEF Stream!FeedLocal
    <2>3. /\ new.at = "sleeping" /\ new.dead = b.dead /\ new.sent = b.sent
          /\ new.due = b.due
      BY DEF Stream!FeedLocal
    <2> HIDE DEF new
    <2>4. /\ rest \in Seq(Socket) /\ ToSet(rest) = ToSet(l) \ b.dead
          /\ \A c \in Stream!FeedLocal : LoopRight(c, l) => LoopRight(c, rest)
      <3>1. \A i, j \in 1..Len(l) : l[i] = l[j] => i = j
        BY <1>1 DEF ListRight
      <3>2. ToSet(rest) = ToSet(l) \cap (ToSet(l) \ b.dead)
        BY <1>1, <3>1, OnlyRight
      <3>3. rest \in Seq(Socket)
        BY <1>1, <3>1, OnlyRight
      <3>4. \A c \in Stream!FeedLocal : LoopRight(c, l) => LoopRight(c, rest)
        BY <1>1, <3>1, OnlyRight
      <3> QED  BY <3>2, <3>3, <3>4
    <2>5. ListRight(rest, socket)
      BY <1>1, OnlyListRight
    <2> HIDE DEF rest
    <2>6. LoopRight(new, rest)
      <3>1. ASSUME b.due \subseteq ToSet(rest) PROVE b.due \subseteq b.sent
        <4>1. \A i \in 1..Len(l) : i < b.place
          BY <1>1, <1>2, <1>5
        <4>2. b.due \subseteq ToSet(l) /\ b.due \cap b.dead = {}
          BY <2>4, <3>1
        <4>3. \A i \in 1..Len(l) : l[i] \in b.due => l[i] \in b.sent \cup b.dead
          BY <4>1, <4>2 DEF Passed
        <4> QED  BY <1>3, <4>2, <4>3
      <3> QED  BY <2>3, <2>4, <3>1 DEF LoopRight
    <2>7. KnownRight(new, socket)
      BY <2>3 DEF KnownRight
    <2>8. Stream!TypeOK'
      BY <1>1, <2>1, <2>2, <2>4 DEF Stream!TypeOK
    <2>9. ASSUME NEW h \in Feed
          PROVE  LoopRight(feed'[h], connections') /\ KnownRight(feed'[h], socket')
      <3>1. feed'[h] = IF h = g THEN new ELSE feed[h]
        BY <1>1, <2>1
      <3>2. feed[h] \in Stream!FeedLocal
        BY <1>1
      <3> QED  BY <1>1, <2>1, <2>4, <2>6, <2>7, <3>1, <3>2
    <2> QED  BY <2>1, <2>5, <2>8, <2>9 DEF StreamInv
  <1> QED  BY <1>4, <1>5

LEMMA ConnectInv ==
  ASSUME StreamInv, NEW s \in Socket, Stream!Connect(s)
  PROVE  StreamInv'
  <1>1. /\ connections \in Seq(Socket) /\ socket \in [Socket -> Stream!SocketState]
        /\ feed \in [Feed -> Stream!FeedLocal]
        /\ ListRight(connections, socket)
        /\ \A h \in Feed : LoopRight(feed[h], connections) /\ KnownRight(feed[h], socket)
    BY DEF StreamInv, Stream!TypeOK
  <1>2. /\ socket[s] = "new" /\ socket' = [socket EXCEPT ![s] = "open"]
        /\ connections' = Append(connections, s) /\ feed' = feed
    BY DEF Stream!Connect
  <1>3. /\ ListRight(connections', socket')
        /\ \A b \in Stream!FeedLocal :
             LoopRight(b, connections) /\ KnownRight(b, socket) =>
               LoopRight(b, connections') /\ KnownRight(b, socket')
    BY <1>1, <1>2, AppendRight
  <1>4. Stream!TypeOK'
    BY <1>1, <1>2 DEF Stream!TypeOK, Stream!SocketState
  <1> QED  BY <1>1, <1>2, <1>3, <1>4 DEF StreamInv

\* A connection that is closed, and perhaps taken off the list.
LEMMA CloseInv ==
  ASSUME StreamInv, NEW s \in Socket, NEW state \in {"gone", "ended"}, socket[s] # "new",
         socket' = [socket EXCEPT ![s] = state], UNCHANGED feed,
         \/ UNCHANGED connections
         \/ connections' = Only(connections, ToSet(connections) \ {s})
  PROVE  StreamInv'
  <1>1. /\ connections \in Seq(Socket) /\ socket \in [Socket -> Stream!SocketState]
        /\ feed \in [Feed -> Stream!FeedLocal]
        /\ ListRight(connections, socket)
        /\ \A h \in Feed : LoopRight(feed[h], connections) /\ KnownRight(feed[h], socket)
    BY DEF StreamInv, Stream!TypeOK
  <1>2. /\ socket' \in [Socket -> Stream!SocketState]
        /\ \A x \in Socket : socket'[x] = IF x = s THEN state ELSE socket[x]
    BY <1>1 DEF Stream!SocketState
  <1>3. \A x \in Socket : /\ socket'[x] = "open" => socket[x] = "open"
                          /\ socket[x] # "new" => socket'[x] # "new"
    BY <1>2
  <1>4. \A x \in ToSet(connections) : x \in Socket
    BY <1>1, Members
  <1>5. ListRight(connections, socket')
    BY <1>1, <1>3, <1>4 DEF ListRight
  <1>6. \A h \in Feed : KnownRight(feed'[h], socket')
    <2> SUFFICES ASSUME NEW h \in Feed PROVE KnownRight(feed[h], socket')
      OBVIOUS
    <2>1. /\ feed[h].dead \subseteq Socket /\ feed[h].sent \subseteq Socket
          /\ feed[h].due \subseteq Socket
      BY <1>1 DEF Stream!FeedLocal
    <2>2. feed[h].at = "sending" => feed[h].current \in Socket
      BY <1>1 DEF LoopRight
    <2>3. KnownRight(feed[h], socket)
      BY <1>1
    <2> QED  BY <1>3, <2>1, <2>2, <2>3 DEF KnownRight
  <1>7. CASE UNCHANGED connections
    <2>1. Stream!TypeOK'
      BY <1>1, <1>2, <1>7 DEF Stream!TypeOK
    <2> QED  BY <1>1, <1>5, <1>6, <1>7, <2>1 DEF StreamInv
  <1>8. CASE connections' = Only(connections, ToSet(connections) \ {s})
    <2>1. \A i, j \in 1..Len(connections) : connections[i] = connections[j] => i = j
      BY <1>1 DEF ListRight
    <2>2. connections' \in Seq(Socket)
      BY <1>1, <1>8, <2>1, OnlyRight
    <2>3. \A b \in Stream!FeedLocal : LoopRight(b, connections) => LoopRight(b, connections')
      BY <1>1, <1>8, <2>1, OnlyRight
    <2>4. \A x \in ToSet(connections) :
            socket'[x] = "open" => x \in ToSet(connections) \ {s}
      BY <1>2, <1>4
    <2>5. ListRight(connections', socket')
      BY <1>1, <1>5, <1>8, <2>4, OnlyListRight
    <2>6. Stream!TypeOK'
      BY <1>1, <1>2, <2>2 DEF Stream!TypeOK
    <2> QED  BY <1>1, <1>6, <2>3, <2>5, <2>6 DEF StreamInv
  <1> QED  BY <1>7, <1>8

\* A generator that is not in a broadcast has nothing to keep.
LEMMA OutsideRight ==
  ASSUME NEW at \in {"off", "polling", "yielding", "left"}, NEW session \in {"clean", "broken"}
  PROVE  /\ Stream!Outside(at, session) \in Stream!FeedLocal
         /\ LoopRight(Stream!Outside(at, session), connections)
         /\ KnownRight(Stream!Outside(at, session), socket)
  BY DEF Stream!Outside, Stream!FeedLocal, LoopRight, KnownRight

\* A generator that was not in a broadcast and is not in one now.
LEMMA RestsRight ==
  ASSUME StreamInv, NEW g \in Feed, feed[g].at \in {"off", "polling"},
         NEW b \in Stream!FeedLocal, b.at \in {"polling", "yielding", "sleeping"},
         b.place = feed[g].place, b.sent = feed[g].sent, b.dead = feed[g].dead,
         b.due = feed[g].due
  PROVE  LoopRight(b, connections) /\ KnownRight(b, socket)
  <1>1. LoopRight(feed[g], connections)
    BY DEF StreamInv
  <1>2. b.place = 1 /\ b.sent = {} /\ b.dead = {} /\ b.due = {}
    BY <1>1 DEF LoopRight
  <1> QED  BY <1>2 DEF LoopRight, KnownRight

LEMMA StreamInvStep == StreamInv /\ [Stream!Next]_(Stream!vars) => StreamInv'
  <1> SUFFICES ASSUME StreamInv, [Stream!Next]_(Stream!vars) PROVE StreamInv'
    OBVIOUS
  <1>0. /\ connections \in Seq(Socket) /\ socket \in [Socket -> Stream!SocketState]
        /\ feed \in [Feed -> Stream!FeedLocal]
        /\ ListRight(connections, socket)
        /\ \A h \in Feed : LoopRight(feed[h], connections) /\ KnownRight(feed[h], socket)
    BY DEF StreamInv, Stream!TypeOK
  <1>1. ASSUME NEW s \in Socket, Stream!Connect(s) PROVE StreamInv'
    BY <1>1, ConnectInv
  <1>2. ASSUME NEW s \in Socket, Stream!ClientLeaves(s) PROVE StreamInv'
    <2>1. socket[s] # "new" /\ socket' = [socket EXCEPT ![s] = "gone"]
          /\ UNCHANGED <<connections, feed>>
      BY <1>2 DEF Stream!ClientLeaves
    <2> QED  BY <2>1, CloseInv
  <1>3. ASSUME NEW s \in Socket, Stream!NoticeDisconnect(s) PROVE StreamInv'
    <2>1. /\ socket[s] # "new" /\ socket' = [socket EXCEPT ![s] = "ended"]
          /\ connections' = Only(connections, ToSet(connections) \ {s})
          /\ UNCHANGED feed
      BY <1>3, StreamTerms DEF Stream!NoticeDisconnect
    <2> QED  BY <2>1, CloseInv
  <1>4. ASSUME NEW s \in Socket, Stream!EndpointFails(s) PROVE StreamInv'
    <2>1. socket[s] # "new" /\ socket' = [socket EXCEPT ![s] = "ended"]
          /\ UNCHANGED <<connections, feed>>
      BY <1>4 DEF Stream!EndpointFails
    <2> QED  BY <2>1, CloseInv
  <1>5. ASSUME NEW g \in Feed, Stream!JoinFeed(g) PROVE StreamInv'
    <2> DEFINE b == [feed[g] EXCEPT !.at = "polling"]
    <2>1. feed[g].at = "off" /\ feed' = [feed EXCEPT ![g] = b] /\ UNCHANGED <<connections, socket>>
      BY <1>0, <1>5 DEF Stream!JoinFeed
    <2>2. /\ b \in Stream!FeedLocal /\ b.at = "polling" /\ b.place = feed[g].place
          /\ b.sent = feed[g].sent /\ b.dead = feed[g].dead /\ b.due = feed[g].due
      BY <1>0 DEF Stream!FeedLocal
    <2> HIDE DEF b
    <2> QED  BY <2>1, <2>2, RestsRight, FeedMoves
  <1>6. ASSUME NEW g \in Feed, Stream!Poll(g) PROVE StreamInv'
    <2>1. PICK place \in {"yielding", "sleeping"} : feed' = [feed EXCEPT ![g].at = place]
      BY <1>6 DEF Stream!Poll
    <2> DEFINE b == [feed[g] EXCEPT !.at = place]
    <2>2. /\ feed[g].at = "polling" /\ feed' = [feed EXCEPT ![g] = b]
          /\ UNCHANGED <<connections, socket>>
      BY <1>0, <1>6, <2>1 DEF Stream!Poll
    <2>3. /\ b \in Stream!FeedLocal /\ b.at = place /\ b.place = feed[g].place
          /\ b.sent = feed[g].sent /\ b.dead = feed[g].dead /\ b.due = feed[g].due
      BY <1>0 DEF Stream!FeedLocal
    <2> HIDE DEF b
    <2> QED  BY <2>2, <2>3, RestsRight, FeedMoves
  <1>7. ASSUME NEW g \in Feed, Stream!PollFails(g) PROVE StreamInv'
    <2> DEFINE b == [feed[g] EXCEPT !.at = "sleeping", !.session = "broken"]
    <2>1. feed[g].at = "polling" /\ feed' = [feed EXCEPT ![g] = b]
          /\ UNCHANGED <<connections, socket>>
      BY <1>0, <1>7 DEF Stream!PollFails
    <2>2. /\ b \in Stream!FeedLocal /\ b.at = "sleeping" /\ b.place = feed[g].place
          /\ b.sent = feed[g].sent /\ b.dead = feed[g].dead /\ b.due = feed[g].due
      BY <1>0 DEF Stream!FeedLocal
    <2> HIDE DEF b
    <2> QED  BY <2>1, <2>2, RestsRight, FeedMoves
  <1>8. ASSUME NEW g \in Feed, Stream!StartBroadcast(g) PROVE StreamInv'
    <2> DEFINE b == [feed[g] EXCEPT !.due = ToSet(connections)]
    <2>1. feed[g].at = "yielding" /\ Stream!Advance(g, b) /\ UNCHANGED socket
      BY <1>8, StreamTerms DEF Stream!StartBroadcast, Stream!Listed
    <2>2. ToSet(connections) \subseteq Socket
      BY <1>0, Members
    <2>3. /\ b \in Stream!FeedLocal /\ b.at = feed[g].at /\ b.place = feed[g].place
          /\ b.sent = feed[g].sent /\ b.dead = feed[g].dead /\ b.due = ToSet(connections)
      BY <1>0, <2>2 DEF Stream!FeedLocal
    <2> HIDE DEF b
    <2>4. b.place = 1 /\ b.sent = {} /\ b.dead = {}
      BY <1>0, <2>1, <2>3 DEF LoopRight
    <2>5. \A i \in 1..Len(connections) : connections[i] \in b.due /\ ~ (i < b.place)
      BY <1>0, <2>3, <2>4, Members
    <2>6. Passed(b, b.sent \cup b.dead, connections)
      BY <2>4, <2>5 DEF Passed
    <2>7. \A s \in b.sent \cup b.dead \cup b.due : socket[s] # "new"
      BY <1>0, <2>3, <2>4 DEF ListRight
    <2>8. b.at = "yielding" /\ b.place \in Nat \ {0} /\ \A s \in b.dead : socket[s] # "open"
      BY <2>1, <2>3, <2>4
    <2> QED  BY <2>1, <2>3, <2>6, <2>7, <2>8, AdvanceRight
  <1>9. ASSUME NEW g \in Feed, Stream!Send(g) PROVE StreamInv'
    <2> DEFINE s == feed[g].current
    <2>1. /\ feed[g].at = "sending" /\ UNCHANGED socket
          /\ IF socket[s] = "open"
             THEN Stream!Advance(g, [feed[g] EXCEPT !.sent = @ \cup {s}])
             ELSE Stream!Advance(g, [feed[g] EXCEPT !.dead = @ \cup {s}])
      BY <1>9 DEF Stream!Send
    <2>2. /\ feed[g] \in Stream!FeedLocal /\ KnownRight(feed[g], socket)
          /\ s \in Socket
          /\ Passed(feed[g], feed[g].sent \cup feed[g].dead \cup {s}, connections)
      BY <1>0, <2>1 DEF LoopRight
    <2>3. feed[g].place \in Nat \ {0}
      BY <2>2 DEF Stream!FeedLocal
    <2>4. ASSUME NEW b \in Stream!FeedLocal, Stream!Advance(g, b),
                 b.at = "sending", b.place = feed[g].place, b.due = feed[g].due,
                 b.sent \cup b.dead = feed[g].sent \cup feed[g].dead \cup {s},
                 \A x \in b.dead : x \in feed[g].dead \/ (x = s /\ socket[s] # "open")
          PROVE  StreamInv'
      <3>1. Passed(b, b.sent \cup b.dead, connections)
        BY <2>2, <2>4 DEF Passed
      <3>2. \A x \in b.sent \cup b.dead \cup b.due : socket[x] # "new"
        BY <2>1, <2>2, <2>4 DEF KnownRight
      <3>3. \A x \in b.dead : socket[x] # "open"
        BY <2>2, <2>4 DEF KnownRight
      <3> QED  BY <2>1, <2>3, <2>4, <3>1, <3>2, <3>3, AdvanceRight
    <2>5. CASE socket[s] = "open"
      <3> DEFINE b == [feed[g] EXCEPT !.sent = @ \cup {s}]
      <3>1. /\ b \in Stream!FeedLocal /\ b.at = feed[g].at /\ b.place = feed[g].place
            /\ b.sent = feed[g].sent \cup {s} /\ b.dead = feed[g].dead /\ b.due = feed[g].due
        BY <2>2 DEF Stream!FeedLocal
      <3>2. Stream!Advance(g, b)
        BY <2>1, <2>5
      <3> HIDE DEF b
      <3> QED  BY <2>1, <2>4, <3>1, <3>2
    <2>6. CASE socket[s] # "open"
      <3> DEFINE b == [feed[g] EXCEPT !.dead = @ \cup {s}]
      <3>1. /\ b \in Stream!FeedLocal /\ b.at = feed[g].at /\ b.place = feed[g].place
            /\ b.sent = feed[g].sent /\ b.dead = feed[g].dead \cup {s} /\ b.due = feed[g].due
        BY <2>2 DEF Stream!FeedLocal
      <3>2. Stream!Advance(g, b)
        BY <2>1, <2>6
      <3> HIDE DEF b
      <3> QED  BY <2>1, <2>4, <2>6, <3>1, <3>2
    <2> QED  BY <2>5, <2>6
  <1>10. ASSUME NEW g \in Feed, Stream!Wake(g) PROVE StreamInv'
    <2>1. /\ feed' = [feed EXCEPT ![g] = Stream!Outside("polling", feed[g].session)]
          /\ UNCHANGED <<connections, socket>>
      BY <1>0, <1>10 DEF Stream!Wake
    <2>2. feed[g].session \in {"clean", "broken"}
      BY <1>0 DEF Stream!FeedLocal
    <2> QED  BY <2>1, <2>2, OutsideRight, FeedMoves
  <1>11. ASSUME NEW g \in Feed, Stream!LeaveFeed(g) PROVE StreamInv'
    <2>1. /\ feed' = [feed EXCEPT ![g] = Stream!Outside("left", feed[g].session)]
          /\ UNCHANGED <<connections, socket>>
      BY <1>0, <1>11 DEF Stream!LeaveFeed
    <2>2. feed[g].session \in {"clean", "broken"}
      BY <1>0 DEF Stream!FeedLocal
    <2> QED  BY <2>1, <2>2, OutsideRight, FeedMoves
  <1>12. CASE UNCHANGED Stream!vars
    BY <1>12 DEF Stream!vars, StreamInv, Stream!TypeOK
  <1> QED  BY <1>1, <1>2, <1>3, <1>4, <1>5, <1>6, <1>7, <1>8, <1>9, <1>10, <1>11, <1>12
           DEF Stream!Next, Stream!FeedStep

LEMMA StreamInvHolds == Stream!Spec => []StreamInv
  BY StreamInvInit, StreamInvStep, PTL DEF Stream!Spec

\* No broadcast sends to a connection twice, in any number of feeds over any number of
\* connections that come and go under them.
THEOREM BroadcastsSendOnce == Stream!Spec => []SentOnce
  <1>1. StreamInv => SentOnce
    BY DEF StreamInv, LoopRight, SentOnce, Stream!SentOnce
  <1> QED  BY <1>1, StreamInvHolds, PTL

\* An open connection is in the list once, and one that a broadcast found dead is off it
\* when the broadcast has ended.
THEOREM ListsCoherent == Stream!Spec => []ListCoherent
  <1>1. StreamInv => ListCoherent
    <2> SUFFICES ASSUME StreamInv PROVE ListCoherent
      OBVIOUS
    <2>1. connections \in Seq(Socket) /\ ListRight(connections, socket)
      BY DEF StreamInv, Stream!TypeOK
    <2>2. DOMAIN connections = 1..Len(connections)
      BY <2>1
    <2>3. ASSUME NEW s \in Socket, socket[s] = "open"
          PROVE  Cardinality({i \in DOMAIN connections : connections[i] = s}) = 1
      <3>1. PICK k \in 1..Len(connections) : connections[k] = s
        BY <2>1, <2>3, Members DEF ListRight
      <3>2. {i \in DOMAIN connections : connections[i] = s} = {k}
        BY <2>1, <2>2, <3>1 DEF ListRight
      <3> QED  BY <3>2, FS_Singleton
    <2>4. ASSUME NEW g \in Feed, feed[g].at = "sleeping"
          PROVE  feed[g].dead \cap ToSet(connections) = {}
      BY <2>4 DEF StreamInv, LoopRight
    <2>5. \A s \in Socket : socket[s] = "open" =>
            Stream!Cardinality({i \in DOMAIN connections : connections[i] = s}) = 1
      BY <2>3 DEF Stream!Cardinality, Cardinality
    <2> QED  BY <2>4, <2>5, StreamTerms DEF ListCoherent, Stream!ListCoherent, Stream!Listed
  <1> QED  BY <1>1, StreamInvHolds, PTL

\* A broadcast that has ended has sent to every connection that was in the list when it
\* began, unless one of them has left the list meanwhile.
THEOREM BroadcastsReachAll == Stream!Spec => []BroadcastReachesAll
  <1>1. StreamInv => BroadcastReachesAll
    BY StreamTerms DEF StreamInv, LoopRight, BroadcastReachesAll, Stream!BroadcastReachesAll,
       Stream!Listed
  <1> QED  BY <1>1, StreamInvHolds, PTL

-----------------------------------------------------------------------------
(* The capability report.  What is kept of it in the invariant is said of the *)
(* record b of one request and of the tables t, so that a step that leaves    *)
(* both alone keeps it at once.                                               *)

Evidence == Status!Evidential

\* What BYOS has spoken of in the report b, and what has to be in it.
Told(b) == {Status!CapabilityOf[b.methodology[i].section] : i \in DOMAIN b.methodology}

Due(b) == Evidence \cup Told(b)

\* The capabilities that b has passed in the order of a report.
PassedBy(b) == {Status!Order[i] : i \in 1..(b.position - 1)}

Ids(b) == {b.lines[i].id : i \in 1..Len(b.lines)}

\* How far the report b has come, and what it holds by then.
ReportGrown(b, t) ==
  /\ b.at \in {"idle", "methodology"} => b.lines = <<>> /\ b.position = 1
  /\ b.at \in {"next", "newest"} => Ids(b) = PassedBy(b) \cap Due(b)
  /\ b.at \in {"idle", "methodology", "next", "newest"} => b.reachable
  /\ b.at = "newest" =>
       /\ b.position <= 7
       /\ Status!Order[b.position] \in Evidence \ Told(b)
       /\ b.counted <= Cardinality(t[Status!Order[b.position]])
  /\ b.at = "topology" => Ids(b) = Due(b)
  /\ b.at = "answered" => Ids(b) = Due(b) \cup Status!Always

\* What a line of the report b says.
LineRight(b, line, t) ==
  /\ line.id \in Evidence \ Told(b) =>
       /\ line.state = "Disconnected" <=> ~ b.reachable
       /\ line.state = "Connected" =>
            line.count \in 1..Cardinality(t[line.id]) /\ line.last \in t[line.id]
  /\ line.id = "vnp_streaming" => (line.state = "Disconnected" <=> ~ b.reachable)

ReportRight(b, t) ==
  /\ ReportGrown(b, t)
  /\ \A i, j \in 1..Len(b.lines) : b.lines[i].id = b.lines[j].id => i = j
  /\ \A i \in 1..Len(b.lines) : LineRight(b, b.lines[i], t)

StatusInv ==
  /\ Status!TypeOK
  /\ \A r \in Request : ReportRight(report[r], rows)

\* The operators of CapabilityStatus, in the terms of this module.
LEMMA StatusTerms ==
  /\ \A S : Status!Cardinality(S) = Cardinality(S)
  /\ \A l : Status!ToSet(l) = ToSet(l)
  /\ \A l, T : Status!Only(l, T) = Only(l, T)
  /\ \A r, c : Status!Speaks(r, c) <=> c \in Told(report[r])
  <1>1. \A S : Status!Cardinality(S) = Cardinality(S)
    BY DEF Status!Cardinality, Cardinality
  <1>2. \A l : Status!ToSet(l) = ToSet(l)
    BY DEF Status!ToSet, ToSet
  <1>3. \A l, T : Status!Only(l, T) = Only(l, T)
    BY DEF Status!Only, Only, Status!InOrder, InOrder, Status!Earlier, Earlier,
           Status!Cardinality, Cardinality
  <1>4. \A r, c : Status!Speaks(r, c) <=> c \in Told(report[r])
    BY DEF Status!Speaks, Status!SaysOf, Told
  <1> QED  BY <1>1, <1>2, <1>3, <1>4

\* The order of a report has every capability once.
LEMMA OrderRight ==
  /\ Status!Order \in Seq(Evidence \cup Status!Capability) /\ Len(Status!Order) = 7
  /\ \A i, j \in 1..7 : Status!Order[i] = Status!Order[j] => i = j
  /\ \A c \in Evidence \cup Status!Capability : \E i \in 1..7 : Status!Order[i] = c
  /\ \A i \in 1..7 : Status!Order[i] \notin Status!Always
  /\ (Evidence \cup Status!Capability) \cap Status!Always = {}
  /\ Status!DisconnectedOrder \in Seq(Evidence \cup Status!Capability)
  /\ Len(Status!DisconnectedOrder) = 7
  /\ \A i, j \in 1..7 : Status!DisconnectedOrder[i] = Status!DisconnectedOrder[j] => i = j
  /\ \A c \in Evidence \cup Status!Capability : \E i \in 1..7 : Status!DisconnectedOrder[i] = c
  <1>5. Status!Capability =
          {"vnp_physical_probes", "vnp_signed_telemetry", "vnp_regional_scoring",
           "vnp_usage_metering", "pgl_audit_trails", "agent_runtime_enforcement"}
    BY DEF Status!Capability, Status!CapabilityOf
  <1>6. Evidence \cup Status!Capability =
          {"vnp_physical_probes", "vnp_regional_scoring", "vnp_usage_metering",
           "vnp_signed_telemetry", "pgl_audit_trails", "agent_runtime_enforcement",
           "vnp_provider_claims"}
    BY <1>5 DEF Evidence, Status!Evidential
  <1>1. Status!Order \in Seq(Evidence \cup Status!Capability) /\ Len(Status!Order) = 7
    BY <1>6 DEF Status!Order
  <1>3. /\ Status!DisconnectedOrder \in Seq(Evidence \cup Status!Capability)
        /\ Len(Status!DisconnectedOrder) = 7
    BY <1>6 DEF Status!DisconnectedOrder
  <1>7. /\ Status!Order[1] = "vnp_physical_probes" /\ Status!Order[2] = "vnp_regional_scoring"
        /\ Status!Order[3] = "vnp_usage_metering" /\ Status!Order[4] = "vnp_signed_telemetry"
        /\ Status!Order[5] = "pgl_audit_trails"
        /\ Status!Order[6] = "agent_runtime_enforcement"
        /\ Status!Order[7] = "vnp_provider_claims"
    BY DEF Status!Order
  <1>8. /\ Status!DisconnectedOrder[1] = "vnp_physical_probes"
        /\ Status!DisconnectedOrder[2] = "vnp_regional_scoring"
        /\ Status!DisconnectedOrder[3] = "vnp_provider_claims"
        /\ Status!DisconnectedOrder[4] = "vnp_usage_metering"
        /\ Status!DisconnectedOrder[5] = "vnp_signed_telemetry"
        /\ Status!DisconnectedOrder[6] = "pgl_audit_trails"
        /\ Status!DisconnectedOrder[7] = "agent_runtime_enforcement"
    BY DEF Status!DisconnectedOrder
  <1>9. 1 \in 1..7 /\ 2 \in 1..7 /\ 3 \in 1..7 /\ 4 \in 1..7 /\ 5 \in 1..7 /\ 6 \in 1..7
        /\ 7 \in 1..7 /\ \A i \in 1..7 : i \in {1, 2, 3, 4, 5, 6, 7}
    OBVIOUS
  <1>2. \A i, j \in 1..7 : Status!Order[i] = Status!Order[j] => i = j
    BY <1>7, <1>9
  <1>4. \A i, j \in 1..7 : Status!DisconnectedOrder[i] = Status!DisconnectedOrder[j] => i = j
    BY <1>8, <1>9
  <1>10. \A c \in Evidence \cup Status!Capability : \E i \in 1..7 : Status!Order[i] = c
    BY <1>6, <1>7, <1>9
  <1>11. \A c \in Evidence \cup Status!Capability : \E i \in 1..7 : Status!DisconnectedOrder[i] = c
    BY <1>6, <1>8, <1>9
  <1>12. \A i \in 1..7 : Status!Order[i] \notin Status!Always
    BY <1>7, <1>9 DEF Status!Always
  <1>13. (Evidence \cup Status!Capability) \cap Status!Always = {}
    BY <1>6 DEF Status!Always
  <1> QED  BY <1>1, <1>2, <1>3, <1>4, <1>10, <1>11, <1>12, <1>13

LEMMA ToldCapabilities ==
  ASSUME NEW b \in Status!Report
  PROVE  Told(b) \subseteq Status!Capability
  <1>1. b.methodology \in Seq(Status!Item)
    BY DEF Status!Report
  <1>2. \A i \in DOMAIN b.methodology : b.methodology[i].section \in DOMAIN Status!CapabilityOf
    <2>1. \A i \in DOMAIN b.methodology : b.methodology[i] \in Status!Item
      BY <1>1
    <2> QED  BY <2>1 DEF Status!Item
  <1> QED  BY <1>2 DEF Told, Status!Capability

LEMMA ReportParts ==
  ASSUME NEW b \in Status!Report
  PROVE  /\ b.at \in {"idle", "methodology", "next", "newest", "topology", "answered"}
         /\ b.methodology \in Seq(Status!Item)
         /\ b.position \in 1..8
         /\ b.counted \in 0..MaxRows
         /\ b.lines \in Seq(Status!Line) /\ Len(b.lines) \in Nat
         /\ b.reachable \in BOOLEAN
         /\ \A i \in 1..Len(b.lines) : b.lines[i] \in Status!Line
  <1>1. b.lines \in Seq(Status!Line)
    BY DEF Status!Report
  <1>2. b.position \in 1..8
    BY OrderRight DEF Status!Report
  <1>3. /\ b.at \in {"idle", "methodology", "next", "newest", "topology", "answered"}
        /\ b.methodology \in Seq(Status!Item)
        /\ b.counted \in 0..MaxRows
        /\ b.reachable \in BOOLEAN
    BY DEF Status!Report
  <1> QED  BY <1>1, <1>2, <1>3

\* The tables are finite.
LEMMA TablesFinite ==
  ASSUME Status!TypeOK, NEW c \in Evidence
  PROVE  IsFiniteSet(rows[c]) /\ Cardinality(rows[c]) \in Nat /\ rows[c] \in SUBSET (1..MaxRows)
  <1>1. rows[c] \in SUBSET (1..MaxRows)
    BY DEF Status!TypeOK, Status!Date, Evidence
  <1>2. IsFiniteSet(1..MaxRows)
    BY ByosAssumption, FS_Interval
  <1> QED  BY <1>1, <1>2, FS_Subset, FS_CardinalityType

\* A row more takes nothing from a report.
LEMMA RowsGrow ==
  ASSUME NEW b \in Status!Report, NEW t, NEW u, ReportRight(b, t),
         \A c \in Evidence : /\ t[c] \subseteq u[c]
                             /\ Cardinality(t[c]) \in Nat /\ Cardinality(u[c]) \in Nat
                             /\ Cardinality(t[c]) <= Cardinality(u[c])
  PROVE  ReportRight(b, u)
  <1>1. ReportGrown(b, u)
    <2>1. b.counted \in Int
      BY ReportParts, ByosAssumption
    <2>2. ASSUME b.at = "newest"
          PROVE  b.counted <= Cardinality(u[Status!Order[b.position]])
      <3> DEFINE c == Status!Order[b.position]
      <3>1. c \in Evidence /\ b.counted <= Cardinality(t[c])
        BY <2>2 DEF ReportRight, ReportGrown
      <3> HIDE DEF c
      <3>2. b.counted <= Cardinality(u[c])
        BY <2>1, <3>1
      <3> QED  BY <3>2 DEF c
    <2> QED  BY <2>2 DEF ReportRight, ReportGrown
  <1>2. ASSUME NEW i \in 1..Len(b.lines)
        PROVE  LineRight(b, b.lines[i], u)
    <2> DEFINE line == b.lines[i]
    <2>1. line \in Status!Line
      BY ReportParts
    <2>2. LineRight(b, line, t)
      BY DEF ReportRight
    <2> HIDE DEF line
    <2>3. line.count \in Nat
      BY <2>1 DEF Status!Line
    <2>4. ASSUME line.id \in Evidence, line.count \in 1..Cardinality(t[line.id]),
                 line.last \in t[line.id]
          PROVE  line.count \in 1..Cardinality(u[line.id]) /\ line.last \in u[line.id]
      BY <2>3, <2>4
    <2>5. LineRight(b, line, u)
      BY <2>2, <2>4 DEF LineRight
    <2> QED  BY <2>5 DEF line
  <1> QED  BY <1>1, <1>2 DEF ReportRight

\* A request that changes nothing but its own report has to keep its own part.
LEMMA ReportMoves ==
  ASSUME StatusInv, NEW r \in Request, NEW b \in Status!Report,
         report' = [report EXCEPT ![r] = b], UNCHANGED rows, ReportRight(b, rows)
  PROVE  StatusInv'
  <1>1. Status!TypeOK'
    BY DEF StatusInv, Status!TypeOK
  <1>2. ASSUME NEW q \in Request PROVE ReportRight(report'[q], rows')
    <2>1. report'[q] = IF q = r THEN b ELSE report[q]
      BY DEF StatusInv, Status!TypeOK
    <2> QED  BY <2>1 DEF StatusInv
  <1> QED  BY <1>1, <1>2 DEF StatusInv

\* The line of what BYOS says.
LEMMA SpokenLine ==
  ASSUME Status!TypeOK, NEW r \in Request, NEW c \in Told(report[r])
  PROVE  Status!Spoken(r, c) \in Status!Line /\ Status!Spoken(r, c).id = c
  <1> DEFINE says == Status!SaysOf(r, c)
             list == report[r].methodology
             i == Status!Max(says)
  <1>1. report[r] \in Status!Report
    BY DEF Status!TypeOK
  <1>2. list \in Seq(Status!Item) /\ Len(list) \in Nat /\ DOMAIN list = 1..Len(list)
    BY <1>1, ReportParts
  <1>3. says \in SUBSET (1..Len(list)) /\ says # {}
    BY <1>2 DEF Told, Status!SaysOf
  <1>4. \E x \in says : \A y \in says : x >= y
    <2> HIDE DEF says, list
    <2> QED  BY <1>2, <1>3, LastPlace
  <1>5. i \in says
    <2> HIDE DEF says
    <2> QED  BY <1>4 DEF Status!Max
  <1>6. list[i] \in Status!Item
    <2> HIDE DEF says, list, i
    <2> QED  BY <1>2, <1>3, <1>5
  <1>7. list[i].status \in Status!Vocabulary
    BY <1>6 DEF Status!Item
  <1>8. c \in Status!Capability
    BY <1>1, ToldCapabilities
  <1> DEFINE state == IF list[i].status = "Live" THEN "Connected" ELSE list[i].status
  <1>9. state \in Status!Vocabulary
    <2>1. "Connected" \in Status!Vocabulary
      BY DEF Status!Vocabulary
    <2> HIDE DEF i, list
    <2> QED  BY <1>7, <2>1
  <1>10. Status!Spoken(r, c) = [id |-> c, state |-> state, count |-> 1, last |-> None]
    BY DEF Status!Spoken, Status!Said
  <1> HIDE DEF state
  <1> QED  BY <1>8, <1>9, <1>10 DEF Status!Line

\* The line of a table, from a count that is no larger than the table.
LEMMA TableLine ==
  ASSUME Status!TypeOK, NEW c \in Evidence, NEW counted \in Nat,
         counted <= Cardinality(rows[c])
  PROVE  LET line == Status!EvidenceLine(c, counted,
                        IF rows[c] = {} THEN None ELSE Status!Max(rows[c]))
         IN  /\ line \in Status!Line /\ line.id = c /\ line.state # "Disconnected"
             /\ line.state = "Connected" =>
                  line.count \in 1..Cardinality(rows[c]) /\ line.last \in rows[c]
  <1> DEFINE last == IF rows[c] = {} THEN None ELSE Status!Max(rows[c])
             line == Status!EvidenceLine(c, counted, last)
  <1>1. IsFiniteSet(rows[c]) /\ Cardinality(rows[c]) \in Nat /\ rows[c] \in SUBSET (1..MaxRows)
    BY TablesFinite
  <1>2. {"Insufficient Evidence", "Connected"} \subseteq Status!Vocabulary
    BY DEF Status!Vocabulary
  <1>3. CASE counted = 0
    <2>1. line = [id |-> c, state |-> "Insufficient Evidence", count |-> 0, last |-> None]
      BY <1>3 DEF Status!EvidenceLine, Status!Said
    <2> HIDE DEF line
    <2>2. line \in Status!Line
      BY <1>2, <2>1 DEF Status!Line, Evidence
    <2>3. line.id = c /\ line.state = "Insufficient Evidence"
      BY <2>1
    <2> HIDE <2>1
    <2>4. line.state # "Disconnected" /\ line.state # "Connected"
      BY <2>3
    <2> QED  BY <2>2, <2>3, <2>4 DEF line
  <1>4. CASE counted # 0
    <2>1. rows[c] # {}
      BY <1>1, <1>4, FS_EmptySet
    <2>2. \E x \in rows[c] : \A y \in rows[c] : x >= y
      BY <1>1, <2>1, ByosAssumption, LastPlace
    <2>3. last \in rows[c]
      BY <2>1, <2>2 DEF Status!Max
    <2>4. line = [id |-> c, state |-> "Connected", count |-> counted, last |-> last]
      BY <1>4 DEF Status!EvidenceLine, Status!Said
    <2> HIDE DEF last
    <2>5. line \in Status!Line
      <3>1. last \in Status!Date \cup {None}
        BY <1>1, <2>3 DEF Status!Date
      <3>2. c \in Status!Capability \cup Status!Evidential \cup Status!Always
        BY DEF Evidence
      <3>3. "Connected" \in Status!Vocabulary
        BY <1>2
      <3> QED  BY <2>4, <3>1, <3>2, <3>3 DEF Status!Line
    <2>6. line.id = c /\ line.state = "Connected" /\ line.count = counted /\ line.last = last
      BY <2>4
    <2> HIDE DEF line
    <2>7. counted \in 1..Cardinality(rows[c])
      BY <1>1, <1>4
    <2> QED  BY <2>3, <2>5, <2>6, <2>7 DEF line, last
  <1> QED  BY <1>3, <1>4

\* The lines of a report that lost the database: every capability that is due, once.
LEMMA LostLines ==
  ASSUME Status!TypeOK, NEW r \in Request
  PROVE  LET lines == Status!Disconnected(r)
         IN  /\ lines \in Seq(Status!Line)
             /\ {lines[i].id : i \in 1..Len(lines)} = Due(report[r])
             /\ \A i, j \in 1..Len(lines) : lines[i].id = lines[j].id => i = j
             /\ \A i \in 1..Len(lines) :
                  lines[i].id \notin Told(report[r]) => lines[i].state = "Disconnected"
  <1> DEFINE T == Evidence \cup {c \in Status!Capability : Status!Speaks(r, c)}
             order == Status!DisconnectedOrder
             named == Only(order, T)
             lines == Status!Disconnected(r)
             line(c) == IF c \in Told(report[r]) THEN Status!Spoken(r, c)
                        ELSE Status!Said(c, "Disconnected", 0, None)
  <1>1. report[r] \in Status!Report
    BY DEF Status!TypeOK
  <1>2. T = Due(report[r])
    <2>1. Told(report[r]) \subseteq Status!Capability
      BY <1>1, ToldCapabilities
    <2> QED  BY <2>1, StatusTerms DEF Due
  <1>3. order \in Seq(Evidence \cup Status!Capability) /\ Len(order) = 7
        /\ \A i, j \in 1..7 : order[i] = order[j] => i = j
    BY OrderRight
  <1>4. T \subseteq ToSet(order)
    <2>1. \A c \in T : \E i \in 1..7 : order[i] = c
      BY OrderRight
    <2> HIDE DEF T, order
    <2> QED  BY <1>3, <2>1, Members
  <1> HIDE DEF order
  <1>5. /\ named \in Seq(Evidence \cup Status!Capability) /\ Len(named) \in Nat
        /\ ToSet(named) = T
        /\ \A i, j \in 1..Len(named) : named[i] = named[j] => i = j
    <2>1. named \in Seq(Evidence \cup Status!Capability)
      BY <1>3, OnlyKeeps
    <2>2. ToSet(named) = ToSet(order) \cap T
      BY <1>3, OnlyMembers
    <2>3. \A i, j \in 1..Len(named) : named[i] = named[j] => i = j
      BY <1>3, OnlyMembers
    <2> HIDE DEF named, T
    <2> QED  BY <1>4, <2>1, <2>2, <2>3
  <1>6. lines = [i \in 1..Len(named) |-> line(named[i])]
    <2>1. Status!Only(order, T) = named
      BY StatusTerms
    <2>2. DOMAIN named = 1..Len(named)
      BY <1>5
    <2>3. lines = [i \in DOMAIN named |->
                     IF Status!Speaks(r, named[i]) THEN Status!Spoken(r, named[i])
                     ELSE Status!Said(named[i], "Disconnected", 0, None)]
      BY <2>1 DEF Status!Disconnected, Evidence, order
    <2> HIDE DEF named, T, lines
    <2> QED  BY <2>2, <2>3, StatusTerms
  <1>7. ASSUME NEW c \in T
        PROVE  /\ line(c) \in Status!Line /\ line(c).id = c
               /\ c \notin Told(report[r]) => line(c).state = "Disconnected"
    <2>1. CASE c \in Told(report[r])
      BY <2>1, SpokenLine
    <2>2. CASE c \notin Told(report[r])
      <3>1. line(c) = [id |-> c, state |-> "Disconnected", count |-> 0, last |-> None]
        BY <2>2 DEF Status!Said
      <3>2. "Disconnected" \in Status!Vocabulary
        BY DEF Status!Vocabulary
      <3>3. c \in Status!Capability \cup Status!Evidential \cup Status!Always
        BY DEF Evidence
      <3> HIDE DEF line
      <3>4. line(c) \in Status!Line
        BY <3>1, <3>2, <3>3 DEF Status!Line
      <3> QED  BY <3>1, <3>4
    <2> QED  BY <2>1, <2>2
  <1>8. \A i \in 1..Len(named) : named[i] \in T
    BY <1>5, Members
  <1>9. \A c \in T : \E i \in 1..Len(named) : named[i] = c
    BY <1>5, Members
  <1> HIDE DEF T, named, lines, line
  <1>10. lines \in Seq(Status!Line) /\ Len(lines) = Len(named)
    BY <1>5, <1>6, <1>7, <1>8
  <1>11. \A i \in 1..Len(named) : lines[i] = line(named[i]) /\ lines[i].id = named[i]
    BY <1>6, <1>7, <1>8
  <1>12. {lines[i].id : i \in 1..Len(lines)} = T
    BY <1>8, <1>9, <1>10, <1>11
  <1>13. \A i, j \in 1..Len(lines) : lines[i].id = lines[j].id => i = j
    BY <1>5, <1>10, <1>11
  <1>14. \A i \in 1..Len(lines) :
           lines[i].id \notin Told(report[r]) => lines[i].state = "Disconnected"
    BY <1>7, <1>8, <1>10, <1>11
  <1> QED  BY <1>2, <1>10, <1>12, <1>13, <1>14 DEF lines

\* A report goes on by the line of its next capability.
LEMMA LineAdded ==
  ASSUME NEW b \in Status!Report, ReportRight(b, rows), b.at \in {"next", "newest"},
         b.position <= 7, NEW line \in Status!Line, line.id = Status!Order[b.position],
         line.id \in Due(b), LineRight(b, line, rows)
  PROVE  LET d == [b EXCEPT !.at = "next", !.position = @ + 1, !.lines = Append(@, line)]
         IN  d \in Status!Report /\ ReportRight(d, rows)
  <1> DEFINE d == [b EXCEPT !.at = "next", !.position = @ + 1, !.lines = Append(@, line)]
             next == b.position + 1
             lines == Append(b.lines, line)
  <1>1. /\ b.position \in 1..7 /\ b.lines \in Seq(Status!Line) /\ Len(b.lines) \in Nat
        /\ \A i \in 1..Len(b.lines) : b.lines[i] \in Status!Line
    BY ReportParts
  <1>2. /\ lines \in Seq(Status!Line) /\ Len(lines) = Len(b.lines) + 1
        /\ lines[Len(b.lines) + 1] = line
        /\ \A i \in 1..Len(b.lines) : lines[i] = b.lines[i]
        /\ \A i : i \in 1..Len(lines) <=> i \in 1..Len(b.lines) \/ i = Len(b.lines) + 1
    BY <1>1
  <1>3. next \in 1..8
    BY <1>1
  <1>4. d = [b EXCEPT !.at = "next", !.position = next, !.lines = lines]
    OBVIOUS
  <1> HIDE DEF d, next, lines
  <1>5. /\ d.at = "next" /\ d.position = next /\ d.lines = lines
        /\ d.methodology = b.methodology /\ d.reachable = b.reachable
    BY <1>4 DEF Status!Report
  <1>6. d \in Status!Report
    <2>1. Len(Status!Order) = 7
      BY OrderRight
    <2>2. next \in 1..Len(Status!Order) + 1
      BY <1>3, <2>1
    <2>3. lines \in Seq(Status!Line)
      BY <1>2
    <2> QED  BY <1>4, <2>2, <2>3 DEF Status!Report
  <1>7. Told(d) = Told(b) /\ Due(d) = Due(b)
    BY <1>5 DEF Told, Due
  <1>8. Ids(d) = Ids(b) \cup {line.id}
    BY <1>2, <1>5 DEF Ids
  <1>9. PassedBy(d) = PassedBy(b) \cup {line.id}
    <2>1. \A i : i \in 1..(next - 1) <=> i \in 1..(b.position - 1) \/ i = b.position
      BY <1>1 DEF next
    <2> QED  BY <1>5, <2>1 DEF PassedBy
  <1>10. /\ Ids(b) = PassedBy(b) \cap Due(b) /\ b.reachable
         /\ \A i, j \in 1..Len(b.lines) : b.lines[i].id = b.lines[j].id => i = j
         /\ \A i \in 1..Len(b.lines) : LineRight(b, b.lines[i], rows)
    BY DEF ReportRight, ReportGrown
  <1>11. ReportGrown(d, rows)
    BY <1>5, <1>7, <1>8, <1>9, <1>10 DEF ReportGrown
  <1>12. line.id \notin Ids(b)
    <2>1. \A i \in 1..(b.position - 1) : i \in 1..7 /\ i # b.position
      BY <1>1
    <2>2. line.id \notin PassedBy(b)
      BY <1>1, <2>1, OrderRight DEF PassedBy
    <2> QED  BY <1>10, <2>2
  <1>13. \A i \in 1..Len(b.lines) : b.lines[i].id \in Ids(b)
    BY DEF Ids
  <1>14. \A i, j \in 1..Len(d.lines) : d.lines[i].id = d.lines[j].id => i = j
    BY <1>2, <1>5, <1>10, <1>12, <1>13
  <1>15. \A other : LineRight(b, other, rows) => LineRight(d, other, rows)
    BY <1>5, <1>7 DEF LineRight
  <1>16. \A i \in 1..Len(d.lines) : LineRight(d, d.lines[i], rows)
    BY <1>2, <1>5, <1>10, <1>15
  <1> QED  BY <1>6, <1>11, <1>14, <1>16 DEF ReportRight, d

-----------------------------------------------------------------------------
(* The steps of the report *)

LEMMA StatusInvInit == Status!Init => StatusInv
  <1> SUFFICES ASSUME Status!Init PROVE StatusInv
    OBVIOUS
  <1> DEFINE b == [at |-> "idle", methodology |-> <<>>, position |-> 1, counted |-> 0,
                   lines |-> <<>>, reachable |-> TRUE]
  <1>1. rows = [c \in Evidence |-> {}] /\ report = [r \in Request |-> b]
    BY DEF Status!Init, Evidence
  <1>2. b \in Status!Report
    <2>1. 1 \in 1..Len(Status!Order) + 1
      BY OrderRight
    <2>2. 0 \in 0..MaxRows
      BY ByosAssumption
    <2>3. <<>> \in Seq(Status!Item) /\ <<>> \in Seq(Status!Line)
      OBVIOUS
    <2> QED  BY <2>1, <2>2, <2>3 DEF Status!Report
  <1>3. ReportRight(b, rows)
    <2>1. b.at = "idle" /\ b.lines = <<>> /\ b.position = 1 /\ b.reachable
      OBVIOUS
    <2>2. 1..Len(b.lines) = {}
      BY <2>1
    <2> HIDE DEF b
    <2> QED  BY <2>1, <2>2 DEF ReportRight, ReportGrown
  <1> HIDE DEF b
  <1>4. Status!TypeOK
    BY <1>1, <1>2 DEF Status!TypeOK, Evidence
  <1> QED  BY <1>1, <1>3, <1>4 DEF StatusInv

LEMMA InsertInv ==
  ASSUME StatusInv, NEW c \in Evidence, NEW date \in Status!Date, Status!Insert(c, date)
  PROVE  StatusInv'
  <1>1. rows' = [rows EXCEPT ![c] = @ \cup {date}] /\ report' = report
    BY DEF Status!Insert
  <1>2. rows \in [Evidence -> SUBSET Status!Date] /\ report \in [Request -> Status!Report]
    BY DEF StatusInv, Status!TypeOK, Evidence
  <1>3. rows' \in [Evidence -> SUBSET Status!Date]
    BY <1>1, <1>2
  <1>4. Status!TypeOK'
    BY <1>1, <1>2, <1>3 DEF Status!TypeOK, Evidence
  <1>5. ASSUME NEW e \in Evidence
        PROVE  /\ rows[e] \subseteq rows'[e]
               /\ Cardinality(rows[e]) \in Nat /\ Cardinality(rows'[e]) \in Nat
               /\ Cardinality(rows[e]) <= Cardinality(rows'[e])
    <2>1. rows[e] \subseteq rows'[e] /\ rows'[e] \in SUBSET (1..MaxRows)
      BY <1>1, <1>2, <1>3 DEF Status!Date
    <2>2. IsFiniteSet(rows'[e])
      <3>1. IsFiniteSet(1..MaxRows)
        BY ByosAssumption, FS_Interval
      <3> QED  BY <2>1, <3>1, FS_Subset
    <2>3. IsFiniteSet(rows[e]) /\ Cardinality(rows[e]) <= Cardinality(rows'[e])
      BY <2>1, <2>2, FS_Subset
    <2> QED  BY <2>1, <2>2, <2>3, FS_CardinalityType
  <1>6. ASSUME NEW r \in Request PROVE ReportRight(report[r], rows')
    <2>1. report[r] \in Status!Report /\ ReportRight(report[r], rows)
      BY <1>2 DEF StatusInv
    <2> QED  BY <1>5, <2>1, RowsGrow
  <1> QED  BY <1>1, <1>4, <1>6 DEF StatusInv

\* What is known of a report in any state.
LEMMA ReportKnown ==
  ASSUME StatusInv, NEW r \in Request
  PROVE  /\ report[r] \in Status!Report /\ ReportRight(report[r], rows)
         /\ report \in [Request -> Status!Report]
  BY DEF StatusInv, Status!TypeOK

\* What BYOS answers is filtered to what the report knows.
LEMMA ApprovedItems ==
  ASSUME NEW answer \in Methodology \cup {<<>>}
  PROVE  Status!Approved(answer) \in Seq(Status!Item)
  <1> DEFINE Raw == [section : STRING, status : STRING]
             good == {item \in Status!ToSet(answer) :
                        /\ item.section \in DOMAIN Status!CapabilityOf
                        /\ item.status \in Status!Vocabulary}
             list == Status!Approved(answer)
  <1>1. answer \in Seq(Raw)
    <2>1. Methodology \subseteq Seq(Raw)
      BY ByosAssumption
    <2> HIDE DEF Raw
    <2>2. <<>> \in Seq(Raw)
      OBVIOUS
    <2> QED  BY <2>1, <2>2
  <1>2. list = Only(answer, good)
    BY StatusTerms DEF Status!Approved
  <1>3. good \subseteq Raw
    <2>1. \A item \in ToSet(answer) : item \in Raw
      <3> HIDE DEF Raw
      <3> QED  BY <1>1, Members
    <2> QED  BY <2>1, StatusTerms
  <1>4. good \subseteq Status!Item
    BY <1>3 DEF Status!Item
  <1> HIDE DEF Raw, good, list
  <1>5. list \in Seq(Raw)
    BY <1>1, <1>2, OnlyKeeps
  <1>6. \A n \in 1..Len(list) : list[n] \in good
    BY <1>1, <1>2, OnlyKeeps
  <1>7. list \in Seq(Status!Item)
    BY <1>4, <1>5, <1>6
  <1> QED  BY <1>7 DEF list

LEMMA BeginInv ==
  ASSUME StatusInv, NEW r \in Request, Status!Begin(r) \/ Status!AskMethodology(r)
  PROVE  StatusInv'
  <1>1. report[r] \in Status!Report /\ ReportRight(report[r], rows)
        /\ report \in [Request -> Status!Report]
    BY ReportKnown
  <1>2. ASSUME NEW b \in Status!Report, report[r].at \in {"idle", "methodology"},
               b.at \in {"methodology", "next"}, b.lines = report[r].lines,
               b.position = report[r].position, b.reachable = report[r].reachable
        PROVE  ReportRight(b, rows)
    <2>1. b.lines = <<>> /\ b.position = 1 /\ b.reachable
      BY <1>1, <1>2 DEF ReportRight, ReportGrown
    <2>2. 1..Len(b.lines) = {} /\ 1..(b.position - 1) = {}
      BY <2>1
    <2>3. Ids(b) = {} /\ PassedBy(b) = {}
      BY <2>2 DEF Ids, PassedBy
    <2> QED  BY <1>2, <2>1, <2>2, <2>3 DEF ReportRight, ReportGrown
  <1>3. CASE Status!Begin(r)
    <2> DEFINE b == [report[r] EXCEPT !.at = "methodology"]
    <2>1. report[r].at = "idle" /\ report' = [report EXCEPT ![r] = b] /\ UNCHANGED rows
      BY <1>1, <1>3 DEF Status!Begin
    <2>2. /\ b \in Status!Report /\ b.at = "methodology" /\ b.lines = report[r].lines
          /\ b.position = report[r].position /\ b.reachable = report[r].reachable
      BY <1>1 DEF Status!Report
    <2> HIDE DEF b
    <2> QED  BY <1>2, <2>1, <2>2, ReportMoves
  <1>4. CASE Status!AskMethodology(r)
    <2>1. PICK answer \in Methodology \cup {<<>>} :
            report' = [report EXCEPT ![r].at = "next",
                                     ![r].methodology = Status!Approved(answer)]
      BY <1>4 DEF Status!AskMethodology
    <2> DEFINE items == Status!Approved(answer)
               b == [report[r] EXCEPT !.at = "next", !.methodology = items]
    <2>2. items \in Seq(Status!Item)
      BY ApprovedItems
    <2>3. report[r].at = "methodology" /\ UNCHANGED rows
      BY <1>4 DEF Status!AskMethodology
    <2> HIDE DEF items
    <2>4. report' = [report EXCEPT ![r] = b]
      BY <1>1, <2>1 DEF items
    <2>5. /\ b \in Status!Report /\ b.at = "next" /\ b.lines = report[r].lines
          /\ b.position = report[r].position /\ b.reachable = report[r].reachable
      BY <1>1, <2>2 DEF Status!Report
    <2> HIDE DEF b
    <2> QED  BY <1>2, <2>3, <2>4, <2>5, ReportMoves
  <1> QED  BY <1>3, <1>4

\* A step that goes to the next line, or past a capability that is not due, or to the
\* statements of one that is.
LEMMA PassInv ==
  ASSUME StatusInv, NEW r \in Request,
         \/ Status!TakeMethodology(r) \/ Status!LeaveOut(r) \/ Status!CountRows(r)
         \/ Status!ReadNewest(r)
  PROVE  StatusInv'
  <1> DEFINE b == report[r]
             c == Status!Order[b.position]
  <1>1. b \in Status!Report /\ ReportRight(b, rows) /\ report \in [Request -> Status!Report]
        /\ Status!TypeOK
    BY ReportKnown DEF StatusInv
  <1>2. b.position \in 1..8 /\ b.counted \in 0..MaxRows /\ b.reachable \in BOOLEAN
    BY <1>1, ReportParts
  <1>3. Status!Current(r) = c /\ (Status!Speaks(r, c) <=> c \in Told(b))
    BY StatusTerms DEF Status!Current
  <1>4. Status!AtCapability(r) <=> b.at = "next" /\ b.position <= 7
    BY OrderRight DEF Status!AtCapability
  <1> HIDE DEF b
  <1>5. b.at \in {"next", "newest"} => b.reachable /\ Ids(b) = PassedBy(b) \cap Due(b)
    BY <1>1 DEF ReportRight, ReportGrown
  <1>6. b.position <= 7 => c \notin Status!Always
    BY <1>2, OrderRight
  <1>7. ASSUME NEW line \in Status!Line, line.id = c, c \in Due(b), LineRight(b, line, rows),
               b.at \in {"next", "newest"}, b.position <= 7,
               report' = Status!Append1(r, line), UNCHANGED rows
        PROVE  StatusInv'
    <2> DEFINE d == [b EXCEPT !.at = "next", !.position = @ + 1, !.lines = Append(@, line)]
    <2>1. d \in Status!Report /\ ReportRight(d, rows)
      BY <1>1, <1>7, LineAdded
    <2>2. report' = [report EXCEPT ![r] = d]
      BY <1>1, <1>7 DEF Status!Append1, b
    <2> HIDE DEF d
    <2> QED  BY <1>7, <2>1, <2>2, ReportMoves
  <1>8. CASE Status!TakeMethodology(r)
    <2> DEFINE line == Status!Spoken(r, c)
    <2>1. /\ b.at = "next" /\ b.position <= 7 /\ c \in Told(b)
          /\ report' = Status!Append1(r, line) /\ UNCHANGED rows
      BY <1>3, <1>4, <1>8 DEF Status!TakeMethodology
    <2>2. line \in Status!Line /\ line.id = c
      BY <1>1, <2>1, SpokenLine DEF b
    <2> HIDE DEF line
    <2>3. LineRight(b, line, rows)
      BY <1>6, <2>1, <2>2 DEF LineRight, Status!Always
    <2> QED  BY <1>7, <2>1, <2>2, <2>3 DEF Due
  <1>9. CASE Status!LeaveOut(r)
    <2> DEFINE next == b.position + 1
               d == [b EXCEPT !.position = next]
    <2>1. /\ b.at = "next" /\ b.position <= 7 /\ c \notin Due(b) /\ UNCHANGED rows
          /\ report' = [report EXCEPT ![r].position = @ + 1]
      BY <1>3, <1>4, <1>9 DEF Status!LeaveOut, Due, Evidence
    <2>2. report' = [report EXCEPT ![r] = d]
      BY <1>1, <2>1 DEF b
    <2>3. next \in 1..Len(Status!Order) + 1
      BY <1>2, <2>1, OrderRight
    <2>4. \A i : i \in 1..(next - 1) <=> i \in 1..(b.position - 1) \/ i = b.position
      BY <1>2
    <2> HIDE DEF next
    <2>5. /\ d \in Status!Report /\ d.at = "next" /\ d.lines = b.lines /\ d.position = next
          /\ d.methodology = b.methodology /\ d.reachable = b.reachable
      BY <1>1, <2>1, <2>3 DEF Status!Report
    <2> HIDE DEF d
    <2>6. Ids(d) = Ids(b) /\ Told(d) = Told(b) /\ Due(d) = Due(b)
      BY <2>5 DEF Ids, Told, Due
    <2>7. PassedBy(d) \cap Due(d) = PassedBy(b) \cap Due(b)
      BY <2>1, <2>4, <2>5, <2>6 DEF PassedBy
    <2>8. ReportGrown(d, rows)
      BY <1>5, <2>1, <2>5, <2>6, <2>7 DEF ReportGrown
    <2>9. \A line : LineRight(b, line, rows) => LineRight(d, line, rows)
      BY <2>5, <2>6 DEF LineRight
    <2>10. ReportRight(d, rows)
      BY <1>1, <2>5, <2>8, <2>9 DEF ReportRight
    <2> QED  BY <2>1, <2>2, <2>5, <2>10, ReportMoves
  <1>10. CASE Status!CountRows(r)
    <2> DEFINE size == Cardinality(rows[c])
               d == [b EXCEPT !.at = "newest", !.counted = size]
    <2>1. /\ b.at = "next" /\ b.position <= 7 /\ c \notin Told(b) /\ c \in Evidence
          /\ UNCHANGED rows
          /\ report' = [report EXCEPT ![r].at = "newest", ![r].counted = size]
      BY <1>3, <1>4, <1>10, StatusTerms DEF Status!CountRows, Evidence
    <2>2. size \in 0..MaxRows
      <3>1. rows[c] \in SUBSET (1..MaxRows) /\ size \in Nat
        BY <1>1, <2>1, TablesFinite
      <3>2. IsFiniteSet(1..MaxRows) /\ Cardinality(1..MaxRows) = MaxRows
        BY ByosAssumption, FS_Interval
      <3>3. size <= MaxRows
        BY <3>1, <3>2, FS_Subset
      <3> QED  BY <3>1, <3>3, ByosAssumption
    <2>3. size <= size
      BY <2>2
    <2> HIDE DEF size
    <2>4. report' = [report EXCEPT ![r] = d]
      BY <1>1, <2>1 DEF b
    <2>5. /\ d \in Status!Report /\ d.at = "newest" /\ d.lines = b.lines
          /\ d.position = b.position /\ d.methodology = b.methodology
          /\ d.reachable = b.reachable /\ d.counted = size
      BY <1>1, <2>2 DEF Status!Report
    <2> HIDE DEF d
    <2>6. Ids(d) = Ids(b) /\ Told(d) = Told(b) /\ Due(d) = Due(b) /\ PassedBy(d) = PassedBy(b)
      BY <2>5 DEF Ids, Told, Due, PassedBy
    <2>7. ReportGrown(d, rows)
      BY <1>5, <2>1, <2>3, <2>5, <2>6 DEF ReportGrown, size
    <2>8. \A line : LineRight(b, line, rows) => LineRight(d, line, rows)
      BY <2>5, <2>6 DEF LineRight
    <2>9. ReportRight(d, rows)
      BY <1>1, <2>5, <2>7, <2>8 DEF ReportRight
    <2> QED  BY <2>1, <2>4, <2>5, <2>9, ReportMoves
  <1>11. CASE Status!ReadNewest(r)
    <2> DEFINE line == Status!EvidenceLine(c, b.counted,
                         IF rows[c] = {} THEN None ELSE Status!Max(rows[c]))
    <2>1. b.at = "newest" /\ report' = Status!Append1(r, line) /\ UNCHANGED rows
      BY <1>3, <1>11 DEF Status!ReadNewest, b
    <2>2. /\ b.position <= 7 /\ c \in Evidence \ Told(b) /\ b.counted <= Cardinality(rows[c])
      BY <1>1, <2>1 DEF ReportRight, ReportGrown
    <2>3. b.counted \in Nat
      BY <1>2, ByosAssumption
    <2>4. /\ line \in Status!Line /\ line.id = c /\ line.state # "Disconnected"
          /\ line.state = "Connected" =>
               line.count \in 1..Cardinality(rows[c]) /\ line.last \in rows[c]
      BY <1>1, <2>2, <2>3, TableLine
    <2> HIDE DEF line
    <2>5. LineRight(b, line, rows)
      BY <1>5, <1>6, <2>1, <2>2, <2>4 DEF LineRight, Status!Always
    <2> QED  BY <1>7, <2>1, <2>2, <2>4, <2>5 DEF Due
  <1> QED  BY <1>8, <1>9, <1>10, <1>11

LEMMA DueCapabilities ==
  ASSUME NEW b \in Status!Report
  PROVE  Due(b) \subseteq Evidence \cup Status!Capability /\ Due(b) \cap Status!Always = {}
  <1>1. Due(b) \subseteq Evidence \cup Status!Capability
    BY ToldCapabilities DEF Due
  <1> QED  BY <1>1, OrderRight

LEMMA AllReadInv ==
  ASSUME StatusInv, NEW r \in Request, Status!AllRead(r)
  PROVE  StatusInv'
  <1> DEFINE b == report[r]
             d == [b EXCEPT !.at = "topology"]
  <1>1. b \in Status!Report /\ ReportRight(b, rows) /\ report \in [Request -> Status!Report]
    BY ReportKnown
  <1>2. b.position = 8 /\ b.at = "next"
    <2>1. b.position > 7 /\ b.at = "next"
      BY OrderRight DEF Status!AllRead
    <2>2. b.position \in 1..8
      BY <1>1, ReportParts
    <2> HIDE DEF b
    <2> QED  BY <2>1, <2>2
  <1>3. report' = [report EXCEPT ![r] = d] /\ UNCHANGED rows
    BY <1>1 DEF Status!AllRead
  <1> HIDE DEF b
  <1>4. /\ d \in Status!Report /\ d.at = "topology" /\ d.lines = b.lines
        /\ d.methodology = b.methodology /\ d.reachable = b.reachable
    BY <1>1 DEF Status!Report
  <1> HIDE DEF d
  <1>5. Ids(d) = Ids(b) /\ Told(d) = Told(b) /\ Due(d) = Due(b)
    BY <1>4 DEF Ids, Told, Due
  <1>6. Due(b) \subseteq PassedBy(b)
    <2>1. Due(b) \subseteq Evidence \cup Status!Capability
      BY <1>1, DueCapabilities
    <2>2. \A i \in 1..7 : i \in 1..(b.position - 1)
      BY <1>2
    <2> QED  BY <2>1, <2>2, OrderRight DEF PassedBy
  <1>7. Ids(d) = Due(d)
    BY <1>1, <1>2, <1>5, <1>6 DEF ReportRight, ReportGrown
  <1>8. ReportGrown(d, rows)
    BY <1>4, <1>7 DEF ReportGrown
  <1>9. \A line : LineRight(b, line, rows) => LineRight(d, line, rows)
    BY <1>4, <1>5 DEF LineRight
  <1>10. ReportRight(d, rows)
    BY <1>1, <1>4, <1>8, <1>9 DEF ReportRight
  <1> QED  BY <1>3, <1>4, <1>10, ReportMoves

LEMMA LoseDatabaseInv ==
  ASSUME StatusInv, NEW r \in Request, Status!LoseDatabase(r)
  PROVE  StatusInv'
  <1> DEFINE b == report[r]
             lines == Status!Disconnected(r)
             d == [b EXCEPT !.at = "topology", !.reachable = FALSE, !.lines = lines]
  <1>1. b \in Status!Report /\ ReportRight(b, rows) /\ report \in [Request -> Status!Report]
        /\ Status!TypeOK
    BY ReportKnown DEF StatusInv
  <1>2. report' = [report EXCEPT ![r].at = "topology", ![r].reachable = FALSE,
                                 ![r].lines = lines] /\ UNCHANGED rows
    BY DEF Status!LoseDatabase
  <1>3. /\ lines \in Seq(Status!Line)
        /\ {lines[i].id : i \in 1..Len(lines)} = Due(b)
        /\ \A i, j \in 1..Len(lines) : lines[i].id = lines[j].id => i = j
        /\ \A i \in 1..Len(lines) : lines[i].id \notin Told(b) => lines[i].state = "Disconnected"
    BY <1>1, LostLines
  <1> HIDE DEF lines
  <1>4. report' = [report EXCEPT ![r] = d]
    BY <1>1, <1>2
  <1> HIDE DEF b
  <1>5. /\ d \in Status!Report /\ d.at = "topology" /\ d.lines = lines
        /\ d.methodology = b.methodology /\ d.reachable = FALSE
    BY <1>1, <1>3 DEF Status!Report
  <1> HIDE DEF d
  <1>6. Ids(d) = Due(d) /\ Told(d) = Told(b) /\ Due(d) = Due(b)
    <2>1. Told(d) = Told(b) /\ Due(d) = Due(b)
      BY <1>5 DEF Told, Due
    <2>2. Ids(d) = {lines[i].id : i \in 1..Len(lines)}
      BY <1>5 DEF Ids
    <2> QED  BY <1>3, <2>1, <2>2
  <1>7. ReportGrown(d, rows)
    BY <1>5, <1>6 DEF ReportGrown
  <1>8. ASSUME NEW i \in 1..Len(d.lines) PROVE LineRight(d, d.lines[i], rows)
    <2>1. lines[i].id \in Due(b) /\ Due(b) \cap Status!Always = {}
      BY <1>1, <1>3, <1>5, DueCapabilities
    <2>2. lines[i].id # "vnp_streaming"
      BY <2>1 DEF Status!Always
    <2>3. lines[i].id \notin Told(d) => lines[i].state = "Disconnected"
      BY <1>3, <1>5, <1>6
    <2> QED  BY <1>5, <2>2, <2>3 DEF LineRight
  <1>9. ReportRight(d, rows)
    BY <1>3, <1>5, <1>7, <1>8 DEF ReportRight
  <1> QED  BY <1>2, <1>4, <1>5, <1>9, ReportMoves

\* The lines that complete a report.
LEMMA FinalLines ==
  ASSUME NEW answer \in Topology \cup {None}, NEW up \in BOOLEAN
  PROVE  LET tail == <<Status!RegistryLine(answer),
                       Status!Said("vabp_certification", "Not Yet Wired", 0, None),
                       Status!Said("vnp_performance_assurance", "Not Yet Wired", 0, None),
                       Status!Said("vnp_streaming",
                                   IF up THEN "Connected" ELSE "Disconnected", 0, None)>>
         IN  /\ tail \in Seq(Status!Line) /\ Len(tail) = 4
             /\ \A i \in 1..4 : tail[i] \in Status!Line
             /\ tail[1].id = "vnp_node_registry" /\ tail[2].id = "vabp_certification"
             /\ tail[3].id = "vnp_performance_assurance" /\ tail[4].id = "vnp_streaming"
             /\ tail[4].state = "Disconnected" <=> ~ up
  <1> DEFINE a == Status!RegistryLine(answer)
             b == Status!Said("vabp_certification", "Not Yet Wired", 0, None)
             c == Status!Said("vnp_performance_assurance", "Not Yet Wired", 0, None)
             streams == IF up THEN "Connected" ELSE "Disconnected"
             d == Status!Said("vnp_streaming", streams, 0, None)
  <1>1. {"Not Yet Wired", "Connected", "Config Incomplete", "Disconnected"}
          \subseteq Status!Vocabulary
    BY DEF Status!Vocabulary
  <1>2. ASSUME NEW id \in Status!Always, NEW state \in Status!Vocabulary, NEW count \in Nat
        PROVE  /\ Status!Said(id, state, count, None) \in Status!Line
               /\ Status!Said(id, state, count, None).id = id
               /\ Status!Said(id, state, count, None).state = state
    BY DEF Status!Said, Status!Line
  <1>3. /\ "vnp_node_registry" \in Status!Always /\ "vabp_certification" \in Status!Always
        /\ "vnp_performance_assurance" \in Status!Always /\ "vnp_streaming" \in Status!Always
    BY DEF Status!Always
  <1>4. a \in Status!Line /\ a.id = "vnp_node_registry"
    <2>1. CASE answer = None
      BY <1>1, <1>2, <1>3, <2>1 DEF Status!RegistryLine
    <2>2. CASE answer # None
      <3>1. answer.active \in Nat
        BY <2>2, ByosAssumption
      <3>2. PICK state \in {"Connected", "Config Incomplete"} :
              a = Status!Said("vnp_node_registry", state, answer.active, None)
        BY <2>2 DEF Status!RegistryLine
      <3>3. state \in Status!Vocabulary
        BY <1>1
      <3> HIDE DEF a
      <3> QED  BY <1>2, <1>3, <3>1, <3>2, <3>3
    <2> QED  BY <2>1, <2>2
  <1>5. streams \in Status!Vocabulary /\ (streams = "Disconnected" <=> ~ up)
    BY <1>1
  <1> HIDE DEF a, streams
  <1>6. b \in Status!Line /\ b.id = "vabp_certification"
    BY <1>1, <1>2, <1>3
  <1>7. c \in Status!Line /\ c.id = "vnp_performance_assurance"
    BY <1>1, <1>2, <1>3
  <1>8. d \in Status!Line /\ d.id = "vnp_streaming" /\ d.state = streams
    BY <1>2, <1>3, <1>5
  <1> HIDE DEF b, c, d
  <1>9. /\ <<a, b, c, d>> \in Seq(Status!Line) /\ Len(<<a, b, c, d>>) = 4
        /\ \A i \in 1..4 : <<a, b, c, d>>[i] \in Status!Line
    BY <1>4, <1>6, <1>7, <1>8
  <1> QED  BY <1>4, <1>5, <1>6, <1>7, <1>8, <1>9 DEF a, b, c, d, streams

LEMMA AskTopologyInv ==
  ASSUME StatusInv, NEW r \in Request, Status!AskTopology(r)
  PROVE  StatusInv'
  <1> DEFINE b == report[r]
             tail(x) == <<Status!RegistryLine(x),
                          Status!Said("vabp_certification", "Not Yet Wired", 0, None),
                          Status!Said("vnp_performance_assurance", "Not Yet Wired", 0, None),
                          Status!Said("vnp_streaming",
                            IF b.reachable THEN "Connected" ELSE "Disconnected", 0, None)>>
  <1>1. b \in Status!Report /\ ReportRight(b, rows) /\ report \in [Request -> Status!Report]
    BY ReportKnown
  <1>2. PICK x \in Topology \cup {None} :
          report' = [report EXCEPT ![r].at = "answered", ![r].lines = @ \o tail(x)]
    BY DEF Status!AskTopology
  <1>3. b.at = "topology" /\ UNCHANGED rows
    BY DEF Status!AskTopology
  <1> DEFINE end == tail(x)
             lines == b.lines \o end
             d == [b EXCEPT !.at = "answered", !.lines = lines]
  <1>4. report' = [report EXCEPT ![r] = d]
    BY <1>1, <1>2
  <1>5. /\ b.lines \in Seq(Status!Line) /\ Len(b.lines) \in Nat /\ b.reachable \in BOOLEAN
        /\ \A i \in 1..Len(b.lines) : b.lines[i] \in Status!Line
    BY <1>1, ReportParts
  <1> HIDE DEF b
  <1>6. /\ end \in Seq(Status!Line) /\ Len(end) = 4
        /\ \A i \in 1..4 : end[i] \in Status!Line
        /\ end[1].id = "vnp_node_registry" /\ end[2].id = "vabp_certification"
        /\ end[3].id = "vnp_performance_assurance" /\ end[4].id = "vnp_streaming"
        /\ end[4].state = "Disconnected" <=> ~ b.reachable
    BY <1>5, FinalLines
  <1> HIDE DEF end, tail
  <1>7. /\ lines \in Seq(Status!Line) /\ Len(lines) = Len(b.lines) + 4
        /\ \A i \in 1..Len(b.lines) : lines[i] = b.lines[i]
        /\ \A i \in 1..4 : lines[Len(b.lines) + i] = end[i]
    <2> DEFINE front == b.lines
    <2>1. /\ front \in Seq(Status!Line) /\ Len(front) \in Nat
          /\ end \in Seq(Status!Line) /\ Len(end) = 4
      BY <1>5, <1>6
    <2> HIDE DEF front
    <2>2. /\ front \o end \in Seq(Status!Line) /\ Len(front \o end) = Len(front) + 4
          /\ \A i \in 1..(Len(front) + 4) :
               (front \o end)[i] = IF i <= Len(front) THEN front[i] ELSE end[i - Len(front)]
      <3>1. /\ front \o end \in Seq(Status!Line)
            /\ Len(front \o end) = Len(front) + Len(end)
            /\ \A i \in 1..(Len(front) + Len(end)) :
                 (front \o end)[i] =
                   IF i <= Len(front) THEN front[i] ELSE end[i - Len(front)]
        BY <2>1, ConcatProperties, Zenon
      <3> QED  BY <2>1, <3>1
    <2>3. ASSUME NEW i \in 1..Len(front) PROVE (front \o end)[i] = front[i]
      <3>1. i \in 1..(Len(front) + 4) /\ i <= Len(front)
        BY <2>1
      <3> QED  BY <2>2, <3>1
    <2>4. ASSUME NEW i \in 1..4 PROVE (front \o end)[Len(front) + i] = end[i]
      <3> DEFINE k == Len(front) + i
      <3>1. k \in 1..(Len(front) + 4) /\ ~ (k <= Len(front)) /\ k - Len(front) = i
        BY <2>1
      <3> HIDE DEF k
      <3>2. (front \o end)[k] = end[i]
        BY <2>2, <3>1
      <3> QED  BY <3>2 DEF k
    <2> QED  BY <2>2, <2>3, <2>4 DEF front
  <1>8. /\ \A i \in 1..Len(lines) :
             \/ i \in 1..Len(b.lines) /\ lines[i] = b.lines[i]
             \/ \E k \in 1..4 : i = Len(b.lines) + k /\ lines[i] = end[k]
        /\ \A i \in 1..Len(b.lines) : i \in 1..Len(lines)
        /\ \A k \in 1..4 : Len(b.lines) + k \in 1..Len(lines)
    <2> HIDE DEF lines
    <2>1. ASSUME NEW i \in 1..Len(lines), i \notin 1..Len(b.lines)
          PROVE  \E k \in 1..4 : i = Len(b.lines) + k /\ lines[i] = end[k]
      <3>1. i - Len(b.lines) \in 1..4 /\ i = Len(b.lines) + (i - Len(b.lines))
        BY <1>5, <1>7, <2>1
      <3>2. lines[Len(b.lines) + (i - Len(b.lines))] = end[i - Len(b.lines)]
        BY <1>7, <3>1
      <3> QED  BY <3>1, <3>2
    <2>2. \A k \in 1..4 : Len(b.lines) + k \in 1..Len(lines)
      BY <1>5, <1>7
    <2>3. \A i \in 1..Len(b.lines) : i \in 1..Len(lines)
      BY <1>5, <1>7
    <2> QED  BY <1>7, <2>1, <2>2, <2>3
  <1> HIDE DEF lines
  <1>9. /\ d \in Status!Report /\ d.at = "answered" /\ d.lines = lines
        /\ d.methodology = b.methodology /\ d.reachable = b.reachable
    BY <1>1, <1>7 DEF Status!Report
  <1> HIDE DEF d
  <1>10. Told(d) = Told(b) /\ Due(d) = Due(b)
    BY <1>9 DEF Told, Due
  <1>11. \A k \in 1..4 : k = 1 \/ k = 2 \/ k = 3 \/ k = 4
    OBVIOUS
  <1>12. /\ \A k \in 1..4 : end[k].id \in Status!Always
         /\ \A id \in Status!Always : \E k \in 1..4 : end[k].id = id
         /\ \A j, k \in 1..4 : end[j].id = end[k].id => j = k
    BY <1>6, <1>11 DEF Status!Always
  <1>13. /\ Ids(b) = Due(b) /\ Due(b) \cap Status!Always = {}
    BY <1>1, <1>3, DueCapabilities DEF ReportRight, ReportGrown
  <1>14. Ids(d) = Due(d) \cup Status!Always
    <2>1. \A i \in 1..Len(lines) : lines[i].id \in Ids(b) \cup Status!Always
      BY <1>8, <1>12 DEF Ids
    <2>2. \A id \in Ids(b) : \E i \in 1..Len(lines) : lines[i].id = id
      BY <1>7, <1>8 DEF Ids
    <2>3. \A id \in Status!Always : \E i \in 1..Len(lines) : lines[i].id = id
      <3> SUFFICES ASSUME NEW id \in Status!Always
                   PROVE  \E i \in 1..Len(lines) : lines[i].id = id
        OBVIOUS
      <3>1. PICK k \in 1..4 : end[k].id = id
        BY <1>12
      <3>2. lines[Len(b.lines) + k] = end[k] /\ Len(b.lines) + k \in 1..Len(lines)
        BY <1>7, <1>8
      <3> QED  BY <3>1, <3>2
    <2>4. Ids(d) = Ids(b) \cup Status!Always
      BY <1>9, <2>1, <2>2, <2>3 DEF Ids
    <2> QED  BY <1>10, <1>13, <2>4
  <1>15. ReportGrown(d, rows)
    BY <1>9, <1>14 DEF ReportGrown
  <1>16. ASSUME NEW i \in 1..Len(lines), NEW j \in 1..Len(lines), lines[i].id = lines[j].id
         PROVE  i = j
    <2>1. \A k \in 1..Len(b.lines) : b.lines[k].id \notin Status!Always
      BY <1>13 DEF Ids
    <2>2. CASE i \in 1..Len(b.lines) /\ j \in 1..Len(b.lines)
      BY <1>1, <1>7, <1>16, <2>2 DEF ReportRight
    <2>3. CASE i \in 1..Len(b.lines) /\ j \notin 1..Len(b.lines)
      <3>1. PICK k \in 1..4 : lines[j] = end[k]
        BY <1>8, <2>3
      <3>2. lines[i].id \notin Status!Always
        BY <1>7, <2>1, <2>3
      <3> QED  BY <1>12, <1>16, <3>1, <3>2
    <2>4. CASE i \notin 1..Len(b.lines) /\ j \in 1..Len(b.lines)
      <3>1. PICK k \in 1..4 : lines[i] = end[k]
        BY <1>8, <2>4
      <3>2. lines[j].id \notin Status!Always
        BY <1>7, <2>1, <2>4
      <3> QED  BY <1>12, <1>16, <3>1, <3>2
    <2>5. CASE i \notin 1..Len(b.lines) /\ j \notin 1..Len(b.lines)
      <3>1. PICK k \in 1..4 : i = Len(b.lines) + k /\ lines[i] = end[k]
        BY <1>8, <2>5
      <3>2. PICK m \in 1..4 : j = Len(b.lines) + m /\ lines[j] = end[m]
        BY <1>8, <2>5
      <3>3. end[k].id = end[m].id
        BY <1>16, <3>1, <3>2
      <3>4. k = m
        BY <1>12, <3>3
      <3> QED  BY <3>1, <3>2, <3>4
    <2> QED  BY <2>2, <2>3, <2>4, <2>5
  <1>17. ASSUME NEW i \in 1..Len(lines) PROVE LineRight(d, lines[i], rows)
    <2>1. CASE i \in 1..Len(b.lines)
      <3>1. LineRight(b, b.lines[i], rows)
        BY <1>1, <2>1 DEF ReportRight
      <3> QED  BY <1>7, <1>9, <1>10, <2>1, <3>1 DEF LineRight
    <2>2. CASE i \notin 1..Len(b.lines)
      <3>1. PICK k \in 1..4 : lines[i] = end[k]
        BY <1>8, <2>2
      <3>2. end[k].id \notin Evidence
        BY <1>12, OrderRight
      <3>3. end[k].id = "vnp_streaming" => k = 4
        BY <1>6, <1>12
      <3> QED  BY <1>6, <1>9, <3>1, <3>2, <3>3 DEF LineRight
    <2> QED  BY <2>1, <2>2
  <1>18. ReportRight(d, rows)
    BY <1>9, <1>15, <1>16, <1>17 DEF ReportRight
  <1> QED  BY <1>3, <1>4, <1>9, <1>18, ReportMoves

LEMMA StatusInvStep == StatusInv /\ [Status!Next]_(Status!vars) => StatusInv'
  <1> SUFFICES ASSUME StatusInv, [Status!Next]_(Status!vars) PROVE StatusInv'
    OBVIOUS
  <1>1. ASSUME NEW c \in Evidence, NEW date \in Status!Date, Status!Insert(c, date)
        PROVE  StatusInv'
    BY <1>1, InsertInv
  <1>2. ASSUME NEW r \in Request, Status!RequestStep(r) PROVE StatusInv'
    BY <1>2, BeginInv, PassInv, AllReadInv, LoseDatabaseInv, AskTopologyInv
       DEF Status!RequestStep
  <1>3. CASE UNCHANGED Status!vars
    BY <1>3 DEF Status!vars, StatusInv, Status!TypeOK
  <1> QED  BY <1>1, <1>2, <1>3 DEF Status!Next, Evidence

LEMMA StatusInvHolds == Status!Spec => []StatusInv
  BY StatusInvInit, StatusInvStep, PTL DEF Status!Spec

\* However the database fails, a report names every capability that is due once, and is
\* of one mind about the database.
THEOREM ReportsComplete == Status!Spec => []ReportComplete
  <1>1. StatusInv => ReportComplete
    <2> SUFFICES ASSUME StatusInv, NEW r \in Request, Status!Answered(r)
                 PROVE  LET named == {line.id : line \in Status!Lines(r)}
                            spoken == {Status!CapabilityOf[report[r].methodology[i].section] :
                                         i \in DOMAIN report[r].methodology}
                            backed == {line \in Status!Lines(r) :
                                         line.id \in Status!Evidential
                                         /\ ~ Status!Speaks(r, line.id)}
                            lost(line) == line.state = "Disconnected"
                        IN  /\ Len(report[r].lines) = Status!Cardinality(named)
                            /\ named = Status!Evidential \cup spoken \cup Status!Always
                            /\ \A line \in Status!Lines(r), other \in backed :
                                 line.id = "vnp_streaming" => (lost(line) <=> lost(other))
      BY DEF ReportComplete, Status!ReportComplete
    <2> DEFINE b == report[r]
               lines == b.lines
               named == {line.id : line \in Status!Lines(r)}
    <2>1. /\ b \in Status!Report /\ ReportRight(b, rows) /\ b.at = "answered"
          /\ lines \in Seq(Status!Line) /\ Len(lines) \in Nat
      BY ReportKnown, ReportParts DEF Status!Answered
    <2>2. /\ Ids(b) = Due(b) \cup Status!Always
          /\ \A i, j \in 1..Len(lines) : lines[i].id = lines[j].id => i = j
          /\ \A i \in 1..Len(lines) : LineRight(b, lines[i], rows)
      BY <2>1 DEF ReportRight, ReportGrown
    <2>3. Status!Lines(r) = {lines[i] : i \in 1..Len(lines)}
      BY <2>1 DEF Status!Lines
    <2>4. named = Ids(b)
      BY <2>3 DEF Ids
    <2>5. Len(lines) = Cardinality(Ids(b))
      <3> DEFINE f == [i \in 1..Len(lines) |-> lines[i].id]
      <3>1. f \in Bijection(1..Len(lines), Ids(b))
        BY <2>2 DEF Ids, Bijection, Injection, Surjection, IsInjective
      <3>2. IsFiniteSet(1..Len(lines)) /\ Cardinality(1..Len(lines)) = Len(lines)
        BY <2>1, FS_Interval
      <3>3. ExistsBijection(1..Len(lines), Ids(b))
        BY <3>1 DEF ExistsBijection
      <3> QED  BY <3>2, <3>3, FS_Bijection
    <2>6. ASSUME NEW line \in Status!Lines(r), NEW other \in Status!Lines(r),
                 other.id \in Status!Evidential, ~ Status!Speaks(r, other.id),
                 line.id = "vnp_streaming"
          PROVE  line.state = "Disconnected" <=> other.state = "Disconnected"
      <3>1. LineRight(b, line, rows) /\ LineRight(b, other, rows)
        BY <2>2, <2>3
      <3>2. other.id \in Evidence \ Told(b)
        BY <2>6, StatusTerms DEF Evidence
      <3> QED  BY <2>6, <3>1, <3>2 DEF LineRight
    <2>7. Len(lines) = Status!Cardinality(named)
      BY <2>4, <2>5, StatusTerms
    <2>8. named = Status!Evidential \cup Told(b) \cup Status!Always
      BY <2>2, <2>4 DEF Due, Evidence
    <2> QED  BY <2>6, <2>7, <2>8 DEF Told
  <1> QED  BY <1>1, StatusInvHolds, PTL

\* A connected line of a table has a count of its rows by now and the date of one.
THEOREM LinesDated == Status!Spec => []EvidenceDated
  <1>1. StatusInv => EvidenceDated
    <2> SUFFICES ASSUME StatusInv, NEW r \in Request, NEW line \in Status!Lines(r),
                        line.id \in Status!Evidential, ~ Status!Speaks(r, line.id),
                        line.state = "Connected"
                 PROVE  /\ line.count \in 1..Status!Cardinality(rows[line.id])
                        /\ line.last \in rows[line.id]
      BY DEF EvidenceDated, Status!EvidenceDated
    <2>1. report[r] \in Status!Report /\ ReportRight(report[r], rows)
      BY ReportKnown
    <2>2. report[r].lines \in Seq(Status!Line)
      BY <2>1, ReportParts
    <2>3. LineRight(report[r], line, rows)
      BY <2>1, <2>2 DEF ReportRight, Status!Lines
    <2>4. line.id \in Evidence \ Told(report[r])
      BY StatusTerms DEF Evidence
    <2>5. /\ line.count \in 1..Cardinality(rows[line.id])
          /\ line.last \in rows[line.id]
      BY <2>3, <2>4 DEF LineRight
    <2> QED  BY <2>5, StatusTerms
  <1> QED  BY <1>1, StatusInvHolds, PTL

-----------------------------------------------------------------------------
(* The selection.  The invariant knows how old an entry of the cache is. *)

\* Every entry of the cache expires the time to live after it was read.
CacheRight ==
  /\ now \in 0..MaxTime
  /\ cache \in [Offered -> Selection!Entry \cup {None}]
  /\ \A a \in Offered :
       cache[a] # None => cache[a].expires = cache[a].read + TTL /\ cache[a].read <= now

\* A call that looks at a candidate has one left, and none of its scores is old.
SelectRight ==
  /\ select \in Selection!Progress
  /\ select.at = "idle" <=> select.call = None
  /\ select.at = "selected" <=> select.best # None
  /\ select.at # "idle" => Len(select.got) <= Len(select.call.candidates)
  /\ select.at \in {"take", "fetch"} => Len(select.got) < Len(select.call.candidates)
  /\ Selection!ScoresRecent
  /\ Selection!NoneBetterLeftOut

SelectionInv == CacheRight /\ SelectRight

LEMMA SelectionTerms ==
  /\ \A S : Selection!Max(S) = Max(S)
  /\ \A S : Selection!Min(S) = Min(S)
  /\ \A l : Selection!ToSet(l) = ToSet(l)
  /\ \A S : Selection!Cardinality(S) = Cardinality(S)
  /\ \A S, R : Selection!InOrder(S, R) = InOrder(S, R)
  <1>1. \A S : Selection!Max(S) = Max(S)
    BY DEF Selection!Max, Max
  <1>2. \A S : Selection!Min(S) = Min(S)
    BY DEF Selection!Min, Min
  <1>3. \A l : Selection!ToSet(l) = ToSet(l)
    BY DEF Selection!ToSet, ToSet
  <1>4. \A S : Selection!Cardinality(S) = Cardinality(S)
    BY DEF Selection!Cardinality, Cardinality
  <1>5. \A S, R : Selection!InOrder(S, R) = InOrder(S, R)
    BY DEF Selection!InOrder, InOrder, Selection!Cardinality, Cardinality
  <1> QED  BY <1>1, <1>2, <1>3, <1>4, <1>5

LEMMA Extremes ==
  ASSUME NEW n \in Nat, NEW S \in SUBSET (1..n), S # {}
  PROVE  /\ Max(S) \in S /\ \A y \in S : y <= Max(S)
         /\ Min(S) \in S /\ \A y \in S : Min(S) <= y
  <1>1. PICK x \in S : \A y \in S : x >= y
    BY LastPlace
  <1>2. Max(S) \in S /\ \A y \in S : Max(S) >= y
    BY <1>1 DEF Max
  <1>3. S \in SUBSET Nat
    OBVIOUS
  <1>4. PICK z \in S : \A y \in S : z <= y
    BY <1>3, LeastNumber
  <1>5. Min(S) \in S /\ \A y \in S : Min(S) <= y
    BY <1>4 DEF Min
  <1>6. \A y \in S : y <= Max(S)
    BY <1>2, <1>3
  <1> QED  BY <1>2, <1>5, <1>6

\* The parts of a call and of its scores.
LEMMA SelectParts ==
  ASSUME SelectionInv
  PROVE  /\ select.got \in Seq(Selection!Fetched \cup {None}) /\ Len(select.got) \in Nat
         /\ now \in Nat
         /\ select.at # "idle" =>
              /\ select.call \in Call
              /\ select.call.candidates \in Seq(Offered)
              /\ Len(select.call.candidates) \in Nat
              /\ select.call.fallback_chain \in Nat
  <1>1. /\ select \in Selection!Progress /\ now \in 0..MaxTime
        /\ select.at = "idle" <=> select.call = None
    BY DEF SelectionInv, CacheRight, SelectRight
  <1>2. /\ select.got \in Seq(Selection!Fetched \cup {None})
        /\ select.call \in Call \cup {None}
    BY <1>1 DEF Selection!Progress
  <1>6. now \in Nat
    BY <1>1, SelectionAssumption
  <1>3. \A call \in Call : call.candidates \in Seq(Offered) /\ call.fallback_chain \in Nat
    BY SelectionAssumption
  <1>4. \A l \in Seq(Offered) : Len(l) \in Nat
    OBVIOUS
  <1>5. Len(select.got) \in Nat
    BY <1>2
  <1> QED  BY <1>1, <1>2, <1>3, <1>4, <1>5, <1>6

\* A candidate with a score has a place of its own among the names, and a number for a
\* score; there are finitely many.
LEMMA ValidRight ==
  ASSUME SelectionInv, select.at # "idle"
  PROVE  /\ IsFiniteSet(Selection!Valid) /\ Selection!Valid \subseteq Offered
         /\ \A a \in Selection!Valid : Selection!ScoreOf(a).composite \in Int
         /\ \A a \in Selection!Valid : Selection!Position(a) \in Int
         /\ \A a, b \in Selection!Valid :
              Selection!Position(a) = Selection!Position(b) => a = b
  <1> DEFINE got == select.got
             names == select.call.candidates
             named(a) == Selection!Named(a)
  <1>1. /\ got \in Seq(Selection!Fetched \cup {None}) /\ Len(got) \in Nat
        /\ names \in Seq(Offered) /\ Len(names) \in Nat /\ Len(got) <= Len(names)
    BY SelectParts DEF SelectionInv, SelectRight
  <1>2. ASSUME NEW a PROVE named(a) = {i \in 1..Len(got) : names[i] = a}
    BY <1>1 DEF Selection!Named
  <1> HIDE DEF got, names, named
  <1>3. ASSUME NEW a \in Selection!Valid
        PROVE  /\ Max(named(a)) \in 1..Len(got) /\ got[Max(named(a))] # None
               /\ Min(named(a)) \in 1..Len(got) /\ names[Min(named(a))] = a
               /\ a \in Offered
    <2>1. a \in Offered /\ named(a) # {} /\ got[Max(named(a))] # None
      BY SelectionTerms DEF Selection!Valid, named, got
    <2>2. named(a) \in SUBSET (1..Len(got))
      BY <1>2
    <2>3. Max(named(a)) \in named(a) /\ Min(named(a)) \in named(a)
      BY <1>1, <2>1, <2>2, Extremes
    <2> QED  BY <1>2, <2>1, <2>3
  <1>4. ASSUME NEW a \in Selection!Valid PROVE Selection!ScoreOf(a).composite \in Int
    <2>1. got[Max(named(a))] \in Selection!Fetched
      BY <1>1, <1>3
    <2>2. got[Max(named(a))].score \in Score
      BY <2>1 DEF Selection!Fetched
    <2>3. Selection!ScoreOf(a) \in Score
      BY <2>2, SelectionTerms DEF Selection!ScoreOf, named, got
    <2> QED  BY <2>3, SelectionAssumption
  <1>5. \A a : Selection!Position(a) = Min(named(a))
    BY SelectionTerms DEF Selection!Position, named
  <1>6. IsFiniteSet(Selection!Valid)
    <2> DEFINE place == [a \in Selection!Valid |-> Min(named(a))]
    <2>1. IsFiniteSet(1..Len(got))
      BY <1>1, FS_Interval
    <2>2. place \in Injection(Selection!Valid, 1..Len(got))
      BY <1>3 DEF Injection, IsInjective
    <2> HIDE DEF place
    <2> QED  BY <2>1, <2>2, FS_Injection
  <1>7. \A a \in Selection!Valid : Min(named(a)) \in Int
    BY <1>1, <1>3
  <1>8. \A a, b \in Selection!Valid : Min(named(a)) = Min(named(b)) => a = b
    BY <1>3
  <1> QED  BY <1>3, <1>4, <1>5, <1>6, <1>7, <1>8

LEMMA SelectKept ==
  ASSUME UNCHANGED select
  PROVE  Selection!NoneBetterLeftOut' <=> Selection!NoneBetterLeftOut
  BY DEF Selection!NoneBetterLeftOut, Selection!Selected, Selection!Valid, Selection!Named,
         Selection!Preferred, Selection!Meets, Selection!ScoreOf

LEMMA Unselected ==
  ASSUME select'.at # "selected" PROVE Selection!NoneBetterLeftOut'
  BY DEF Selection!NoneBetterLeftOut, Selection!Selected

LEMMA SelectionInvInit == Selection!Init => SelectionInv
  <1> SUFFICES ASSUME Selection!Init PROVE SelectionInv
    OBVIOUS
  <1>1. now = 0 /\ cache = [a \in Offered |-> None] /\ select = Selection!Idle
    BY DEF Selection!Init
  <1>2. /\ Selection!Idle.at = "idle" /\ Selection!Idle.call = None
        /\ Selection!Idle.best = None
        /\ Selection!Idle.got = <<>> /\ Selection!Idle \in Selection!Progress
    BY SelectionAssumption DEF Selection!Idle, Selection!Progress
  <1>3. Selection!ScoresRecent
    BY <1>1, <1>2 DEF Selection!ScoresRecent
  <1>4. Selection!NoneBetterLeftOut
    BY <1>1, <1>2 DEF Selection!NoneBetterLeftOut, Selection!Selected
  <1>5. CacheRight
    BY <1>1, SelectionAssumption DEF CacheRight
  <1>6. SelectRight
    BY <1>1, <1>2, <1>3, <1>4 DEF SelectRight
  <1> QED  BY <1>5, <1>6 DEF SelectionInv

LEMMA TickInv == SelectionInv /\ Selection!Tick => SelectionInv'
  <1> SUFFICES ASSUME SelectionInv, Selection!Tick PROVE SelectionInv'
    OBVIOUS
  <1>1. now' = now + 1 /\ now < MaxTime /\ UNCHANGED <<cache, select>>
    BY DEF Selection!Tick
  <1>2. now \in Nat /\ now' \in 0..MaxTime
    BY <1>1, SelectParts, SelectionAssumption
  <1>3. CacheRight'
    <2>1. ASSUME NEW a \in Offered, cache[a] # None PROVE cache[a].read <= now'
      <3>1. cache[a] \in Selection!Entry /\ cache[a].read <= now
        BY <2>1 DEF SelectionInv, CacheRight
      <3>2. cache[a].read \in Nat
        BY <3>1, SelectionAssumption DEF Selection!Entry
      <3> QED  BY <1>1, <1>2, <3>1, <3>2
    <2> QED  BY <1>1, <1>2, <2>1 DEF SelectionInv, CacheRight
  <1>4. Selection!ScoresRecent'
    BY <1>1 DEF SelectionInv, SelectRight, Selection!ScoresRecent
  <1>5. Selection!NoneBetterLeftOut'
    BY <1>1, SelectKept DEF SelectionInv, SelectRight
  <1> QED  BY <1>1, <1>3, <1>4, <1>5 DEF SelectionInv, SelectRight

LEMMA CallInv ==
  ASSUME SelectionInv, NEW call \in Call, Selection!Begin(call)
  PROVE  SelectionInv'
  <1> DEFINE b == [Selection!Idle EXCEPT !.at = "task", !.call = call]
  <1>1. select' = b /\ UNCHANGED <<now, cache>>
    BY DEF Selection!Begin
  <1>2. /\ b \in Selection!Progress /\ b.at = "task" /\ b.call = call
        /\ b.got = <<>> /\ b.best = None
    <2> DEFINE idle == Selection!Idle
    <2>1. idle \in Selection!Progress /\ idle.got = <<>> /\ idle.best = None
      BY SelectionAssumption DEF Selection!Idle, Selection!Progress
    <2>2. b = [idle EXCEPT !.at = "task", !.call = call]
      OBVIOUS
    <2> HIDE DEF b, idle
    <2> QED  BY <2>1, <2>2 DEF Selection!Progress
  <1> HIDE DEF b
  <1>3. call # None /\ Len(call.candidates) \in Nat
    <2>1. call.candidates \in Seq(Offered)
      BY SelectionAssumption
    <2> QED  BY <2>1, SelectionAssumption
  <1>4. Selection!ScoresRecent'
    BY <1>1, <1>2 DEF Selection!ScoresRecent
  <1>5. Selection!NoneBetterLeftOut'
    BY <1>1, <1>2, Unselected
  <1>6. CacheRight'
    BY <1>1 DEF SelectionInv, CacheRight
  <1>7. SelectRight'
    BY <1>1, <1>2, <1>3, <1>4, <1>5 DEF SelectRight
  <1> QED  BY <1>6, <1>7 DEF SelectionInv

\* A step that only moves the call on and selects nothing.
LEMMA MovesOn ==
  ASSUME SelectionInv, select.at \notin {"idle", "selected"},
         NEW at \in {"take", "fetch", "ValueError", "KeyError"},
         select' = [select EXCEPT !.at = at], UNCHANGED <<now, cache>>,
         at \in {"take", "fetch"} => Len(select.got) < Len(select.call.candidates)
  PROVE  SelectionInv'
  <1> DEFINE b == [select EXCEPT !.at = at]
  <1>1. select \in Selection!Progress
    BY DEF SelectionInv, SelectRight
  <1>2. /\ b \in Selection!Progress /\ b.at = at /\ b.call = select.call
        /\ b.got = select.got /\ b.best = select.best
    BY <1>1 DEF Selection!Progress
  <1>3. select' = b
    OBVIOUS
  <1> HIDE DEF b
  <1>4. Selection!ScoresRecent'
    BY <1>2, <1>3 DEF SelectionInv, SelectRight, Selection!ScoresRecent
  <1>5. Selection!NoneBetterLeftOut'
    BY <1>2, <1>3, Unselected
  <1>6. CacheRight'
    BY DEF SelectionInv, CacheRight
  <1>7. SelectRight'
    BY <1>2, <1>3, <1>4, <1>5 DEF SelectionInv, SelectRight
  <1> QED  BY <1>6, <1>7 DEF SelectionInv

\* A step that adds a score that is not too old, or none, to what the call has.
LEMMA GetsRight ==
  ASSUME SelectionInv, select.at \in {"take", "fetch"},
         NEW entry \in Selection!Fetched \cup {None}, NEW raises \in BOOLEAN,
         Selection!Gets(entry, raises), entry # None => entry.age < TTL
  PROVE  SelectRight'
  <1> DEFINE got == Append(select.got, entry)
             raised == select.raised \/ raises
             b == [select EXCEPT !.at = "task", !.got = got, !.raised = raised]
  <1>1. select \in Selection!Progress
    BY DEF SelectionInv, SelectRight
  <1>2. /\ select.got \in Seq(Selection!Fetched \cup {None}) /\ Len(select.got) \in Nat
        /\ Len(select.call.candidates) \in Nat
    BY SelectParts
  <1>3. /\ got \in Seq(Selection!Fetched \cup {None}) /\ Len(got) = Len(select.got) + 1
        /\ \A i \in 1..Len(select.got) : got[i] = select.got[i]
        /\ got[Len(select.got) + 1] = entry
    BY <1>2
  <1>4. select' = b
    BY DEF Selection!Gets
  <1>9. raised \in BOOLEAN
    OBVIOUS
  <1> HIDE DEF got, raised
  <1>5. /\ b \in Selection!Progress /\ b.at = "task" /\ b.call = select.call
        /\ b.got = got /\ b.best = select.best
    BY <1>1, <1>3, <1>9 DEF Selection!Progress
  <1> HIDE DEF b
  <1>6. Selection!ScoresRecent'
    <2>1. ASSUME NEW i \in 1..Len(got), got[i] # None
          PROVE  got[i].age < TTL
      <3>1. CASE i \in 1..Len(select.got)
        BY <1>2, <1>3, <2>1, <3>1 DEF SelectionInv, SelectRight, Selection!ScoresRecent
      <3>2. CASE i \notin 1..Len(select.got)
        <4>1. i = Len(select.got) + 1
          BY <1>2, <1>3, <3>2
        <4> QED  BY <1>3, <2>1, <4>1
      <3> QED  BY <3>1, <3>2
    <2>2. DOMAIN got = 1..Len(got)
      BY <1>3
    <2> QED  BY <1>4, <1>5, <2>1, <2>2 DEF Selection!ScoresRecent
  <1>7. Selection!NoneBetterLeftOut'
    BY <1>4, <1>5, Unselected
  <1>8. Len(got) <= Len(select.call.candidates)
    BY <1>2, <1>3 DEF SelectionInv, SelectRight
  <1> QED  BY <1>4, <1>5, <1>6, <1>7, <1>8 DEF SelectionInv, SelectRight

\* The candidate that is looked at is one that was named.
LEMMA CandidateOffered ==
  ASSUME SelectionInv, select.at \in {"take", "fetch"}
  PROVE  Selection!Candidate \in Offered
  <1>1. /\ Len(select.got) \in Nat /\ Len(select.got) < Len(select.call.candidates)
        /\ select.call.candidates \in Seq(Offered)
        /\ Len(select.call.candidates) \in Nat
    BY SelectParts DEF SelectionInv, SelectRight
  <1>2. Len(select.got) + 1 \in 1..Len(select.call.candidates)
    BY <1>1
  <1> QED  BY <1>1, <1>2 DEF Selection!Candidate

LEMMA TakeInv == SelectionInv /\ Selection!Take => SelectionInv'
  <1> SUFFICES ASSUME SelectionInv, Selection!Take PROVE SelectionInv'
    OBVIOUS
  <1> DEFINE c == Selection!Candidate
             entry == Selection!Cached
             read == cache[c].read
  <1>1. /\ select.at = "take" /\ cache[c] # None /\ now < cache[c].expires
        /\ Selection!Gets(entry, FALSE) /\ UNCHANGED <<now, cache>>
    BY DEF Selection!Take, Selection!Fresh
  <1>2. c \in Offered
    BY <1>1, CandidateOffered
  <1>3. /\ cache[c] \in Selection!Entry
        /\ cache[c].expires = read + TTL /\ read <= now /\ now \in 0..MaxTime
    BY <1>1, <1>2 DEF SelectionInv, CacheRight
  <1>4. cache[c].score \in Score /\ read \in 0..MaxTime
    BY <1>3 DEF Selection!Entry
  <1>5. entry = [score |-> cache[c].score, age |-> now - read]
    BY DEF Selection!Cached
  <1> HIDE DEF entry, c, read
  <1>6. now - read \in 0..MaxTime /\ now - read < TTL
    BY <1>1, <1>3, <1>4, TTLAssumption, SelectionAssumption
  <1>7. entry \in Selection!Fetched /\ entry.age < TTL
    BY <1>4, <1>5, <1>6 DEF Selection!Fetched
  <1>8. SelectRight'
    BY <1>1, <1>7, GetsRight
  <1>9. CacheRight'
    BY <1>1 DEF SelectionInv, CacheRight
  <1> QED  BY <1>8, <1>9 DEF SelectionInv

LEMMA FetchInv == SelectionInv /\ Selection!Fetch => SelectionInv'
  <1> SUFFICES ASSUME SelectionInv, Selection!Fetch PROVE SelectionInv'
    OBVIOUS
  <1> DEFINE c == Selection!Candidate
  <1>1. select.at = "fetch" /\ now' = now
    BY DEF Selection!Fetch
  <1>2. PICK score \in Score :
          /\ Selection!Gets([score |-> score, age |-> 0], FALSE)
          /\ cache' = [cache EXCEPT ![c] =
                         [score |-> score, expires |-> now + TTL, read |-> now]]
    BY DEF Selection!Fetch
  <1> DEFINE got == [score |-> score, age |-> 0]
             expires == now + TTL
             entry == [score |-> score, expires |-> expires, read |-> now]
  <1>3. now \in 0..MaxTime /\ now \in Nat
    BY SelectParts DEF SelectionInv, CacheRight
  <1>4. got \in Selection!Fetched /\ got.age < TTL
    BY SelectionAssumption, TTLAssumption DEF Selection!Fetched
  <1>5. expires \in 0..(MaxTime + TTL)
    BY <1>3, TTLAssumption, SelectionAssumption
  <1> HIDE DEF expires
  <1>6. entry \in Selection!Entry /\ entry.expires = expires /\ entry.read = now
    BY <1>3, <1>5 DEF Selection!Entry
  <1>7. c \in Offered
    BY <1>1, CandidateOffered
  <1>8. SelectRight'
    <2>1. Selection!Gets(got, FALSE)
      BY <1>2
    <2> HIDE DEF got
    <2> QED  BY <1>1, <1>4, <2>1, GetsRight
  <1>9. CacheRight'
    <2>1. cache' = [cache EXCEPT ![c] = entry]
      BY <1>2 DEF expires
    <2> HIDE DEF entry, c
    <2>2. cache \in [Offered -> Selection!Entry \cup {None}]
      BY DEF SelectionInv, CacheRight
    <2>3. /\ cache' \in [Offered -> Selection!Entry \cup {None}]
          /\ \A a \in Offered : cache'[a] = IF a = c THEN entry ELSE cache[a]
      BY <1>6, <1>7, <2>1, <2>2
    <2>4. ASSUME NEW a \in Offered, cache'[a] # None
          PROVE  cache'[a].expires = cache'[a].read + TTL /\ cache'[a].read <= now
      <3>1. CASE a = c
        BY <1>3, <1>6, <2>3, <3>1 DEF expires
      <3>2. CASE a # c
        BY <2>3, <2>4, <3>2 DEF SelectionInv, CacheRight
      <3> QED  BY <3>1, <3>2
    <2> QED  BY <1>1, <1>3, <2>3, <2>4 DEF CacheRight
  <1> QED  BY <1>8, <1>9 DEF SelectionInv

LEMMA FetchFailsInv == SelectionInv /\ Selection!FetchFails => SelectionInv'
  <1> SUFFICES ASSUME SelectionInv, Selection!FetchFails PROVE SelectionInv'
    OBVIOUS
  <1>1. select.at = "fetch" /\ Selection!Gets(None, FALSE)
        /\ UNCHANGED <<now, cache>>
    BY DEF Selection!FetchFails
  <1>2. SelectRight'
    BY <1>1, GetsRight
  <1>3. CacheRight'
    BY <1>1 DEF SelectionInv, CacheRight
  <1> QED  BY <1>2, <1>3 DEF SelectionInv

LEMMA WaitInv ==
  SelectionInv /\ (\/ Selection!LookUp \/ Selection!TakeExpired
                  \/ Selection!Raise \/ Selection!NoScores)
    => SelectionInv'
  <1> SUFFICES ASSUME SelectionInv,
                      \/ Selection!LookUp \/ Selection!TakeExpired
                      \/ Selection!Raise \/ Selection!NoScores
               PROVE  SelectionInv'
    OBVIOUS
  <1>1. CASE Selection!LookUp
    <2> DEFINE at == IF Selection!Fresh(Selection!Candidate) THEN "take" ELSE "fetch"
    <2>1. /\ select.at = "task" /\ Len(select.got) < Len(select.call.candidates)
          /\ select' = [select EXCEPT !.at = at] /\ UNCHANGED <<now, cache>>
      BY <1>1 DEF Selection!LookUp, Selection!More
    <2>2. at \in {"take", "fetch"}
      OBVIOUS
    <2> HIDE DEF at
    <2> QED  BY <2>1, <2>2, MovesOn
  <1>2. CASE Selection!TakeExpired
    <2>1. /\ select.at = "take" /\ Selection!Gets(None, TRUE)
          /\ UNCHANGED <<now, cache>>
      BY <1>2 DEF Selection!TakeExpired
    <2>2. SelectRight'
      BY <2>1, GetsRight
    <2>3. CacheRight'
      BY <2>1 DEF SelectionInv, CacheRight
    <2> QED  BY <2>2, <2>3 DEF SelectionInv
  <1>3. CASE Selection!Raise
    BY <1>3, MovesOn DEF Selection!Raise, Selection!Asked
  <1>4. CASE Selection!NoScores
    BY <1>4, MovesOn DEF Selection!NoScores, Selection!Asked
  <1> QED  BY <1>1, <1>2, <1>3, <1>4

\* How the candidates are ranked: no two are level.
Precedes(a, b) ==
  \/ Selection!ScoreOf(a).composite > Selection!ScoreOf(b).composite
  \/ /\ Selection!ScoreOf(a).composite = Selection!ScoreOf(b).composite
     /\ Selection!Position(a) < Selection!Position(b)

Ranking(names) == {p \in names \X names : Precedes(p[1], p[2])}

LEMMA RankingOrders ==
  ASSUME SelectionInv, select.at # "idle", NEW names \in SUBSET Selection!Valid
  PROVE  /\ IsFiniteSet(names) /\ Orders(Ranking(names), names)
         /\ \A a, b \in names : <<a, b>> \in Ranking(names) <=> Precedes(a, b)
         /\ Selection!Ranked(names) = InOrder(names, Ranking(names))
  <1> DEFINE score == [a \in names |-> Selection!ScoreOf(a).composite]
             place == [a \in names |-> Selection!Position(a)]
  <1>1. /\ \A a \in names : score[a] \in Int /\ place[a] \in Int
        /\ \A a, b \in names : place[a] = place[b] => a = b
    BY ValidRight
  <1>2. ASSUME NEW a \in names, NEW b \in names
        PROVE  Precedes(a, b) <=>
                 \/ score[a] > score[b]
                 \/ score[a] = score[b] /\ place[a] < place[b]
    <2>1. /\ score[a] = Selection!ScoreOf(a).composite
          /\ score[b] = Selection!ScoreOf(b).composite
          /\ place[a] = Selection!Position(a) /\ place[b] = Selection!Position(b)
      OBVIOUS
    <2> HIDE DEF score, place
    <2> QED  BY <2>1 DEF Precedes
  <1>3. Selection!Ranked(names) = InOrder(names, Ranking(names))
    BY SelectionTerms DEF Selection!Ranked, Ranking, Precedes
  <1> HIDE DEF score, place
  <1>4. \A a, b \in names : <<a, b>> \in Ranking(names) <=> Precedes(a, b)
    BY DEF Ranking
  <1>5. Orders(Ranking(names), names)
    <2>1. \A x \in names : ~ Precedes(x, x)
      BY <1>1, <1>2
    <2>2. \A x, y \in names : x # y => Precedes(x, y) \/ Precedes(y, x)
      BY <1>1, <1>2
    <2>3. \A x, y, z \in names : Precedes(x, y) /\ Precedes(y, z) => Precedes(x, z)
      BY <1>1, <1>2
    <2> QED  BY <1>4, <2>1, <2>2, <2>3 DEF Orders
  <1>6. IsFiniteSet(names)
    BY ValidRight, FS_Subset
  <1> QED  BY <1>3, <1>4, <1>5, <1>6

\* The first "top" of a ranking are different, and whoever is not among them is ranked
\* below each.
LEMMA TopRight ==
  ASSUME SelectionInv, select.at # "idle", NEW names \in SUBSET Selection!Valid,
         names # {}, NEW chain \in Nat
  PROVE  LET ranked == Selection!Ranked(names)
             others == SubSeq(ranked, 2, Min({chain, Len(ranked)}))
             chosen == {ranked[1]} \cup ToSet(others)
         IN  /\ ranked[1] \in names /\ others \in Seq(names) /\ chosen \subseteq names
             /\ Cardinality(chosen) = Len(others) + 1
             /\ \A a \in chosen, b \in names \ chosen : Precedes(a, b)
             /\ \A a \in chosen \ {ranked[1]} : Precedes(ranked[1], a)
  <1> DEFINE ranked == Selection!Ranked(names)
             size == Cardinality(names)
             last == Min({chain, size})
             others == SubSeq(ranked, 2, last)
             chosen == {ranked[1]} \cup ToSet(others)
             top == IF last <= 1 THEN 1 ELSE last
  <1>1. /\ size \in Nat
        /\ ranked \in [1..size -> names]
        /\ \A x \in names : \E n \in 1..size : ranked[n] = x
        /\ \A m, n \in 1..size : ranked[m] = ranked[n] => m = n
        /\ \A m, n \in 1..size : Precedes(ranked[m], ranked[n]) <=> m < n
    <2>1. /\ IsFiniteSet(names) /\ Orders(Ranking(names), names)
          /\ ranked = InOrder(names, Ranking(names))
          /\ \A a, b \in names : <<a, b>> \in Ranking(names) <=> Precedes(a, b)
      BY RankingOrders
    <2> HIDE DEF ranked
    <2>2. /\ size \in Nat
          /\ ranked \in [1..size -> names]
          /\ \A x \in names : \E n \in 1..size : ranked[n] = x
          /\ \A m, n \in 1..size : ranked[m] = ranked[n] => m = n
          /\ \A m, n \in 1..size : <<ranked[m], ranked[n]>> \in Ranking(names) <=> m < n
      BY <2>1, InOrderSorts
    <2> QED  BY <2>1, <2>2
  <1> HIDE DEF ranked, size
  <1>2. ranked \in Seq(names) /\ Len(ranked) = size /\ size >= 1
    BY <1>1
  <1>3. last \in Nat /\ last <= size
    <2>1. \E x \in {chain, size} : \A y \in {chain, size} : x <= y
      BY <1>1
    <2>2. last \in {chain, size} /\ \A y \in {chain, size} : last <= y
      BY <2>1 DEF Min
    <2> QED  BY <1>1, <2>2
  <1> HIDE DEF last
  <1>4. /\ others \in Seq(names) /\ Len(others) = top - 1
        /\ \A i \in 1..Len(others) : others[i] = ranked[i + 1]
    BY <1>1, <1>2, <1>3, SubSeqProperties
  <1>5. top \in 1..size /\ top \in Nat
    BY <1>1, <1>2, <1>3
  <1> HIDE DEF others, top
  <1>6. chosen = {ranked[k] : k \in 1..top}
    <2>1. \A x : x \in ToSet(others) <=> \E i \in 1..Len(others) : others[i] = x
      BY <1>4, Members
    <2>2. ASSUME NEW x \in ToSet(others) PROVE \E k \in 1..top : x = ranked[k]
      <3>1. PICK i \in 1..Len(others) : others[i] = x
        BY <2>1
      <3>2. i + 1 \in 1..top /\ x = ranked[i + 1]
        BY <1>4, <1>5, <3>1
      <3> QED  BY <3>2
    <2>3. ASSUME NEW k \in 1..top, k # 1 PROVE ranked[k] \in ToSet(others)
      <3>1. k - 1 \in 1..Len(others) /\ (k - 1) + 1 = k
        BY <1>4, <1>5, <2>3
      <3>2. others[k - 1] = ranked[k]
        BY <1>4, <3>1
      <3> QED  BY <2>1, <3>1, <3>2
    <2>4. 1 \in 1..top
      BY <1>5
    <2> QED  BY <2>2, <2>3, <2>4
  <1>7. \A k \in 1..top : k \in 1..size
    BY <1>1, <1>5
  <1>8. 1 \in 1..size /\ 1 \in 1..top
    BY <1>1, <1>5
  <1>9. ranked[1] \in names /\ chosen \subseteq names
    BY <1>1, <1>6, <1>7, <1>8
  <1>10. Cardinality(chosen) = top
    <2> DEFINE f == [k \in 1..top |-> ranked[k]]
    <2>1. f \in Bijection(1..top, chosen)
      BY <1>1, <1>6, <1>7 DEF Bijection, Injection, Surjection, IsInjective
    <2>2. IsFiniteSet(1..top) /\ Cardinality(1..top) = top
      BY <1>5, FS_Interval
    <2>3. ExistsBijection(1..top, chosen)
      BY <2>1 DEF ExistsBijection
    <2> QED  BY <2>2, <2>3, FS_Bijection
  <1>11. ASSUME NEW a \in chosen, NEW b \in names \ chosen PROVE Precedes(a, b)
    <2>1. PICK k \in 1..top : a = ranked[k]
      BY <1>6
    <2>2. PICK n \in 1..size : b = ranked[n]
      BY <1>1
    <2>3. n \notin 1..top
      BY <1>6, <2>2
    <2>4. k < n
      BY <1>1, <1>5, <2>3
    <2> QED  BY <1>1, <1>7, <2>1, <2>2, <2>4
  <1>12. ASSUME NEW a \in chosen \ {ranked[1]} PROVE Precedes(ranked[1], a)
    <2>1. PICK k \in 1..top : a = ranked[k]
      BY <1>6
    <2>2. 1 < k
      BY <1>5, <2>1
    <2> QED  BY <1>1, <1>7, <1>8, <2>1, <2>2
  <1>13. Len(others) + 1 = top
    BY <1>4, <1>5
  <1> HIDE DEF chosen
  <1>14. /\ ranked[1] \in names /\ others \in Seq(names) /\ chosen \subseteq names
         /\ Cardinality(chosen) = Len(others) + 1
         /\ \A a \in chosen, b \in names \ chosen : Precedes(a, b)
         /\ \A a \in chosen \ {ranked[1]} : Precedes(ranked[1], a)
    BY <1>4, <1>9, <1>10, <1>11, <1>12, <1>13
  <1> QED  BY <1>2, <1>14 DEF chosen, others, last, ranked, size

\* What is to be preferred among the names that meet the constraint is ranked higher.
LEMMA ChooseInv == SelectionInv /\ Selection!Choose => SelectionInv'
  <1> SUFFICES ASSUME SelectionInv, Selection!Choose PROVE SelectionInv'
    OBVIOUS
  <1> DEFINE constraint == select.call.constraint
             names == Selection!Filtered(constraint)
             ranked == Selection!Ranked(names)
             others == SubSeq(ranked, 2, Min({select.call.fallback_chain, Len(ranked)}))
             chosen == {ranked[1]} \cup ToSet(others)
             b == [select EXCEPT !.at = "selected", !.best = ranked[1],
                                 !.alternatives = others]
  <1>1. /\ select.at = "task" /\ Selection!Valid # {} /\ select' = b
        /\ UNCHANGED <<now, cache>>
    BY SelectionTerms DEF Selection!Choose, Selection!Asked
  <1>2. /\ names \in SUBSET Selection!Valid /\ names # {}
        /\ \A a \in names, c \in Selection!Valid :
             Selection!Meets(c, constraint) /\ ~ Selection!Meets(a, constraint) => FALSE
        /\ \A a \in names, c \in Selection!Valid :
             Selection!Meets(c, constraint) /\ Selection!Meets(a, constraint) => c \in names
        /\ \A a \in names, c \in Selection!Valid :
             ~ Selection!Meets(c, constraint) /\ ~ Selection!Meets(a, constraint)
               => c \in names
    BY <1>1 DEF Selection!Filtered
  <1>3. /\ ranked[1] \in names /\ others \in Seq(names) /\ chosen \subseteq names
        /\ Cardinality(chosen) = Len(others) + 1
        /\ \A a \in chosen, c \in names \ chosen : Precedes(a, c)
        /\ \A a \in chosen \ {ranked[1]} : Precedes(ranked[1], a)
    <2>1. select.at # "idle" /\ select.call.fallback_chain \in Nat
      BY <1>1, SelectParts
    <2> HIDE DEF names
    <2> QED  BY <1>2, <2>1, TopRight
  <1>4. /\ \A a \in Selection!Valid : Selection!ScoreOf(a).composite \in Int
        /\ Selection!Valid \subseteq Offered
    BY <1>1, ValidRight
  <1>5. ranked[1] \in chosen /\ names \subseteq Offered
    BY <1>2, <1>4
  <1> HIDE DEF names, ranked, others
  <1>6. others \in Seq(Offered)
    BY <1>3, <1>5
  <1>7. /\ b \in Selection!Progress /\ b.at = "selected" /\ b.call = select.call
        /\ b.got = select.got /\ b.best = ranked[1]
        /\ b.alternatives = others
    <2>1. select \in Selection!Progress
      BY DEF SelectionInv, SelectRight
    <2> QED  BY <1>3, <1>5, <1>6, <2>1 DEF Selection!Progress
  <1> HIDE DEF b
  <1>8. Selection!ScoresRecent'
    BY <1>1, <1>7 DEF SelectionInv, SelectRight, Selection!ScoresRecent
  <1>9. ASSUME NEW a \in names, NEW c \in Selection!Valid, Precedes(a, c) \/ c \notin names
        PROVE  ~ Selection!Preferred(c, a, constraint)
    <2>1. c \in names => ~ (Selection!ScoreOf(c).composite > Selection!ScoreOf(a).composite)
      BY <1>2, <1>4, <1>9 DEF Precedes
    <2> HIDE DEF constraint
    <2> QED  BY <1>2, <1>9, <2>1 DEF Selection!Preferred
  <1>10. ASSUME NEW a \in chosen PROVE ~ Selection!Preferred(a, ranked[1], constraint)
    <2>1. CASE a = ranked[1]
      <3>1. Selection!ScoreOf(a).composite \in Int
        BY <1>2, <1>3, <1>4
      <3>2. ~ (Selection!ScoreOf(a).composite > Selection!ScoreOf(a).composite)
        BY <3>1
      <3> QED  BY <2>1, <3>2 DEF Selection!Preferred
    <2>2. CASE a # ranked[1]
      BY <1>2, <1>3, <1>9, <2>2
    <2> QED  BY <2>1, <2>2
  <1>11. \A a \in chosen, c \in Selection!Valid \ chosen :
           ~ Selection!Preferred(c, a, constraint)
    BY <1>3, <1>9
  <1>12. /\ Selection!Valid' = Selection!Valid
         /\ \A a, c : Selection!Preferred(c, a, constraint)'
                        <=> Selection!Preferred(c, a, constraint)
    <2>1. select'.got = select.got /\ select'.call = select.call
      BY <1>1, <1>7
    <2> QED  BY <2>1 DEF Selection!Valid, Selection!Named, Selection!Preferred,
                         Selection!Meets, Selection!ScoreOf
  <1>13. Selection!NoneBetterLeftOut'
    <2>1. /\ select'.best = ranked[1] /\ select'.alternatives = others
          /\ select'.call.constraint = constraint
      BY <1>1, <1>7
    <2>2. {select'.best} \cup Selection!ToSet(select'.alternatives) = chosen
      BY <2>1, SelectionTerms
    <2>3. Selection!Cardinality(chosen) = Len(select'.alternatives) + 1
      BY <1>3, <2>1, SelectionTerms
    <2> HIDE DEF chosen, constraint
    <2> QED  BY <1>10, <1>11, <1>12, <2>1, <2>2, <2>3
             DEF Selection!NoneBetterLeftOut, constraint
  <1>14. CacheRight'
    BY <1>1 DEF SelectionInv, CacheRight
  <1>15. ranked[1] # None /\ select.call # None
    BY <1>1, <1>3, <1>5, SelectionAssumption DEF SelectionInv, SelectRight
  <1>16. SelectRight'
    BY <1>1, <1>7, <1>8, <1>13, <1>15 DEF SelectionInv, SelectRight
  <1> QED  BY <1>14, <1>16 DEF SelectionInv

LEMMA SelectionInvStep ==
  SelectionInv /\ [Selection!Next]_(Selection!vars) => SelectionInv'
  <1> SUFFICES ASSUME SelectionInv, [Selection!Next]_(Selection!vars) PROVE SelectionInv'
    OBVIOUS
  <1>1. CASE Selection!Tick
    BY <1>1, TickInv
  <1>2. ASSUME NEW call \in Call, Selection!Begin(call) PROVE SelectionInv'
    BY <1>2, CallInv
  <1>3. CASE Selection!SelectStep
    BY <1>3, TakeInv, FetchInv, FetchFailsInv, WaitInv, ChooseInv DEF Selection!SelectStep
  <1>4. CASE UNCHANGED Selection!vars
    <2>1. UNCHANGED <<now, cache, select>>
      BY <1>4 DEF Selection!vars
    <2>2. Selection!NoneBetterLeftOut' /\ Selection!ScoresRecent'
      BY <2>1, SelectKept DEF SelectionInv, SelectRight, Selection!ScoresRecent
    <2> QED  BY <2>1, <2>2 DEF SelectionInv, CacheRight, SelectRight
  <1> QED  BY <1>1, <1>2, <1>3, <1>4 DEF Selection!Next

LEMMA SelectionInvHolds == Selection!Spec => []SelectionInv
  BY SelectionInvInit, SelectionInvStep, PTL DEF Selection!Spec

\* Every score that goes into a selection was answered by the service less than the time
\* to live before it was taken, whatever the cache held then.  What passes from then to the
\* choice is not bounded.
THEOREM ScoresStayRecent == Selection!Spec => []ScoresRecent
  <1>1. SelectionInv => ScoresRecent
    BY DEF SelectionInv, SelectRight, ScoresRecent
  <1> QED  BY <1>1, SelectionInvHolds, PTL

\* No candidate that a selection leaves out is better than one that it names.
THEOREM BestIsSelected == Selection!Spec => []NoneBetterLeftOut
  <1>1. SelectionInv => NoneBetterLeftOut
    BY DEF SelectionInv, SelectRight, NoneBetterLeftOut
  <1> QED  BY <1>1, SelectionInvHolds, PTL

-----------------------------------------------------------------------------
(* The four side by side *)

\* Mixed with the steps of the other three, each still runs as it is specified.
THEOREM PartsRun == OutboundSpec => Status!Spec /\ Selection!Spec /\ Stream!Spec /\ Spec
  <1>1. OutboundInit => Status!Init /\ Selection!Init /\ Stream!Init /\ Init
    BY DEF OutboundInit
  <1>2. [OutboundNext]_<<vars, statusVars, selectionVars, streamVars>> =>
          /\ [Status!Next]_(Status!vars) /\ [Selection!Next]_(Selection!vars)
          /\ [Stream!Next]_(Stream!vars) /\ [Next]_vars
    BY DEF OutboundNext, statusVars, selectionVars, streamVars, Status!vars,
           Selection!vars, Stream!vars
  <1> QED  BY <1>1, <1>2, PTL DEF OutboundSpec, Status!Spec, Selection!Spec, Stream!Spec, Spec

\* Cards, reports, selections and feeds keep their types.
THEOREM OutboundTypesCorrect == OutboundSpec => []TypesOK
  <1>1. StreamInv => Stream!TypeOK
    BY DEF StreamInv
  <1>2. StatusInv => Status!TypeOK
    BY DEF StatusInv
  <1>3. SelectionInv => Selection!TypeOK
    BY DEF SelectionInv, CacheRight, SelectRight, Selection!TypeOK
  <1>4. TypeOK /\ Status!TypeOK /\ Selection!TypeOK /\ Stream!TypeOK => TypesOK
    BY DEF TypesOK
  <1> QED  BY <1>1, <1>2, <1>3, <1>4, PartsRun, StreamInvHolds, StatusInvHolds,
              SelectionInvHolds, TypeCorrect, PTL

=============================================================================
