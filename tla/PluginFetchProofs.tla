------------------------- MODULE PluginFetchProofs -------------------------
(***************************************************************************)
(* Theorems about PluginFetch, for sources, indexes, snapshots, manifests  *)
(* and stores of any size, and any limits.                                 *)
(***************************************************************************)
EXTENDS PluginFetch, Inductions, FiniteSetTheorems, SequenceTheorems

-----------------------------------------------------------------------------
(* Numbers in order.                                                       *)

\* f goes through S, ascending.
Lines(f, n, S) ==
  /\ f \in [1..n -> S]
  /\ \A x \in S : \E i \in 1..n : f[i] = x
  /\ \A i, j \in 1..n : i < j => f[i] < f[j]

\* With one number that is below all others, in front.
LEMMA LinesFrom ==
  ASSUME NEW S, S \subseteq Nat, NEW m \in S, \A k \in S : m <= k,
         NEW n \in Nat, NEW g, Lines(g, n, S \ {m})
  PROVE  \E f : Lines(f, n + 1, S)
  <1> DEFINE f == [i \in 1..(n + 1) |-> IF i = 1 THEN m ELSE g[i - 1]]
  <1>1. \A i \in 1..(n + 1) : i = 1 \/ (i # 1 /\ i - 1 \in 1..n)
    OBVIOUS
  <1>2. \A i \in 1..n : g[i] \in S /\ g[i] # m
    BY DEF Lines
  <1>3. f \in [1..(n + 1) -> S]
    BY <1>1, <1>2
  <1>4. \A x \in S : \E i \in 1..(n + 1) : f[i] = x
    <2>1. SUFFICES ASSUME NEW x \in S PROVE \E i \in 1..(n + 1) : f[i] = x
      OBVIOUS
    <2>2. CASE x = m
      <3>1. 1 \in 1..(n + 1) /\ f[1] = m
        OBVIOUS
      <3>2. QED
        BY <2>2, <3>1
    <2>3. CASE x # m
      <3>1. PICK i \in 1..n : g[i] = x
        BY <2>3 DEF Lines
      <3>2. i + 1 \in 1..(n + 1) /\ i + 1 # 1 /\ (i + 1) - 1 = i
        OBVIOUS
      <3>3. f[i + 1] = x
        BY <3>1, <3>2
      <3>4. QED
        BY <3>2, <3>3
    <2>4. QED
      BY <2>2, <2>3
  <1>5. ASSUME NEW i \in 1..(n + 1), NEW j \in 1..(n + 1), i < j
        PROVE  f[i] < f[j]
    <2>1. j # 1 /\ j - 1 \in 1..n /\ f[j] = g[j - 1]
      BY <1>5
    <2>2. CASE i = 1
      <3>1. f[i] = m /\ m <= g[j - 1] /\ g[j - 1] # m
        BY <1>2, <2>1, <2>2
      <3>2. m \in Nat /\ g[j - 1] \in Nat
        BY <1>2, <2>1
      <3>3. QED
        BY <2>1, <3>1, <3>2
    <2>3. CASE i # 1
      <3>1. i - 1 \in 1..n /\ i - 1 < j - 1 /\ f[i] = g[i - 1]
        BY <1>5, <2>3
      <3>2. QED
        BY <2>1, <3>1 DEF Lines
    <2>4. QED
      BY <2>2, <2>3
  <1>6. Lines(f, n + 1, S)
    <2> HIDE DEF f
    <2>1. QED
      BY <1>3, <1>4, <1>5 DEF Lines
  <1>7. QED
    BY <1>6

\* A finite set of numbers can be gone through in order.
LEMMA OrderExists ==
  ASSUME NEW S, S \subseteq Nat, IsFiniteSet(S)
  PROVE  \E f : Lines(f, Cardinality(S), S)
  <1> DEFINE T == {n \in Nat : \A X \in SUBSET Nat :
                      IsFiniteSet(X) /\ Cardinality(X) = n => \E f : Lines(f, n, X)}
  <1>1. 0 \in T
    <2>1. SUFFICES ASSUME NEW X \in SUBSET Nat, IsFiniteSet(X), Cardinality(X) = 0
                   PROVE  \E f : Lines(f, 0, X)
      OBVIOUS
    <2>2. X = {}
      BY <2>1, FS_EmptySet
    <2>3. Lines([i \in 1..0 |-> 0], 0, X)
      BY <2>2 DEF Lines
    <2>4. QED
      BY <2>3
  <1>2. ASSUME NEW n \in Nat, n \in T
        PROVE  n + 1 \in T
    <2>1. SUFFICES ASSUME NEW X \in SUBSET Nat, IsFiniteSet(X),
                          Cardinality(X) = n + 1
                   PROVE  \E f : Lines(f, n + 1, X)
      OBVIOUS
    <2>2. X # {}
      BY <2>1, FS_EmptySet
    <2>3. PICK m \in X : \A k \in X : m <= k
      BY <2>2, Least
    <2>4. IsFiniteSet(X \ {m}) /\ Cardinality(X \ {m}) = n
      <3>1. /\ IsFiniteSet(X \ {m})
            /\ Cardinality(X \ {m}) = IF m \in X THEN Cardinality(X) - 1
                                     ELSE Cardinality(X)
        BY <2>1, FS_RemoveElement
      <3>2. QED
        BY <2>1, <3>1
    <2>5. X \ {m} \in SUBSET Nat
      OBVIOUS
    <2>6. PICK g : Lines(g, n, X \ {m})
      BY <1>2, <2>4, <2>5
    <2>7. X \subseteq Nat
      OBVIOUS
    <2>8. QED
      BY <2>3, <2>6, <2>7, LinesFrom
  <1>3. Nat \subseteq T
    <2> HIDE DEF T
    <2>1. QED
      BY <1>1, <1>2, NatInduct
  <1>4. Cardinality(S) \in Nat
    BY FS_CardinalityType
  <1>5. QED
    BY <1>3, <1>4

LEMMA InOrderIs ==
  ASSUME NEW S, S \subseteq Nat, IsFiniteSet(S)
  PROVE  Lines(InOrder(S), Cardinality(S), S)
  <1> DEFINE n == Cardinality(S)
             Is(f) == /\ Elements(f) = S
                      /\ \A i, j \in 1..n : i < j => f[i] < f[j]
  <1>1. PICK f : Lines(f, n, S)
    BY OrderExists
  <1>2. f \in [1..n -> S] /\ Is(f)
    BY <1>1 DEF Lines, Elements
  <1>3. InOrder(S) = CHOOSE g \in [1..n -> S] : Is(g)
    BY DEF InOrder
  <1>4. InOrder(S) \in [1..n -> S] /\ Is(InOrder(S))
    <2> HIDE DEF Is
    <2>1. QED
      BY <1>2, <1>3
  <1>5. QED
    BY <1>4 DEF Lines, Elements

\* What is picked from a sequence is what it holds at the places, each once.
PickedBy(p, f, seq, n, places) ==
  /\ f \in [1..n -> places]
  /\ \A k \in places : \E i \in 1..n : f[i] = k
  /\ \A i, j \in 1..n : f[i] = f[j] => i = j
  /\ \A i \in 1..n : p[i] = seq[f[i]]

LEMMA PickedIs ==
  ASSUME NEW E, NEW seq \in Seq(E), NEW places, places \subseteq 1..Len(seq)
  PROVE  /\ Picked(seq, places) \in Seq(E)
         /\ \E f : PickedBy(Picked(seq, places), f, seq,
                            Len(Picked(seq, places)), places)
  <1> DEFINE n == Cardinality(places)
             f == InOrder(places)
  <1>1. Len(seq) \in Nat
    OBVIOUS
  <1>2. IsFiniteSet(places) /\ places \subseteq Nat
    <2>1. IsFiniteSet(1..Len(seq))
      BY <1>1, FS_Interval
    <2>2. places \in SUBSET (1..Len(seq))
      OBVIOUS
    <2>3. IsFiniteSet(places)
      BY <2>1, <2>2, FS_Subset
    <2>4. QED
      BY <1>1, <2>2, <2>3
  <1>3. n \in Nat
    BY <1>2, FS_CardinalityType
  <1>4. Lines(f, n, places)
    BY <1>2, InOrderIs
  <1> HIDE DEF n, f
  <1>5. f \in [1..n -> places]
    BY <1>4 DEF Lines
  <1>6. \A i \in 1..n : seq[f[i]] \in E
    <2>1. \A i \in 1..n : f[i] \in 1..Len(seq)
      BY <1>5
    <2>2. \A k \in 1..Len(seq) : seq[k] \in E
      OBVIOUS
    <2>3. QED
      BY <2>1, <2>2
  <1>7. Picked(seq, places) = [i \in 1..n |-> seq[f[i]]]
    BY DEF Picked, n, f
  <1>8. Picked(seq, places) \in Seq(E) /\ Len(Picked(seq, places)) = n
    BY <1>3, <1>6, <1>7
  <1>9. \A i, j \in 1..n : f[i] = f[j] => i = j
    <2>1. \A i, j \in 1..n : i < j => f[i] < f[j]
      BY <1>4 DEF Lines
    <2>2. \A i \in 1..n : f[i] \in Nat
      BY <1>2, <1>5
    <2>3. \A i, j \in 1..n : i = j \/ i < j \/ j < i
      BY <1>3
    <2>4. QED
      BY <2>1, <2>2, <2>3
  <1>10. \A i \in 1..n : Picked(seq, places)[i] = seq[f[i]]
    BY <1>7
  <1>11. \A k \in places : \E i \in 1..n : f[i] = k
    BY <1>4 DEF Lines
  <1>12. PickedBy(Picked(seq, places), f, seq, n, places)
    BY <1>5, <1>9, <1>10, <1>11 DEF PickedBy
  <1>13. QED
    BY <1>8, <1>12

-----------------------------------------------------------------------------
(* Paths.                                                                  *)

Row == [path : Paths, bytes : Nat]
PlanRow == [path : Paths, source : Paths, bytes : Nat]

LEMMA PathIs ==
  ASSUME NEW p \in Paths
  PROVE  p \in Seq(Segments) /\ Len(p) \in Nat /\ ByteOrder[p] \in Nat
  BY OrderAssumption

\* What is within a directory is told apart, and ordered, by its path there.
LEMMA WithinIs ==
  ASSUME NEW root \in Seq(Segments), NEW p \in Paths, Within(p, root)
  PROVE  /\ Len(root) + 1 \in 1..Len(p)
         /\ From(p, Len(root) + 1) \in Paths
  <1>1. Len(p) \in Nat /\ Len(root) \in Nat
    BY PathIs
  <1>2. Len(root) + 1 \in 1..Len(p)
    BY <1>1 DEF Within
  <1>3. QED
    BY <1>2, OrderAssumption

LEMMA FromOrders ==
  ASSUME NEW root \in Seq(Segments), NEW p \in Paths, NEW q \in Paths,
         Within(p, root), Within(q, root)
  PROVE  /\ ByteOrder[p] < ByteOrder[q] <=>
               ByteOrder[From(p, Len(root) + 1)] < ByteOrder[From(q, Len(root) + 1)]
         /\ From(p, Len(root) + 1) = From(q, Len(root) + 1) => p = q
  <1> DEFINE n == Len(root) + 1
  <1>1. Len(root) \in Nat /\ DOMAIN root = 1..Len(root)
    OBVIOUS
  <1>2. n \in 1..Len(p) /\ n <= Len(q)
    <2>1. n \in 1..Len(p) /\ n \in 1..Len(q) /\ Len(q) \in Nat
      BY WithinIs, PathIs
    <2>2. QED
      BY <2>1
  <1>3. \A i \in 1..n-1 : p[i] = q[i]
    <2>1. \A i \in 1..n-1 : i \in DOMAIN root
      BY <1>1
    <2>2. QED
      BY <2>1 DEF Within
  <1>4. /\ From(p, n) \in Paths /\ From(q, n) \in Paths
        /\ ByteOrder[p] \in Nat /\ ByteOrder[q] \in Nat
    BY WithinIs, PathIs
  <1> HIDE DEF n
  <1>5. /\ ByteOrder[p] < ByteOrder[q] <=> ByteOrder[From(p, n)] < ByteOrder[From(q, n)]
        /\ n \in 1..Len(q)
        /\ ByteOrder[q] < ByteOrder[p] <=> ByteOrder[From(q, n)] < ByteOrder[From(p, n)]
    <2>1. n \in 1..Len(q) /\ n <= Len(p)
      BY <1>2, PathIs
    <2>2. \A i \in 1..n-1 : q[i] = p[i]
      BY <1>3
    <2>3. ByteOrder[p] < ByteOrder[q] <=> ByteOrder[From(p, n)] < ByteOrder[From(q, n)]
      BY <1>2, <1>3, OrderAssumption
    <2>4. ByteOrder[q] < ByteOrder[p] <=> ByteOrder[From(q, n)] < ByteOrder[From(p, n)]
      BY <2>1, <2>2, OrderAssumption
    <2>5. QED
      BY <2>1, <2>3, <2>4
  <1>6. ASSUME From(p, n) = From(q, n)
        PROVE  p = q
    <2>1. ByteOrder[From(p, n)] \in Nat /\ ByteOrder[From(q, n)] \in Nat
      BY <1>4, PathIs
    <2>2. ByteOrder[p] = ByteOrder[q]
      BY <1>4, <1>5, <1>6, <2>1
    <2>3. QED
      BY <2>2, OrderAssumption
  <1>7. QED
    BY <1>5, <1>6 DEF n

-----------------------------------------------------------------------------
(* The entries of the plugin.                                              *)

\* No path twice, neither within the plugin nor in the snapshot.
Distinct(p) ==
  \A i, j \in 1..Len(p) :
    p[i].path = p[j].path \/ p[i].source = p[j].source => i = j

\* An entry of a listing that is of the plugin in root.
Belongs(e, root) == e.path # <<INDEX_NAME>> /\ Within(e.path, root)

Narrows(found, listing, root) ==
  /\ found \in Seq(PlanRow)
  /\ Distinct(found)
  /\ \A i \in 1..Len(found) : \E e \in Elements(listing) :
       Belongs(e, root) /\ found[i] = Narrowed(e, root)
  /\ \A e \in Elements(listing) : Belongs(e, root) =>
       \E i \in 1..Len(found) : found[i] = Narrowed(e, root)

LEMMA NarrowedTyped ==
  ASSUME NEW root \in Seq(Segments), NEW e \in Row, Within(e.path, root)
  PROVE  /\ Narrowed(e, root) \in PlanRow
         /\ Narrowed(e, root).path = From(e.path, Len(root) + 1)
         /\ Narrowed(e, root).source = e.path
         /\ Narrowed(e, root).bytes = e.bytes
  <1>1. e.path \in Paths /\ e.bytes \in Nat
    BY DEF Row
  <1>2. From(e.path, Len(root) + 1) \in Paths
    BY <1>1, WithinIs
  <1>3. QED
    BY <1>1, <1>2 DEF Narrowed, PlanRow

LEMMA FoundIs ==
  ASSUME NEW listing, Lists(listing), NEW directory0,
         Prefix(directory0) \in Seq(Segments)
  PROVE  Narrows(Planned(WithoutIndex(listing), directory0), listing,
                 Prefix(directory0))
  <1> DEFINE root == Prefix(directory0)
             P1 == {i \in DOMAIN listing : listing[i].path # <<INDEX_NAME>>}
             w == WithoutIndex(listing)
             P2 == {i \in DOMAIN w : Within(w[i].path, root)}
             inside == Picked(w, P2)
             found == Planned(w, directory0)
  <1>1. listing \in Seq(Row)
    BY DEF Lists, Row
  <1>2. P1 \subseteq 1..Len(listing) /\ w = Picked(listing, P1)
    BY <1>1 DEF WithoutIndex
  <1>3. w \in Seq(Row) /\ \E f : PickedBy(w, f, listing, Len(w), P1)
    <2> HIDE DEF P1, w
    <2>1. QED
      BY <1>1, <1>2, PickedIs
  <1>4. PICK f : PickedBy(w, f, listing, Len(w), P1)
    BY <1>3
  <1> HIDE DEF w
  <1>5. P2 \subseteq 1..Len(w)
    BY <1>3
  <1>6. inside \in Seq(Row) /\ \E g : PickedBy(inside, g, w, Len(inside), P2)
    <2> HIDE DEF P2
    <2>1. QED
      BY <1>3, <1>5, PickedIs
  <1>7. PICK g : PickedBy(inside, g, w, Len(inside), P2)
    BY <1>6
  <1>8. found = [i \in DOMAIN inside |-> Narrowed(inside[i], root)]
    BY DEF Planned
  <1> HIDE DEF inside
  <1> DEFINE m == Len(inside)
             k(i) == f[g[i]]
  <1>9. DOMAIN inside = 1..m /\ m \in Nat
    BY <1>6
  <1>10. ASSUME NEW i \in 1..m
         PROVE  /\ k(i) \in P1 /\ inside[i] = listing[k(i)]
                /\ inside[i] \in Row /\ Belongs(inside[i], root)
    <2>1. g[i] \in P2 /\ inside[i] = w[g[i]]
      BY <1>7 DEF PickedBy
    <2>2. g[i] \in 1..Len(w) /\ Within(w[g[i]].path, root)
      BY <1>5, <2>1
    <2>3. f[g[i]] \in P1 /\ w[g[i]] = listing[f[g[i]]]
      BY <1>4, <2>2 DEF PickedBy
    <2>4. inside[i] \in Row
      BY <1>6
    <2>5. QED
      BY <2>1, <2>2, <2>3, <2>4 DEF Belongs
  <1>11. ASSUME NEW i \in 1..m, NEW j \in 1..m, k(i) = k(j)
         PROVE  i = j
    <2>1. g[i] \in 1..Len(w) /\ g[j] \in 1..Len(w)
      BY <1>5, <1>7 DEF PickedBy
    <2>2. g[i] = g[j]
      BY <1>4, <1>11, <2>1 DEF PickedBy
    <2>3. QED
      BY <1>7, <2>2 DEF PickedBy
  <1>12. ASSUME NEW l \in DOMAIN listing, Belongs(listing[l], root)
         PROVE  \E i \in 1..m : inside[i] = listing[l]
    <2>1. l \in P1
      BY <1>12 DEF Belongs
    <2>2. PICK h \in 1..Len(w) : f[h] = l
      BY <1>4, <2>1 DEF PickedBy
    <2>3. w[h] = listing[l]
      BY <1>4, <2>2 DEF PickedBy
    <2>4. h \in P2
      BY <1>3, <1>12, <2>2, <2>3 DEF Belongs
    <2>5. PICK i \in 1..m : g[i] = h
      BY <1>7, <2>4 DEF PickedBy
    <2>6. inside[i] = w[h]
      BY <1>7, <2>5 DEF PickedBy
    <2>7. QED
      BY <2>3, <2>6
  <1> HIDE DEF P2, root
  <1>13. \A i \in 1..m : /\ Narrowed(inside[i], root) \in PlanRow
                         /\ found[i] = Narrowed(inside[i], root)
                         /\ found[i].path = From(inside[i].path, Len(root) + 1)
                         /\ found[i].source = inside[i].path
    <2>1. SUFFICES ASSUME NEW i \in 1..m
                   PROVE  /\ Narrowed(inside[i], root) \in PlanRow
                          /\ found[i] = Narrowed(inside[i], root)
                          /\ found[i].path = From(inside[i].path, Len(root) + 1)
                          /\ found[i].source = inside[i].path
      OBVIOUS
    <2>2. found[i] = Narrowed(inside[i], root)
      BY <1>8, <1>9
    <2>3. root \in Seq(Segments)
      BY DEF root
    <2>4. inside[i] \in Row /\ Within(inside[i].path, root)
      BY <1>10 DEF Belongs
    <2>5. QED
      BY <2>2, <2>3, <2>4, NarrowedTyped
  <1>14. found \in Seq(PlanRow) /\ Len(found) = m
    <2>1. found = [i \in 1..m |-> Narrowed(inside[i], root)]
      BY <1>8, <1>9
    <2> HIDE DEF found, m
    <2>2. QED
      BY <1>9, <1>13, <2>1
  <1>15. \A i, j \in 1..m : inside[i].path = inside[j].path => i = j
    <2>1. SUFFICES ASSUME NEW i \in 1..m, NEW j \in 1..m,
                          inside[i].path = inside[j].path
                   PROVE  k(i) = k(j)
      BY <1>11
    <2>2. /\ k(i) \in DOMAIN listing /\ k(j) \in DOMAIN listing
          /\ listing[k(i)].path = listing[k(j)].path
      BY <1>10, <2>1
    <2>3. QED
      BY <2>2 DEF Lists
  <1>16. Distinct(found)
    <2>1. SUFFICES ASSUME NEW i \in 1..m, NEW j \in 1..m,
                          found[i].path = found[j].path \/ found[i].source = found[j].source
                   PROVE  i = j
      BY <1>14 DEF Distinct
    <2>2. inside[i].path = inside[j].path
      <3>1. /\ inside[i].path \in Paths /\ inside[j].path \in Paths
            /\ Within(inside[i].path, root) /\ Within(inside[j].path, root)
        BY <1>10 DEF Belongs, Row
      <3>2. root \in Seq(Segments)
        BY DEF root
      <3>3. CASE found[i].source = found[j].source
        BY <1>13, <3>3
      <3>4. CASE found[i].path = found[j].path
        <4>1. From(inside[i].path, Len(root) + 1) = From(inside[j].path, Len(root) + 1)
          BY <1>13, <3>4
        <4>2. QED
          BY <3>1, <3>2, <4>1, FromOrders
      <3>5. QED
        BY <2>1, <3>3, <3>4
    <2>3. QED
      BY <1>15, <2>2
  <1>17. ASSUME NEW i \in 1..m
         PROVE  \E e \in Elements(listing) : Belongs(e, root) /\ found[i] = Narrowed(e, root)
    <2>1. inside[i] \in Elements(listing)
      BY <1>10 DEF Elements
    <2>2. QED
      BY <1>10, <1>13, <2>1
  <1>18. ASSUME NEW e \in Elements(listing), Belongs(e, root)
         PROVE  \E i \in 1..m : found[i] = Narrowed(e, root)
    <2>1. PICK l \in DOMAIN listing : listing[l] = e
      BY DEF Elements
    <2>2. PICK i \in 1..m : inside[i] = e
      BY <1>12, <1>18, <2>1
    <2>3. QED
      BY <1>13, <2>2
  <1> HIDE DEF found, m
  <1>19. Narrows(found, listing, root)
    BY <1>14, <1>16, <1>17, <1>18 DEF Narrows
  <1>20. QED
    BY <1>19 DEF found, root, w

-----------------------------------------------------------------------------
(* Their order.                                                            *)

\* s is p, sorted.
Sorts(s, p) ==
  /\ s \in Seq(PlanRow) /\ Len(s) = Len(p)
  /\ Elements(s) = Elements(p)
  /\ Distinct(s)
  /\ \A i, j \in 1..Len(s) : i < j => ByteOrder[s[i].path] < ByteOrder[s[j].path]

LEMMA KeysInOrder ==
  ASSUME NEW p \in Seq(PlanRow), Distinct(p)
  PROVE  \E f : Lines(f, Len(p), {ByteOrder[p[i].path] : i \in 1..Len(p)})
  <1> DEFINE n == Len(p)
             K == {ByteOrder[p[i].path] : i \in 1..n}
             key == [i \in 1..n |-> ByteOrder[p[i].path]]
  <1>1. n \in Nat
    OBVIOUS
  <1>2. \A i \in 1..n : p[i].path \in Paths
    <2>1. SUFFICES ASSUME NEW i \in 1..n PROVE p[i].path \in Paths
      OBVIOUS
    <2>2. p[i] \in PlanRow
      BY ElementOfSeq
    <2>3. QED
      BY <2>2 DEF PlanRow
  <1>3. K \subseteq Nat
    <2>1. \A i \in 1..n : ByteOrder[p[i].path] \in Nat
      BY <1>2, PathIs
    <2>2. QED
      BY <2>1
  <1>4. \A i, j \in 1..n : key[i] = key[j] => i = j
    <2>1. SUFFICES ASSUME NEW i \in 1..n, NEW j \in 1..n, key[i] = key[j]
                   PROVE  i = j
      OBVIOUS
    <2>2. p[i].path = p[j].path
      <3>1. ByteOrder[p[i].path] = ByteOrder[p[j].path]
        BY <2>1
      <3>2. QED
        BY <1>2, <3>1, OrderAssumption
    <2>3. QED
      BY <2>2 DEF Distinct
  <1>5. key \in Surjection(1..n, K) /\ key \in Injection(1..n, K)
    <2>1. key \in [1..n -> K] /\ \A x \in K : \E i \in 1..n : key[i] = x
      OBVIOUS
    <2> HIDE DEF key, K, n
    <2>2. key \in Surjection(1..n, K)
      BY <2>1 DEF Surjection
    <2>3. key \in Injection(1..n, K)
      BY <1>4, <2>1 DEF Injection, IsInjective
    <2>4. QED
      BY <2>2, <2>3
  <1>6. IsFiniteSet(1..n) /\ Cardinality(1..n) = n
    <2>1. 1 \in Int /\ n \in Int
      BY <1>1
    <2>2. /\ IsFiniteSet(1..n)
          /\ Cardinality(1..n) = IF 1 > n THEN 0 ELSE n - 1 + 1
      BY <2>1, FS_Interval
    <2> HIDE DEF n
    <2>3. QED
      BY <1>1, <2>2
  <1> HIDE DEF key, K, n
  <1>7. IsFiniteSet(K) /\ Cardinality(K) = n
    <2>1. /\ IsFiniteSet(K)
          /\ Cardinality(K) = Cardinality(1..n) <=> key \in Injection(1..n, K)
      BY <1>5, <1>6, FS_Surjection
    <2>2. QED
      BY <1>5, <1>6, <2>1
  <1>8. \E f : Lines(f, n, K)
    BY <1>3, <1>7, OrderExists
  <1>9. QED
    BY <1>8 DEF n, K

LEMMA SortedIs ==
  ASSUME NEW p \in Seq(PlanRow), Distinct(p)
  PROVE  Sorts(Ascending(p), p)
  <1> DEFINE n == Len(p)
             E == Elements(p)
             K == {ByteOrder[p[i].path] : i \in 1..n}
             Is(s) == /\ Elements(s) = E
                      /\ \A i, j \in 1..n :
                           i < j => ByteOrder[s[i].path] < ByteOrder[s[j].path]
  <1>1. n \in Nat /\ DOMAIN p = 1..n
    OBVIOUS
  <1>2. \A e \in E : e \in PlanRow /\ e.path \in Paths /\ ByteOrder[e.path] \in K
    <2>1. SUFFICES ASSUME NEW i \in 1..n
                   PROVE  p[i] \in PlanRow /\ p[i].path \in Paths
      BY <1>1 DEF Elements
    <2>2. p[i] \in PlanRow
      BY ElementOfSeq
    <2>3. QED
      BY <2>2 DEF PlanRow
  <1>3. \A d, e \in E : d.path = e.path \/ d.source = e.source => d = e
    <2>1. SUFFICES ASSUME NEW i \in 1..n, NEW j \in 1..n,
                          p[i].path = p[j].path \/ p[i].source = p[j].source
                   PROVE  p[i] = p[j]
      BY <1>1 DEF Elements
    <2>2. i = j
      BY <2>1 DEF Distinct
    <2>3. QED
      BY <2>2
  <1>4. \A d, e \in E : ByteOrder[d.path] = ByteOrder[e.path] => d = e
    BY <1>2, <1>3, OrderAssumption
  <1>5. PICK f : Lines(f, n, K)
    BY KeysInOrder
  <1>6. \A k \in K : \E e \in E : ByteOrder[e.path] = k
    BY <1>1 DEF Elements
  <1> HIDE DEF E, K
  <1> DEFINE s == [i \in 1..n |-> CHOOSE e \in E : ByteOrder[e.path] = f[i]]
  <1>7. \A i \in 1..n : s[i] \in E /\ ByteOrder[s[i].path] = f[i]
    <2>1. SUFFICES ASSUME NEW i \in 1..n
                   PROVE  \E e \in E : ByteOrder[e.path] = f[i]
      OBVIOUS
    <2>2. f[i] \in K
      BY <1>5 DEF Lines
    <2>3. QED
      BY <1>6, <2>2
  <1>8. s \in [1..n -> E] /\ DOMAIN s = 1..n
    BY <1>7
  <1> HIDE DEF s
  <1>9. Elements(s) = E
    <2>1. Elements(s) \subseteq E
      BY <1>7, <1>8 DEF Elements
    <2>2. ASSUME NEW e \in E
          PROVE  e \in Elements(s)
      <3>1. PICK i \in 1..n : f[i] = ByteOrder[e.path]
        BY <1>2, <1>5 DEF Lines
      <3>2. s[i] = e
        BY <1>4, <1>7, <3>1
      <3>3. QED
        BY <1>8, <3>2 DEF Elements
    <2>3. QED
      BY <2>1, <2>2
  <1>10. Is(s)
    <2>1. \A i, j \in 1..n : i < j => ByteOrder[s[i].path] < ByteOrder[s[j].path]
      BY <1>5, <1>7 DEF Lines
    <2>2. QED
      BY <1>9, <2>1
  <1> DEFINE a == Ascending(p)
  <1>11. a = CHOOSE t \in [1..n -> E] : Is(t)
    BY <1>1 DEF Ascending, E
  <1>12. a \in [1..n -> E] /\ Is(a)
    <2> HIDE DEF Is, a
    <2>1. QED
      BY <1>8, <1>10, <1>11
  <1> HIDE DEF a
  <1>13. \A i \in 1..n : a[i] \in E /\ a[i] \in PlanRow
    BY <1>2, <1>12
  <1>14. a \in Seq(PlanRow) /\ Len(a) = n
    <2>1. a = [i \in 1..n |-> a[i]]
      BY <1>12
    <2> HIDE DEF n
    <2>2. QED
      BY <1>1, <1>13, <2>1
  <1>15. \A i, j \in 1..n : a[i] = a[j] => i = j
    <2>1. \A i \in 1..n : ByteOrder[a[i].path] \in Nat
      BY <1>2, <1>13, PathIs
    <2>2. \A i, j \in 1..n : i < j => ByteOrder[a[i].path] < ByteOrder[a[j].path]
      BY <1>12
    <2>3. \A i, j \in 1..n : i = j \/ i < j \/ j < i
      BY <1>1
    <2>4. QED
      BY <2>1, <2>2, <2>3
  <1>16. Distinct(a)
    BY <1>3, <1>13, <1>14, <1>15 DEF Distinct
  <1>17. QED
    BY <1>12, <1>14, <1>16 DEF Sorts, a, E

-----------------------------------------------------------------------------
(* Their bytes.                                                            *)

Sizes == Nat

\* The sum over a listing.
LEMMA BytesUptoIs ==
  ASSUME NEW p \in Seq(PlanRow)
  PROVE  /\ BytesUpto(p) \in [0..Len(p) -> Sizes]
         /\ BytesUpto(p)[0] = 0
         /\ \A i \in 1..Len(p) : BytesUpto(p)[i] = BytesUpto(p)[i - 1] + p[i].bytes
  <1> DEFINE n == Len(p)
             F == [x \in (1..n) \X Sizes |-> x[2] + p[x[1]].bytes]
             Fill(g) == g = [i \in 0..n |-> IF i = 0 THEN 0
                                            ELSE g[i - 1] + p[i].bytes]
  <1>1. n \in Nat
    OBVIOUS
  <1>2. 0 \in Sizes
    BY DEF Sizes
  <1>3. \A i \in 1..n, s \in Sizes : s + p[i].bytes \in Sizes
    <2>1. SUFFICES ASSUME NEW i \in 1..n, NEW s \in Sizes
                   PROVE  s + p[i].bytes \in Sizes
      OBVIOUS
    <2>2. p[i] \in PlanRow
      BY ElementOfSeq
    <2>3. p[i].bytes \in Nat
      BY <2>2 DEF PlanRow
    <2> HIDE DEF n
    <2>4. QED
      BY <2>3 DEF Sizes
  <1>4. F \in [(1..n) \X Sizes -> Sizes]
    BY <1>3
  <1>5. PICK g \in [0..n -> Sizes] : Follows(n, 0, F, g)
    <2>1. n \in Nat
      BY <1>1
    <2> HIDE DEF n, F
    <2>2. QED
      BY <1>2, <1>4, <2>1, Recursion
  <1>6. \A i \in 1..n : g[i] = g[i - 1] + p[i].bytes
    <2>1. SUFFICES ASSUME NEW i \in 1..n
                   PROVE  g[i] = g[i - 1] + p[i].bytes
      OBVIOUS
    <2>2. <<i, g[i - 1]>> \in (1..n) \X Sizes
      <3>1. i - 1 \in 0..n
        BY <1>1
      <3>2. g[i - 1] \in Sizes
        BY <1>5, <3>1
      <3>3. QED
        BY <3>2
    <2>3. F[<<i, g[i - 1]>>] = g[i - 1] + p[i].bytes
      BY <2>2
    <2>4. QED
      BY <1>5, <2>3 DEF Follows
  <1>7. Fill(g)
    <2>1. g = [i \in 0..n |-> g[i]]
      BY <1>5
    <2>2. \A i \in 0..n : g[i] = IF i = 0 THEN 0 ELSE g[i - 1] + p[i].bytes
      <3>1. g[0] = 0 /\ \A i \in 0..n : i = 0 \/ i \in 1..n
        BY <1>1, <1>5 DEF Follows
      <3> HIDE DEF n
      <3>2. QED
        BY <1>1, <1>6, <3>1
    <2>3. QED
      BY <2>1, <2>2
  <1>8. Fill(BytesUpto(p))
    BY <1>7 DEF BytesUpto
  <1>9. /\ \A i \in 0..n : BytesUpto(p)[i] = IF i = 0 THEN 0
                                        ELSE BytesUpto(p)[i - 1] + p[i].bytes
        /\ BytesUpto(p) = [i \in 0..n |-> BytesUpto(p)[i]]
    BY <1>8
  <1> HIDE DEF F, Fill
  <1>10. /\ BytesUpto(p)[0] = 0
         /\ \A i \in 1..n : BytesUpto(p)[i] = BytesUpto(p)[i - 1] + p[i].bytes
    <2>1. 0 \in 0..n /\ \A i \in 1..n : i \in 0..n /\ i # 0
      BY <1>1
    <2>2. QED
      BY <1>9, <2>1
  <1>11. \A i \in 0..n : BytesUpto(p)[i] \in Sizes
    <2>1. n \in Nat
      BY <1>1
    <2> HIDE DEF n
    <2>2. QED
      BY <1>2, <1>3, <1>10, <2>1, Stays
  <1>12. QED
    BY <1>9, <1>10, <1>11

\* Each byte of the entries up to the k-th, by a name t[i] of the entry.
Marks(p, t, k) == UNION {{t[i]} \X (1..p[i].bytes) : i \in 1..k}

\* The sum counts the bytes, and so does not depend on the order.
LEMMA TotalCounts ==
  ASSUME NEW p \in Seq(PlanRow), NEW t,
         \A i, j \in 1..Len(p) : t[i] = t[j] => i = j
  PROVE  Cardinality(Marks(p, t, Len(p))) = TotalBytes(p)
  <1> DEFINE n == Len(p)
             Counts(k) == /\ IsFiniteSet(Marks(p, t, k))
                          /\ Cardinality(Marks(p, t, k)) = BytesUpto(p)[k]
             S == {k \in 0..n : Counts(k)}
  <1>1. n \in Nat
    OBVIOUS
  <1>2. /\ BytesUpto(p)[0] = 0
        /\ \A k \in 1..n : BytesUpto(p)[k] = BytesUpto(p)[k - 1] + p[k].bytes
        /\ \A k \in 0..n : BytesUpto(p)[k] \in Nat
    BY BytesUptoIs DEF Sizes
  <1>3. \A k \in 1..n : p[k].bytes \in Nat
    <2>1. SUFFICES ASSUME NEW k \in 1..n PROVE p[k].bytes \in Nat
      OBVIOUS
    <2>2. p[k] \in PlanRow
      BY ElementOfSeq
    <2>3. QED
      BY <2>2 DEF PlanRow
  <1>4. 0 \in S
    <2>1. Marks(p, t, 0) = {}
      BY DEF Marks
    <2>2. IsFiniteSet({}) /\ Cardinality({}) = 0
      BY FS_EmptySet
    <2>3. Counts(0)
      BY <1>2, <2>1, <2>2
    <2>4. QED
      BY <1>1, <2>3
  <1>5. ASSUME NEW k \in 1..n, k - 1 \in S
        PROVE  k \in S
    <2> DEFINE U == Marks(p, t, k - 1)
               V == {t[k]} \X (1..p[k].bytes)
    <2>1. Marks(p, t, k) = U \cup V
      <3>1. \A i : i \in 1..k <=> i \in 1..(k - 1) \/ i = k
        OBVIOUS
      <3>2. QED
        BY <3>1 DEF Marks
    <2>2. U \cap V = {}
      <3>1. SUFFICES ASSUME NEW m \in U, m \in V PROVE FALSE
        OBVIOUS
      <3>2. PICK i \in 1..(k - 1) : m \in {t[i]} \X (1..p[i].bytes)
        BY DEF Marks
      <3>3. m[1] = t[i] /\ m[1] = t[k]
        BY <3>1, <3>2
      <3>4. i \in 1..n /\ i # k
        OBVIOUS
      <3>5. QED
        BY <3>3, <3>4
    <2>3. IsFiniteSet(V) /\ Cardinality(V) = p[k].bytes
      <3>1. IsFiniteSet({t[k]}) /\ Cardinality({t[k]}) = 1
        BY FS_Singleton
      <3> DEFINE b == p[k].bytes
      <3>2. b \in Nat
        BY <1>3
      <3> HIDE DEF b
      <3>3. IsFiniteSet(1..b) /\ Cardinality(1..b) = b
        <4>1. /\ IsFiniteSet(1..b)
              /\ Cardinality(1..b) = IF 1 > b THEN 0 ELSE b - 1 + 1
          BY <3>2, FS_Interval
        <4>2. QED
          BY <3>2, <4>1
      <3>4. /\ IsFiniteSet({t[k]} \X (1..b))
            /\ Cardinality({t[k]} \X (1..b)) = 1 * b
        <4> DEFINE X == {t[k]}
                   Y == 1..b
        <4>1. IsFiniteSet(X) /\ IsFiniteSet(Y)
          BY <3>1, <3>3
        <4> HIDE DEF X, Y
        <4>2. /\ IsFiniteSet(X \X Y)
              /\ Cardinality(X \X Y) = Cardinality(X) * Cardinality(Y)
          BY <4>1, FS_Product
        <4>3. Cardinality(X) = 1 /\ Cardinality(Y) = b
          BY <3>1, <3>3 DEF X, Y
        <4>4. /\ IsFiniteSet(X \X Y)
              /\ Cardinality(X \X Y) = 1 * b
          BY <4>2, <4>3
        <4>5. QED
          BY <4>4 DEF X, Y
      <3>5. QED
        BY <3>2, <3>4 DEF b
    <2>4. IsFiniteSet(U) /\ Cardinality(U) = BytesUpto(p)[k - 1]
      BY <1>5
    <2> HIDE DEF U, V
    <2>5. /\ IsFiniteSet(U \cup V)
          /\ Cardinality(U \cup V) =
                BytesUpto(p)[k - 1] + p[k].bytes - Cardinality({})
      <3>1. /\ IsFiniteSet(U \cup V)
            /\ Cardinality(U \cup V) =
                 Cardinality(U) + Cardinality(V) - Cardinality(U \cap V)
        BY <2>3, <2>4, FS_Union
      <3>2. QED
        BY <2>2, <2>3, <2>4, <3>1
    <2>6. BytesUpto(p)[k - 1] + p[k].bytes - Cardinality({}) = BytesUpto(p)[k]
      <3>1. k - 1 \in 0..n
        BY <1>1
      <3>2. BytesUpto(p)[k - 1] \in Nat /\ p[k].bytes \in Nat
        BY <1>2, <1>3, <3>1
      <3>3. QED
        BY <1>2, <3>2, FS_EmptySet
    <2>7. k \in 0..n
      BY <1>1
    <2>8. QED
      BY <2>1, <2>5, <2>6, <2>7
  <1>6. 0..n \subseteq S
    <2> HIDE DEF S, n
    <2>1. QED
      BY <1>1, <1>4, <1>5, IntervalInduct
  <1>7. QED
    BY <1>1, <1>6 DEF TotalBytes

LEMMA TotalOfElements ==
  ASSUME NEW p \in Seq(PlanRow), Distinct(p)
  PROVE  TotalBytes(p) = Cardinality(UNION {{e} \X (1..e.bytes) : e \in Elements(p)})
  <1>1. \A i, j \in 1..Len(p) : p[i] = p[j] => i = j
    BY DEF Distinct
  <1>2. TotalBytes(p) = Cardinality(Marks(p, p, Len(p)))
    BY <1>1, TotalCounts
  <1>3. DOMAIN p = 1..Len(p)
    OBVIOUS
  <1>4. Marks(p, p, Len(p)) = UNION {{e} \X (1..e.bytes) : e \in Elements(p)}
    BY <1>3 DEF Marks, Elements
  <1>5. QED
    BY <1>2, <1>4

\* What the plan answers does not depend on the order of the host.
LEMMA PlanOfSorted ==
  ASSUME NEW p \in Seq(PlanRow), Distinct(p), NEW s, Sorts(s, p)
  PROVE  PlanCode(s) = PlanCode(p)
  <1>1. /\ s \in Seq(PlanRow) /\ Distinct(s)
        /\ Len(s) = Len(p) /\ Elements(s) = Elements(p)
    BY DEF Sorts
  <1>2. TotalBytes(s) = TotalBytes(p)
    BY <1>1, TotalOfElements
  <1>3. IsPlugin(s) = IsPlugin(p) /\ WithinLimits(s) = WithinLimits(p)
    BY <1>1, <1>2 DEF IsPlugin, WithinLimits
  <1>4. QED
    BY <1>3 DEF PlanCode

-----------------------------------------------------------------------------
(* The directory.                                                          *)

LEMMA TrimIs ==
  ASSUME NEW path \in Seq(Segments), path # <<>>, NEW s
  PROVE  TrimEnd(path, s) \in Seq(Segments) /\ TrimEnd(path, s) # <<>>
  <1> DEFINE Last(n) == /\ n = 1 \/ path[n] # s
                        /\ \A i \in n+1..Len(path) : path[i] = s
             T == {i \in 1..Len(path) : i = 1 \/ path[i] # s}
  <1>1. Len(path) \in Nat \ {0}
    BY EmptySeq
  <1>2. T \subseteq 0..Len(path) /\ T # {}
    <2>1. 1 \in T
      BY <1>1
    <2>2. QED
      BY <1>1, <2>1
  <1>3. PICK n \in T : \A i \in T : i <= n
    <2> HIDE DEF T
    <2>1. QED
      BY <1>1, <1>2, Greatest
  <1>4. n \in 1..Len(path) /\ Last(n)
    <2>1. ASSUME NEW i \in n+1..Len(path)
          PROVE  path[i] = s
      <3>1. i \in 1..Len(path) /\ ~(i <= n)
        BY <1>1, <1>3
      <3>2. QED
        BY <1>3, <3>1
    <2>2. QED
      BY <1>3, <2>1
  <1> DEFINE m == CHOOSE k \in 1..Len(path) : Last(k)
  <1>5. m \in 1..Len(path)
    <2> HIDE DEF Last
    <2>1. QED
      BY <1>4
  <1>6. TrimEnd(path, s) = SubSeq(path, 1, m)
    BY DEF TrimEnd
  <1> HIDE DEF m
  <1>7. \A i \in 1..m : path[i] \in Segments
    <2>1. \A i \in 1..m : i \in 1..Len(path)
      BY <1>1, <1>5
    <2>2. QED
      BY <2>1
  <1>8. SubSeq(path, 1, m) \in Seq(Segments) /\ Len(SubSeq(path, 1, m)) = m
    <2>1. 1 \in Int /\ m \in Int /\ 1 <= m /\ m - 1 + 1 = m
      BY <1>1, <1>5
    <2>2. /\ SubSeq(path, 1, m) \in Seq(Segments)
          /\ Len(SubSeq(path, 1, m)) = IF 1 <= m THEN m - 1 + 1 ELSE 0
      BY <1>7, <2>1, SubSeqProperties
    <2>3. QED
      BY <2>1, <2>2
  <1>9. QED
    BY <1>5, <1>6, <1>8

LEMMA DirectoryIs ==
  ASSUME NEW index, Maps(index.plugins), NEW wanted, Resolves(index, wanted)
  PROVE  ResolveIndex(index, wanted) \in Seq(Segments)
  <1> DEFINE d == index.plugins[Chosen(index, wanted)]
             e == TrimEnd(d, "")
             f == TrimEnd(e, ".")
  <1>1. d \in Seq(Segments) /\ d # <<>>
    BY DEF Maps, Resolves, IndexReads
  <1>2. ResolveIndex(index, wanted) = IF f = <<".">> THEN <<>> ELSE f
    BY DEF ResolveIndex, Normalised
  <1> HIDE DEF d
  <1>3. e \in Seq(Segments) /\ e # <<>>
    BY <1>1, TrimIs
  <1> HIDE DEF e
  <1>4. f \in Seq(Segments)
    BY <1>3, TrimIs
  <1> HIDE DEF f
  <1>5. QED
    BY <1>2, <1>4

LEMMA PrefixIs ==
  ASSUME NEW d \in Seq(Segments)
  PROVE  Prefix(d) \in Seq(Segments)
  <1>1. CASE d = <<>>
    BY <1>1 DEF Prefix
  <1>2. CASE d # <<>>
    <2>1. TrimEnd(d, "") \in Seq(Segments)
      BY <1>2, TrimIs
    <2>2. QED
      BY <1>2, <2>1 DEF Prefix
  <1>3. QED
    BY <1>1, <1>2

-----------------------------------------------------------------------------
(* The inductive invariant.                                                *)

Found == Planned(WithoutIndex(snapshot.listing), directory)

\* What Plan has made sure of, whatever the listing.
Acceptable(p, listed) ==
  /\ p \in Seq(PlanRow) /\ Distinct(p)
  /\ \E e \in Elements(p) : IsManifest(e)
  /\ \A e \in Elements(p) : e.source \in listed \ {<<INDEX_NAME>>}
  /\ \A i, j \in 1..Len(p) :
       i < j => /\ ByteOrder[p[i].source] < ByteOrder[p[j].source]
                /\ ByteOrder[p[i].path] < ByteOrder[p[j].path]
  /\ PlanCode(p) = "accepted"

CaseInv ==
  \E c \in Cases : <<source, place, snapshot>> = <<c.source, c.place, c.snapshot>>

StepInv ==
  /\ pc \in Steps
  /\ scope \in Scopes \cup {NONE}
  /\ outcome \in Outcomes
  /\ pc = "done" <=> outcome # "undecided"

StoreInv == DOMAIN store = Scopes /\ \A s \in Scopes : Agrees(store[s])

\* What has been decided on the way to the next step.
DecidedInv ==
  /\ pc \notin {"parse", "done"} => SourceParses(source)
  /\ pc \notin {"parse", "place", "done"} => scope = ChooseScope(place)
  /\ pc \in {"plan", "manifest", "rest", "commit"} =>
       /\ <<INDEX_NAME>> \in Listed
       /\ Resolves(snapshot.index, source.fragment)
       /\ directory = ResolveIndex(snapshot.index, source.fragment)
  /\ pc \in {"manifest", "rest", "commit"} =>
       PlanCode(Found) = "accepted" /\ Sorts(planned, Found)
  /\ pc \in {"rest", "commit"} => ManifestCode(snapshot.manifest, Engine) = "accepted"
  /\ pc = "commit" => files = Entries

\* n requests have been answered when this step is next.
LengthAt(step, n) ==
  /\ step \in {"parse", "place", "provider"} => n = 0
  /\ step = "resolve" => n = 1
  /\ step = "enumerate" => n = 2
  /\ step = "index" => n = 3
  /\ step \in {"plan", "manifest"} => n = 4
  /\ step \in {"rest", "commit"} => n > 4

LengthInv == LengthAt(pc, Len(asked))

PlannedInv ==
  /\ planned # <<>> => Acceptable(planned, Listed)
  /\ pc \in {"manifest", "rest", "commit"} \/ Len(asked) > 4 => planned # <<>>
  /\ Len(asked) > 5 => ManifestCode(snapshot.manifest, Engine) = "accepted"

Requests == {<<"handshake">>, <<"resolve">>, <<"enumerate">>} \cup {Read(p) : p \in Paths}

\* Three requests, then reads, of the index first.
Requested(a) ==
  /\ a \in Seq(Requests)
  /\ \A k \in 1..Len(a) : a[k][1] = "read" <=> k > 3
  /\ Len(a) > 3 => a[4] = Read(<<INDEX_NAME>>)

\* After the index the manifest m, then what else has arrived, ascending.
Arrived(a, p, f, m) ==
  /\ f \subseteq Elements(p)
  /\ f # {} => Len(a) > 4
  /\ Len(a) > 4 => a[5] = Read(m.source) /\ m \in f
  /\ \A k \in 6..Len(a) : \E e \in f \ {m} : a[k] = Read(e.source)
  /\ \A k, l \in 6..Len(a) : k < l => ByteOrder[a[k][2]] < ByteOrder[a[l][2]]
  /\ \A i, j \in 1..Len(p) : j < i /\ p[i] \in f \ {m} => p[j] \in f

ReadsInv == Requested(asked) /\ Arrived(asked, planned, files, ManifestEntry)

FetchInv ==
  /\ CaseInv /\ StepInv /\ StoreInv /\ DecidedInv
  /\ LengthInv /\ PlannedInv /\ ReadsInv

-----------------------------------------------------------------------------
(* What the steps rest on.                                                 *)

LEMMA CaseIs ==
  ASSUME CaseInv
  PROVE  /\ Lists(snapshot.listing)
         /\ Maps(snapshot.index.plugins)
         /\ place.given \in Scopes \cup {NONE}
  <1>1. PICK c \in Cases : <<source, place, snapshot>> = <<c.source, c.place, c.snapshot>>
    BY DEF CaseInv
  <1>2. place = c.place /\ snapshot = c.snapshot
    BY <1>1
  <1>3. QED
    BY <1>2, FetchAssumption

LEMMA ListedIs ==
  ASSUME Lists(snapshot.listing)
  PROVE  Listed \subseteq Paths
  <1>1. SUFFICES ASSUME NEW i \in DOMAIN snapshot.listing
                 PROVE  snapshot.listing[i].path \in Paths
    BY DEF Listed
  <1>2. snapshot.listing[i] \in [path : Paths, bytes : Nat]
    <2> DEFINE R == [path : Paths, bytes : Nat]
               listing == snapshot.listing
    <2>1. listing \in Seq(R) /\ i \in DOMAIN listing
      BY DEF Lists
    <2> HIDE DEF R, listing
    <2>2. listing[i] \in R
      BY <2>1
    <2>3. QED
      BY <2>2 DEF R, listing
  <1>3. QED
    BY <1>2

LEMMA PlanReports ==
  ASSUME NEW p, PlanCode(p) # "accepted"
  PROVE  PlanCode(p) \in Codes
  BY DEF PlanCode, Codes

LEMMA ManifestReports ==
  ASSUME NEW manifest, ManifestCode(manifest, Engine) # "accepted"
  PROVE  ManifestCode(manifest, Engine) \in Codes
  BY DEF ManifestCode, Codes

LEMMA ScopeIs ==
  ASSUME NEW p, p.given \in Scopes \cup {NONE}
  PROVE  ChooseScope(p) \in Scopes
  BY DEF ChooseScope, Scopes

\* What the plan leaves of an accepted tree.
LEMMA AcceptedIs ==
  ASSUME NEW listing, Lists(listing), NEW d, Prefix(d) \in Seq(Segments),
         NEW found, found = Planned(WithoutIndex(listing), d),
         PlanCode(found) = "accepted"
  PROVE  /\ Sorts(Ascending(found), found)
         /\ Acceptable(Ascending(found), {listing[i].path : i \in DOMAIN listing})
         /\ Ascending(found) # <<>>
  <1> DEFINE root == Prefix(d)
             s == Ascending(found)
  <1>1. Narrows(found, listing, root)
    BY FoundIs
  <1>2. found \in Seq(PlanRow) /\ Distinct(found)
    BY <1>1 DEF Narrows
  <1>3. Sorts(s, found)
    BY <1>2, SortedIs
  <1> HIDE DEF root, s
  <1>4. s \in Seq(PlanRow) /\ Distinct(s) /\ Elements(s) = Elements(found)
    BY <1>3 DEF Sorts
  <1>5. PlanCode(s) = "accepted"
    BY <1>2, <1>3, PlanOfSorted
  <1>6. \E e \in Elements(s) : IsManifest(e)
    <2>1. IsPlugin(s)
      BY <1>5 DEF PlanCode
    <2>2. QED
      BY <2>1 DEF IsPlugin, IsManifest
  <1>7. \A e \in Elements(s) :
          \E x \in Elements(listing) : /\ x \in Row /\ Belongs(x, root)
                                      /\ e = Narrowed(x, root)
    <2>1. SUFFICES ASSUME NEW e \in Elements(found)
                   PROVE  \E x \in Elements(listing) :
                            x \in Row /\ Belongs(x, root) /\ e = Narrowed(x, root)
      BY <1>4
    <2>2. PICK i \in 1..Len(found) : e = found[i]
      BY <1>2 DEF Elements
    <2>3. PICK x \in Elements(listing) : Belongs(x, root) /\ found[i] = Narrowed(x, root)
      BY <1>1 DEF Narrows
    <2>4. x \in Row
      <3>1. listing \in Seq(Row)
        BY DEF Lists, Row
      <3>2. \A k \in DOMAIN listing : listing[k] \in Row
        BY <3>1
      <3>3. QED
        BY <3>2 DEF Elements
    <2>5. QED
      BY <2>2, <2>3, <2>4
  <1>8. root \in Seq(Segments)
    BY DEF root
  <1>9. \A e \in Elements(s) :
          e.source \in {listing[i].path : i \in DOMAIN listing} \ {<<INDEX_NAME>>}
    <2>1. SUFFICES ASSUME NEW e \in Elements(s)
                   PROVE  e.source \in {listing[i].path : i \in DOMAIN listing}
                                        \ {<<INDEX_NAME>>}
      OBVIOUS
    <2>2. PICK x \in Elements(listing) : /\ x \in Row /\ Belongs(x, root)
                                        /\ e = Narrowed(x, root)
      BY <1>7
    <2>3. e.source = x.path
      BY <2>2 DEF Narrowed
    <2>4. QED
      BY <2>2, <2>3 DEF Elements, Belongs
  <1>10. ASSUME NEW i \in 1..Len(s), NEW j \in 1..Len(s), i < j
         PROVE  /\ ByteOrder[s[i].source] < ByteOrder[s[j].source]
                /\ ByteOrder[s[i].path] < ByteOrder[s[j].path]
    <2>1. ByteOrder[s[i].path] < ByteOrder[s[j].path]
      BY <1>3, <1>10 DEF Sorts
    <2>2. s[i] \in Elements(s) /\ s[j] \in Elements(s)
      BY <1>4 DEF Elements
    <2>3. PICK x \in Row : Belongs(x, root) /\ s[i] = Narrowed(x, root)
      BY <1>7, <2>2
    <2>4. PICK y \in Row : Belongs(y, root) /\ s[j] = Narrowed(y, root)
      BY <1>7, <2>2
    <2>5. /\ s[i].source = x.path /\ s[i].path = From(x.path, Len(root) + 1)
          /\ s[j].source = y.path /\ s[j].path = From(y.path, Len(root) + 1)
      BY <2>3, <2>4 DEF Narrowed
    <2>6. /\ x.path \in Paths /\ Within(x.path, root)
          /\ y.path \in Paths /\ Within(y.path, root)
      BY <2>3, <2>4 DEF Row, Belongs
    <2>7. ByteOrder[x.path] < ByteOrder[y.path] <=>
            ByteOrder[From(x.path, Len(root) + 1)] < ByteOrder[From(y.path, Len(root) + 1)]
      BY <1>8, <2>6, FromOrders
    <2>8. QED
      BY <2>1, <2>5, <2>7
  <1>11. s # <<>>
    <2>1. PICK e \in Elements(s) : TRUE
      BY <1>6
    <2>2. DOMAIN s # {}
      BY <2>1 DEF Elements
    <2>3. QED
      BY <2>2
  <1>12. Acceptable(s, {listing[i].path : i \in DOMAIN listing})
    BY <1>4, <1>5, <1>6, <1>9, <1>10 DEF Acceptable
  <1>13. QED
    BY <1>3, <1>11, <1>12 DEF s

\* One more request.
LEMMA RequestedMore ==
  ASSUME NEW a, Requested(a), NEW r \in Requests,
         r[1] = "read" <=> Len(a) > 2,
         Len(a) = 3 => r = Read(<<INDEX_NAME>>)
  PROVE  Requested(Append(a, r)) /\ Len(Append(a, r)) = Len(a) + 1
  <1> DEFINE b == Append(a, r)
             n == Len(a)
  <1>1. a \in Seq(Requests) /\ n \in Nat
    BY DEF Requested
  <1>2. /\ b \in Seq(Requests) /\ Len(b) = n + 1 /\ b[n + 1] = r
        /\ \A k \in 1..n : b[k] = a[k]
    BY <1>1, AppendProperties
  <1> HIDE DEF b
  <1>3. ASSUME NEW k \in 1..(n + 1)
        PROVE  b[k][1] = "read" <=> k > 3
    <2>1. CASE k = n + 1
      BY <1>1, <1>2, <2>1
    <2>2. CASE k \in 1..n
      BY <1>2, <2>2 DEF Requested
    <2>3. QED
      BY <1>1, <2>1, <2>2
  <1>4. ASSUME n + 1 > 3
        PROVE  b[4] = Read(<<INDEX_NAME>>)
    <2>1. CASE n = 3
      BY <1>2, <2>1
    <2>2. CASE n # 3
      <3> HIDE DEF n
      <3>1. 4 \in 1..n /\ n > 3
        BY <1>1, <1>4, <2>2
      <3>2. QED
        BY <1>2, <3>1 DEF Requested, n
    <2>3. QED
      BY <2>1, <2>2
  <1>5. QED
    BY <1>2, <1>3, <1>4 DEF Requested, b

\* Before the manifest nothing of the plugin has arrived.
LEMMA ArrivedEarly ==
  ASSUME NEW a, NEW b, NEW p, NEW f, NEW m, NEW l, Arrived(a, p, f, l),
         NEW q, q = p \/ f = {},
         Len(a) \in Nat, Len(b) \in Nat, Len(a) <= 4, Len(b) <= 4
  PROVE  Arrived(b, q, f, m)
  <1>1. 6..Len(b) = {} /\ ~(Len(b) > 4) /\ ~(Len(a) > 4)
    OBVIOUS
  <1>2. f = {}
    BY <1>1 DEF Arrived
  <1>3. QED
    BY <1>1, <1>2 DEF Arrived

LEMMA ArrivedManifest ==
  ASSUME NEW a \in Seq(Requests), Len(a) = 4, NEW p, NEW m \in Elements(p),
         Read(m.source) \in Requests
  PROVE  Arrived(Append(a, Read(m.source)), p, {m}, m)
  <1> DEFINE b == Append(a, Read(m.source))
  <1>1. Len(b) = 5 /\ b[5] = Read(m.source)
    <2>1. Len(b) = Len(a) + 1 /\ b[Len(a) + 1] = Read(m.source)
      BY AppendProperties
    <2>2. QED
      BY <2>1
  <1> HIDE DEF b
  <1>2. 6..Len(b) = {} /\ {m} \ {m} = {} /\ {m} \subseteq Elements(p)
    BY <1>1
  <1>3. Arrived(b, p, {m}, m)
    BY <1>1, <1>2 DEF Arrived
  <1>4. QED
    BY <1>3 DEF b

\* The next entry in order.
LEMMA ArrivedMore ==
  ASSUME NEW a \in Seq(Requests), Len(a) > 4, NEW p, NEW listed,
         Acceptable(p, listed), NEW f, NEW m, Arrived(a, p, f, m),
         NEW i \in DOMAIN p, p[i] \notin f, \A j \in 1..i-1 : p[j] \in f,
         Read(p[i].source) \in Requests
  PROVE  Arrived(Append(a, Read(p[i].source)), p, f \cup {p[i]}, m)
  <1> DEFINE r == Read(p[i].source)
             b == Append(a, r)
             n == Len(a)
             g == f \cup {p[i]}
  <1>1. n \in Nat /\ n > 4
    OBVIOUS
  <1>2. /\ Len(b) = n + 1 /\ b[n + 1] = r
        /\ \A k \in 1..n : b[k] = a[k]
    BY AppendProperties
  <1>3. p \in Seq(PlanRow) /\ DOMAIN p = 1..Len(p) /\ i \in 1..Len(p) /\ Len(p) \in Nat
    BY DEF Acceptable
  <1> HIDE DEF b
  <1>4. m \in f /\ p[i] # m /\ a[5] = Read(m.source)
    BY <1>1 DEF Arrived
  <1>5. g \subseteq Elements(p)
    BY DEF Arrived, Elements
  <1>6. b[5] = Read(m.source) /\ m \in g
    BY <1>1, <1>2, <1>4
  <1>7. ASSUME NEW k \in 6..(n + 1)
        PROVE  \E e \in g \ {m} : b[k] = Read(e.source)
    <2>1. CASE k = n + 1
      BY <1>2, <1>4, <2>1
    <2>2. CASE k # n + 1
      <3>1. k \in 6..n /\ k \in 1..n
        BY <1>1, <2>2
      <3>2. QED
        BY <1>2, <3>1 DEF Arrived
    <2>3. QED
      BY <2>1, <2>2
  <1>8. ASSUME NEW k \in 6..n
        PROVE  ByteOrder[a[k][2]] < ByteOrder[r[2]]
    <2>1. PICK e \in f \ {m} : a[k] = Read(e.source)
      BY DEF Arrived
    <2>2. PICK l \in 1..Len(p) : p[l] = e
      BY <1>3 DEF Arrived, Elements
    <2>3. l < i
      <3>1. SUFFICES ASSUME ~(l < i) PROVE FALSE
        OBVIOUS
      <3>2. l # i
        BY <2>1, <2>2
      <3>3. i < l /\ p[l] \in f \ {m}
        BY <1>3, <2>1, <2>2, <3>1, <3>2
      <3>4. p[i] \in f
        BY <1>3, <3>3 DEF Arrived
      <3>5. QED
        BY <3>4
    <2>4. ByteOrder[p[l].source] < ByteOrder[p[i].source]
      BY <1>3, <2>3 DEF Acceptable
    <2>5. a[k][2] = p[l].source /\ r[2] = p[i].source
      BY <2>1, <2>2 DEF Read
    <2>6. QED
      BY <2>4, <2>5
  <1>9. ASSUME NEW k \in 6..(n + 1), NEW l \in 6..(n + 1), k < l
        PROVE  ByteOrder[b[k][2]] < ByteOrder[b[l][2]]
    <2>1. k \in 6..n /\ k \in 1..n
      BY <1>1, <1>9
    <2>2. CASE l = n + 1
      BY <1>2, <1>8, <2>1, <2>2
    <2>3. CASE l # n + 1
      <3>1. l \in 6..n /\ l \in 1..n
        BY <1>1, <2>3
      <3>2. ByteOrder[a[k][2]] < ByteOrder[a[l][2]]
        BY <1>9, <2>1, <3>1 DEF Arrived
      <3>3. QED
        BY <1>2, <2>1, <3>1, <3>2
    <2>4. QED
      BY <2>2, <2>3
  <1>10. ASSUME NEW k \in 1..Len(p), NEW l \in 1..Len(p), l < k, p[k] \in g \ {m}
         PROVE  p[l] \in g
    <2>1. CASE p[k] = p[i]
      <3>1. k = i
        BY <1>3, <2>1 DEF Acceptable, Distinct
      <3>2. l \in 1..i-1
        BY <1>3, <1>10, <3>1
      <3>3. QED
        BY <3>2
    <2>2. CASE p[k] # p[i]
      <3>1. p[k] \in f \ {m}
        BY <1>10, <2>2
      <3>2. QED
        BY <1>10, <3>1 DEF Arrived
    <2>3. QED
      BY <2>1, <2>2
  <1> HIDE DEF g, r
  <1>11. Arrived(b, p, g, m)
    BY <1>2, <1>4, <1>5, <1>6, <1>7, <1>9, <1>10 DEF Arrived
  <1>12. QED
    BY <1>11 DEF b, g, r

-----------------------------------------------------------------------------
(* Every step keeps the invariant.                                         *)

LEMMA InputsKept ==
  ASSUME [Next]_vars
  PROVE  UNCHANGED inputs
  <1>1. CASE ParseSource
    BY <1>1 DEF ParseSource, At, Go, Keep, End, Refuse, inputs, work
  <1>2. CASE ChoosePlace
    BY <1>2 DEF ChoosePlace, At, Go, Keep, End, Refuse, inputs, work
  <1>3. CASE StartProvider
    BY <1>3 DEF StartProvider, At, Go, Keep, End, Refuse, inputs, work
  <1>4. CASE Resolve
    BY <1>4 DEF Resolve, At, Go, Keep, End, Refuse, inputs, work
  <1>5. CASE Enumerate
    BY <1>5 DEF Enumerate, At, Go, Keep, End, Refuse, inputs, work
  <1>6. CASE ReadIndex
    BY <1>6 DEF ReadIndex, At, Go, Keep, End, Refuse, inputs, work
  <1>7. CASE Plan
    BY <1>7 DEF Plan, At, Go, Keep, End, Refuse, inputs, work
  <1>8. CASE ReadManifest
    BY <1>8 DEF ReadManifest, At, Go, Keep, End, Refuse, inputs, work
  <1>9. CASE ReadRest
    BY <1>9 DEF ReadRest, At, Go, Keep, End, Refuse, inputs, work
  <1>10. CASE Fetched
    BY <1>10 DEF Fetched, At, Go, Keep, End, Refuse, inputs, work
  <1>11. CASE Commit
    BY <1>11 DEF Commit, At, Go, Keep, End, Refuse, inputs, work
  <1>12. CASE ProviderFails
    BY <1>12 DEF ProviderFails, At, Go, Keep, End, Refuse, inputs, work
  <1>13. CASE UNCHANGED vars
    BY <1>13 DEF vars, At, Go, Keep, End, Refuse, inputs, work
  <1>14. QED
    BY <1>1, <1>2, <1>3, <1>4, <1>5, <1>6, <1>7, <1>8, <1>9, <1>10, <1>11, <1>12, <1>13 DEF Next

LEMMA CaseKept ==
  ASSUME FetchInv, [Next]_vars
  PROVE  CaseInv'
  <1>1. source' = source /\ place' = place /\ snapshot' = snapshot
    BY InputsKept DEF inputs
  <1>2. QED
    BY <1>1 DEF FetchInv, CaseInv

\* The step, the scope and the report.
LEMMA StepKept ==
  ASSUME FetchInv, [Next]_vars
  PROVE  StepInv'
  <1>1. StepInv /\ CaseInv /\ DecidedInv
    BY DEF FetchInv
  <1>10. CASE ParseSource
    BY <1>1, <1>10 DEF ParseSource, At, Go, Keep, End, Refuse, inputs, work, StepInv, Steps, Scopes, Outcomes, Codes, Successes, Unavailable
  <1>11. CASE ChoosePlace
    <2>1. ChooseScope(place) \in Scopes
      BY <1>1, CaseIs, ScopeIs
    <2>2. QED
      BY <1>1, <1>11, <2>1 DEF ChoosePlace, At, Go, Keep, End, Refuse, inputs, work, StepInv, Steps, Scopes, Outcomes, Codes, Successes, Unavailable
  <1>12. CASE StartProvider
    BY <1>1, <1>12 DEF StartProvider, At, Go, Keep, End, Refuse, inputs, work, StepInv, Steps, Scopes, Outcomes, Codes, Successes, Unavailable
  <1>13. CASE Resolve
    BY <1>1, <1>13 DEF Resolve, At, Go, Keep, End, Refuse, inputs, work, StepInv, Steps, Scopes, Outcomes, Codes, Successes, Unavailable
  <1>14. CASE Enumerate
    BY <1>1, <1>14 DEF Enumerate, At, Go, Keep, End, Refuse, inputs, work, StepInv, Steps, Scopes, Outcomes, Codes, Successes, Unavailable
  <1>15. CASE ReadIndex
    BY <1>1, <1>15 DEF ReadIndex, At, Go, Keep, End, Refuse, inputs, work, StepInv, Steps, Scopes, Outcomes, Codes, Successes, Unavailable
  <1>16. CASE Plan
    <2> DEFINE code == PlanCode(Found)
    <2>1. code # "accepted" => code \in Codes
      BY PlanReports
    <2>2. /\ scope' = scope
          /\ \/ pc' = "manifest" /\ pc = "plan" /\ outcome' = outcome
             \/ pc' = "done" /\ outcome' = code /\ code # "accepted"
      BY <1>16 DEF Plan, At, Go, Keep, End, Refuse, inputs, work, Found
    <2> HIDE DEF code
    <2>3. QED
      BY <1>1, <2>1, <2>2 DEF StepInv, Steps, Scopes, Outcomes, Codes, Successes, Unavailable
  <1>17. CASE ReadManifest
    <2> DEFINE code == ManifestCode(snapshot.manifest, Engine)
    <2>1. code # "accepted" => code \in Codes
      BY ManifestReports
    <2>2. /\ scope' = scope
          /\ \/ pc' = "rest" /\ pc = "manifest" /\ outcome' = outcome
             \/ pc' = "done" /\ outcome' = code /\ code # "accepted"
      BY <1>17 DEF ReadManifest, At, Go, Keep, End, Refuse, inputs, work
    <2> HIDE DEF code
    <2>3. QED
      BY <1>1, <2>1, <2>2 DEF StepInv, Steps, Scopes, Outcomes, Codes, Successes, Unavailable
  <1>18. CASE ReadRest
    BY <1>1, <1>18 DEF ReadRest, At, Go, Keep, End, Refuse, inputs, work, StepInv, Steps, Scopes, Outcomes, Codes, Successes, Unavailable
  <1>19. CASE Fetched
    BY <1>1, <1>19 DEF Fetched, At, Go, Keep, End, Refuse, inputs, work, StepInv, Steps, Scopes, Outcomes, Codes, Successes, Unavailable
  <1>20. CASE Commit
    BY <1>1, <1>20 DEF Commit, At, Go, Keep, End, Refuse, inputs, work, StepInv, Steps, Scopes, Outcomes, Codes, Successes, Unavailable
  <1>21. CASE ProviderFails
    BY <1>1, <1>21 DEF ProviderFails, At, Go, Keep, End, Refuse, inputs, work, StepInv, Steps, Scopes, Outcomes, Codes, Successes, Unavailable
  <1>22. CASE UNCHANGED vars
    BY <1>1, <1>22 DEF vars, inputs, work, StepInv, Steps, Scopes, Outcomes, Codes, Successes, Unavailable
  <1>30. QED
    BY <1>10, <1>11, <1>12, <1>13, <1>14, <1>15, <1>16, <1>17, <1>18, <1>19, <1>20, <1>21, <1>22 DEF Next

\* What an installation makes of a store.
LEMMA PromotedAgrees ==
  ASSUME NEW s, Agrees(s)
  PROVE  Agrees(Promoted(s))
  <1>1. CASE Name = ""
    <2>1. Promoted(s) = [holds |-> "nothing", record |-> <<>>, dirs |-> {}]
      BY <1>1 DEF Promoted
    <2>2. DOMAIN <<>> = {}
      OBVIOUS
    <2>3. /\ Promoted(s).holds = "nothing" /\ Promoted(s).record = <<>>
          /\ Promoted(s).dirs = {}
      BY <2>1
    <2>4. QED
      BY <2>2, <2>3 DEF Agrees
  <1>2. CASE Name # "" /\ Name = RECORD_NAME
    BY <1>2 DEF Promoted, Agrees
  <1>3. CASE Name # "" /\ Name # RECORD_NAME
    <2>1. Promoted(s) = [holds |-> "file", record |-> Upserted(s.record),
                         dirs |-> s.dirs \cup {Name}]
      BY <1>3 DEF Promoted
    <2>2. DOMAIN Upserted(s.record) = DOMAIN s.record \cup {Name}
      BY DEF Upserted
    <2>3. QED
      BY <2>1, <2>2 DEF Agrees
  <1>4. QED
    BY <1>1, <1>2, <1>3

\* Only the installation changes the stores.
LEMMA CommitsAlone ==
  ASSUME [Next]_vars
  PROVE  UNCHANGED store \/ (Commit /\ store' = [store EXCEPT ![scope] = Promoted(store[scope])])
  <1>1. CASE ParseSource
    BY <1>1 DEF ParseSource, At, Go, Keep, End, Refuse, inputs, work
  <1>2. CASE ChoosePlace
    BY <1>2 DEF ChoosePlace, At, Go, Keep, End, Refuse, inputs, work
  <1>3. CASE StartProvider
    BY <1>3 DEF StartProvider, At, Go, Keep, End, Refuse, inputs, work
  <1>4. CASE Resolve
    BY <1>4 DEF Resolve, At, Go, Keep, End, Refuse, inputs, work
  <1>5. CASE Enumerate
    BY <1>5 DEF Enumerate, At, Go, Keep, End, Refuse, inputs, work
  <1>6. CASE ReadIndex
    BY <1>6 DEF ReadIndex, At, Go, Keep, End, Refuse, inputs, work
  <1>7. CASE Plan
    BY <1>7 DEF Plan, At, Go, Keep, End, Refuse, inputs, work
  <1>8. CASE ReadManifest
    BY <1>8 DEF ReadManifest, At, Go, Keep, End, Refuse, inputs, work
  <1>9. CASE ReadRest
    BY <1>9 DEF ReadRest, At, Go, Keep, End, Refuse, inputs, work
  <1>10. CASE Fetched
    BY <1>10 DEF Fetched, At, Go, Keep, End, Refuse, inputs, work
  <1>11. CASE ProviderFails
    BY <1>11 DEF ProviderFails, At, Go, Keep, End, Refuse, inputs, work
  <1>12. CASE UNCHANGED vars
    BY <1>12 DEF vars, At, Go, Keep, End, Refuse, inputs, work
  <1>13. CASE Commit
    BY <1>13 DEF Commit
  <1>14. QED
    BY <1>1, <1>2, <1>3, <1>4, <1>5, <1>6, <1>7, <1>8, <1>9, <1>10, <1>11, <1>12, <1>13 DEF Next

LEMMA StoreKept ==
  ASSUME FetchInv, [Next]_vars
  PROVE  StoreInv'
  <1>1. StoreInv
    BY DEF FetchInv
  <1>2. \/ UNCHANGED store
        \/ store' = [store EXCEPT ![scope] = Promoted(store[scope])]
    BY CommitsAlone
  <1>3. CASE UNCHANGED store
    BY <1>1, <1>3 DEF StoreInv, Agrees
  <1>4. CASE store' = [store EXCEPT ![scope] = Promoted(store[scope])]
    <2>1. DOMAIN store' = Scopes
      BY <1>1, <1>4 DEF StoreInv
    <2>2. ASSUME NEW s \in Scopes
          PROVE  Agrees(store'[s])
      <3>1. CASE s = scope
        <4>1. store'[s] = Promoted(store[s])
          BY <1>1, <1>4, <3>1 DEF StoreInv
        <4>2. Agrees(store[s])
          BY <1>1 DEF StoreInv
        <4>3. QED
          BY <4>1, <4>2, PromotedAgrees
      <3>2. CASE s # scope
        <4>1. store'[s] = store[s]
          BY <1>1, <1>4, <3>2 DEF StoreInv
        <4>2. QED
          BY <1>1, <4>1 DEF StoreInv
      <3>3. QED
        BY <3>1, <3>2
    <2>3. QED
      BY <2>1, <2>2 DEF StoreInv
  <1>5. QED
    BY <1>2, <1>3, <1>4

\* What is derived from the inputs and the plan is kept with them.
LEMMA DerivedKept ==
  ASSUME UNCHANGED inputs
  PROVE  /\ Listed' = Listed
         /\ directory' = directory => Found' = Found
         /\ planned' = planned => Entries' = Entries /\ ManifestEntry' = ManifestEntry
  <1>1. snapshot' = snapshot
    BY DEF inputs
  <1>2. Listed' = Listed
    BY <1>1 DEF Listed
  <1>3. directory' = directory => Found' = Found
    BY <1>1 DEF Found
  <1>4. planned' = planned => Entries' = Entries
    BY DEF Entries
  <1>5. planned' = planned => ManifestEntry' = ManifestEntry
    BY <1>4 DEF ManifestEntry
  <1>6. QED
    BY <1>2, <1>3, <1>4, <1>5

\* What has been decided.
LEMMA DecidedKept ==
  ASSUME FetchInv, [Next]_vars
  PROVE  DecidedInv'
  <1>1. DecidedInv /\ CaseInv
    BY DEF FetchInv
  <1>2. /\ source' = source /\ place' = place /\ snapshot' = snapshot
        /\ Listed' = Listed
        /\ directory' = directory => Found' = Found
        /\ planned' = planned => Entries' = Entries
    BY InputsKept, DerivedKept DEF inputs
  <1>10. CASE ParseSource
    BY <1>1, <1>2, <1>10 DEF ParseSource, At, Go, Keep, End, Refuse, inputs, work, DecidedInv, Steps
  <1>11. CASE ChoosePlace
    BY <1>1, <1>2, <1>11 DEF ChoosePlace, At, Go, Keep, End, Refuse, inputs, work, DecidedInv, Steps
  <1>12. CASE StartProvider
    BY <1>1, <1>2, <1>12 DEF StartProvider, At, Go, Keep, End, Refuse, inputs, work, DecidedInv, Steps
  <1>13. CASE Resolve
    BY <1>1, <1>2, <1>13 DEF Resolve, At, Go, Keep, End, Refuse, inputs, work, DecidedInv, Steps
  <1>14. CASE Enumerate
    BY <1>1, <1>2, <1>14 DEF Enumerate, At, Go, Keep, End, Refuse, inputs, work, DecidedInv, Steps
  <1>15. CASE ReadIndex
    BY <1>1, <1>2, <1>15 DEF ReadIndex, At, Go, Keep, End, Refuse, inputs, work, DecidedInv, Steps
  <1>16. CASE Plan
    <2>1. CASE PlanCode(Found) = "accepted"
      <3>1. Lists(snapshot.listing) /\ Maps(snapshot.index.plugins)
        BY <1>1, CaseIs
      <3>2. directory \in Seq(Segments)
        BY <1>1, <1>16, <3>1, DirectoryIs DEF DecidedInv, Plan, At
      <3>3. Prefix(directory) \in Seq(Segments)
        BY <3>2, PrefixIs
      <3>4. Sorts(Ascending(Found), Found)
        BY <2>1, <3>1, <3>3, AcceptedIs DEF Found
      <3>5. planned' = Ascending(Found) /\ pc' = "manifest" /\ directory' = directory
            /\ scope' = scope /\ pc = "plan"
        BY <1>16, <2>1 DEF Plan, At, Go, Keep, End, Refuse, inputs, work, Found
      <3>6. Sorts(planned, Found)'
        BY <1>2, <3>4, <3>5
      <3>7. QED
        BY <1>1, <1>2, <2>1, <3>5, <3>6 DEF DecidedInv
    <2>2. CASE PlanCode(Found) # "accepted"
      <3>1. pc' = "done"
        BY <1>16, <2>2 DEF Plan, At, Go, Keep, End, Refuse, inputs, work, Found
      <3>2. QED
        BY <3>1 DEF DecidedInv
    <2>3. QED
      BY <2>1, <2>2
  <1>17. CASE ReadManifest
    BY <1>1, <1>2, <1>17 DEF ReadManifest, At, Go, Keep, End, Refuse, inputs, work, DecidedInv, Steps
  <1>18. CASE ReadRest
    BY <1>1, <1>2, <1>18 DEF ReadRest, At, Go, Keep, End, Refuse, inputs, work, DecidedInv, Steps
  <1>19. CASE Fetched
    <2>1. files' = files /\ Entries \subseteq files /\ pc' = "commit" /\ pc = "rest"
          /\ directory' = directory /\ planned' = planned /\ scope' = scope
      BY <1>19 DEF Fetched, At, Go, Keep, End, Refuse, inputs, work
    <2>2. files \subseteq Entries
      BY DEF FetchInv, ReadsInv, Arrived, Entries
    <2>3. QED
      BY <1>1, <1>2, <2>1, <2>2 DEF DecidedInv
  <1>20. CASE Commit
    <2>1. pc' = "done"
      BY <1>20 DEF Commit, At, Go, Keep, End, Refuse, inputs, work
    <2>2. QED
      BY <2>1 DEF DecidedInv
  <1>21. CASE ProviderFails
    BY <1>1, <1>2, <1>21 DEF ProviderFails, At, Go, Keep, End, Refuse, inputs, work, DecidedInv, Steps
  <1>22. CASE UNCHANGED vars
    BY <1>1, <1>2, <1>22 DEF vars, inputs, work, DecidedInv, Steps
  <1>30. QED
    BY <1>10, <1>11, <1>12, <1>13, <1>14, <1>15, <1>16, <1>17, <1>18, <1>19, <1>20, <1>21, <1>22 DEF Next

\* b is a and one more request, a read after the first three.
More(a, b) ==
  \E r \in Requests : /\ b = Append(a, r)
                      /\ r[1] = "read" <=> Len(a) > 2
                      /\ Len(a) = 3 => r = Read(<<INDEX_NAME>>)

LEMMA AskedIs ==
  ASSUME FetchInv, [Next]_vars
  PROVE  asked' = asked \/ More(asked, asked')
  <1>1. LengthInv /\ CaseInv /\ PlannedInv
    BY DEF FetchInv
  <1>2. Listed \subseteq Paths
    BY <1>1, CaseIs, ListedIs
  <1>3. \A p \in Paths : Read(p) \in Requests /\ Read(p)[1] = "read"
    BY DEF Requests, Read
  <1>4. Acceptable(planned, Listed) => \A e \in Entries : e.source \in Paths
    BY <1>2 DEF Acceptable, Entries
  <1>5. CASE StartProvider
    <2>1. asked' = Append(asked, <<"handshake">>) /\ Len(asked) = 0
      BY <1>1, <1>5 DEF StartProvider, Asks, At, LengthInv, LengthAt
    <2>2. <<"handshake">> \in Requests /\ <<"handshake">>[1] # "read"
      BY DEF Requests
    <2>3. QED
      BY <2>1, <2>2 DEF More
  <1>6. CASE Resolve
    <2>1. asked' = Append(asked, <<"resolve">>) /\ Len(asked) = 1
      BY <1>1, <1>6 DEF Resolve, Asks, At, LengthInv, LengthAt
    <2>2. <<"resolve">> \in Requests /\ <<"resolve">>[1] # "read"
      BY DEF Requests
    <2>3. QED
      BY <2>1, <2>2 DEF More
  <1>7. CASE Enumerate
    <2>1. asked' = Append(asked, <<"enumerate">>) /\ Len(asked) = 2
      BY <1>1, <1>7 DEF Enumerate, Asks, At, LengthInv, LengthAt
    <2>2. <<"enumerate">> \in Requests /\ <<"enumerate">>[1] # "read"
      BY DEF Requests
    <2>3. QED
      BY <2>1, <2>2 DEF More
  <1>8. CASE ReadIndex
    <2>1. CASE <<INDEX_NAME>> \notin Listed
      BY <1>8, <2>1 DEF ReadIndex, Refuse, work
    <2>2. CASE <<INDEX_NAME>> \in Listed
      <3>1. asked' = Append(asked, Read(<<INDEX_NAME>>)) /\ Len(asked) = 3
        BY <1>1, <1>8, <2>2 DEF ReadIndex, Asks, At, LengthInv, LengthAt
      <3>2. Read(<<INDEX_NAME>>) \in Requests /\ Read(<<INDEX_NAME>>)[1] = "read"
        BY <1>2, <1>3, <2>2
      <3>3. QED
        BY <3>1, <3>2 DEF More
    <2>3. QED
      BY <2>1, <2>2
  <1>9. CASE ReadManifest
    <2>1. asked' = Append(asked, Read(ManifestEntry.source)) /\ Len(asked) = 4
          /\ planned # <<>>
      BY <1>1, <1>9 DEF ReadManifest, Asks, At, LengthInv, LengthAt, PlannedInv
    <2>2. ManifestEntry.source \in Paths
      <3>1. Acceptable(planned, Listed)
        BY <1>1, <2>1 DEF PlannedInv
      <3>2. ManifestEntry \in Entries
        BY <3>1 DEF Acceptable, ManifestEntry, Entries
      <3>3. QED
        BY <1>4, <3>1, <3>2
    <2>3. QED
      BY <1>3, <2>1, <2>2 DEF More
  <1>10. CASE ReadRest
    <2>1. PICK i \in DOMAIN planned : asked' = Append(asked, Read(planned[i].source))
      BY <1>10 DEF ReadRest, Asks
    <2>2. Len(asked) > 4 /\ planned # <<>>
      BY <1>1, <1>10 DEF ReadRest, At, LengthInv, LengthAt, PlannedInv
    <2>3. planned[i].source \in Paths
      BY <1>1, <1>4, <2>2 DEF PlannedInv, Entries, Elements
    <2>4. Len(asked) \in Nat
      BY DEF FetchInv, ReadsInv, Requested
    <2>5. Len(asked) > 2 /\ Len(asked) # 3
      <3> DEFINE n == Len(asked)
      <3>1. n \in Nat /\ n > 4
        BY <2>2, <2>4
      <3> HIDE DEF n
      <3>2. n > 2 /\ n # 3
        BY <3>1
      <3>3. QED
        BY <3>2 DEF n
    <2>6. Read(planned[i].source) \in Requests /\ Read(planned[i].source)[1] = "read"
      BY <1>3, <2>3
    <2>7. QED
      BY <2>1, <2>5, <2>6 DEF More
  <1>11. CASE ParseSource
    BY <1>11 DEF ParseSource, At, Go, Keep, End, Refuse, inputs, work
  <1>12. CASE ChoosePlace
    BY <1>12 DEF ChoosePlace, At, Go, Keep, End, Refuse, inputs, work
  <1>13. CASE Plan
    BY <1>13 DEF Plan, At, Go, Keep, End, Refuse, inputs, work
  <1>14. CASE Fetched
    BY <1>14 DEF Fetched, At, Go, Keep, End, Refuse, inputs, work
  <1>15. CASE Commit
    BY <1>15 DEF Commit, At, Go, Keep, End, Refuse, inputs, work
  <1>16. CASE ProviderFails
    BY <1>16 DEF ProviderFails, At, Go, Keep, End, Refuse, inputs, work
  <1>17. CASE UNCHANGED vars
    BY <1>17 DEF vars, At, Go, Keep, End, Refuse, inputs, work
  <1>30. QED
    BY <1>5, <1>6, <1>7, <1>8, <1>9, <1>10, <1>11, <1>12, <1>13, <1>14, <1>15, <1>16, <1>17 DEF Next

LEMMA RequestedGrows ==
  ASSUME NEW a, NEW b, Requested(a), More(a, b)
  PROVE  Requested(b)
  <1>1. PICK r \in Requests : /\ b = Append(a, r)
                              /\ r[1] = "read" <=> Len(a) > 2
                              /\ Len(a) = 3 => r = Read(<<INDEX_NAME>>)
    BY DEF More
  <1>2. Requested(Append(a, r))
    BY <1>1, RequestedMore
  <1>3. QED
    BY <1>1, <1>2

LEMMA RequestedKept ==
  ASSUME FetchInv, [Next]_vars
  PROVE  Requested(asked')
  <1>1. Requested(asked)
    BY DEF FetchInv, ReadsInv
  <1>2. asked' = asked \/ More(asked, asked')
    BY AskedIs
  <1>3. QED
    BY <1>1, <1>2, RequestedGrows

LEMMA AppendDiffers ==
  ASSUME asked \in Seq(Requests), \E r : asked' = Append(asked, r)
  PROVE  asked' # asked
  <1>1. PICK r : asked' = Append(asked, r)
    OBVIOUS
  <1> DEFINE n == Len(asked)
  <1>2. n \in Nat /\ Len(asked') = n + 1
    BY <1>1
  <1> HIDE DEF n
  <1>3. n # n + 1
    BY <1>2
  <1>4. QED
    BY <1>2, <1>3 DEF n

LEMMA AskedGrows ==
  ASSUME FetchInv, [Next]_vars
  PROVE  /\ Len(asked') = Len(asked) + 1 <=> asked' # asked
         /\ Len(asked') = Len(asked) \/ Len(asked') = Len(asked) + 1
  <1>1. asked \in Seq(Requests)
    BY DEF FetchInv, ReadsInv, Requested
  <1> DEFINE n == Len(asked)
  <1>2. n \in Nat
    BY <1>1
  <1>3. CASE More(asked, asked')
    <2>1. PICK r \in Requests : asked' = Append(asked, r)
      BY <1>3 DEF More
    <2>2. Len(asked') = n + 1
      BY <1>1, <2>1, AppendProperties
    <2>3. asked' # asked
      BY <1>1, <2>1, AppendDiffers
    <2>4. QED
      BY <2>2, <2>3
  <1>4. CASE asked' = asked
    <2>1. Len(asked') = n
      BY <1>4
    <2> HIDE DEF n
    <2>2. n # n + 1
      BY <1>2
    <2>3. QED
      BY <1>4, <2>1, <2>2 DEF n
  <1>5. QED
    BY <1>3, <1>4, AskedIs

\* How much has been asked.
LEMMA LengthKept ==
  ASSUME FetchInv, [Next]_vars
  PROVE  LengthInv'
  <1> DEFINE n == Len(asked)
             k == Len(asked')
  <1>1. asked \in Seq(Requests) /\ n \in Nat /\ LengthAt(pc, n)
    BY DEF FetchInv, LengthInv, ReadsInv, Requested
  <1>2. k = n + 1 <=> asked' # asked
    BY AskedGrows
  <1>3. k = n \/ k = n + 1
    BY AskedGrows
  <1>4. LengthInv' <=> LengthAt(pc', k)
    BY DEF LengthInv
  <1> HIDE DEF n, k
  <1>10. CASE ParseSource
    <2>1. pc = "parse" /\ pc' \in {"place", "done"} /\ asked' = asked
      BY <1>10 DEF ParseSource, At, Go, Keep, End, Refuse, inputs, work
    <2>2. k = n
      BY <2>1 DEF k, n
    <2>3. QED
      BY <1>1, <1>4, <2>1, <2>2 DEF LengthAt
  <1>11. CASE ChoosePlace
    <2>1. pc = "place" /\ pc' \in {"provider", "done"} /\ asked' = asked
      BY <1>11 DEF ChoosePlace, At, Go, Keep, End, Refuse, inputs, work
    <2>2. k = n
      BY <2>1 DEF k, n
    <2>3. QED
      BY <1>1, <1>4, <2>1, <2>2 DEF LengthAt
  <1>12. CASE StartProvider
    <2>1. pc = "provider" /\ pc' = "resolve" /\ \E r : asked' = Append(asked, r)
      BY <1>12 DEF StartProvider, Asks, At, Go, Keep, End, Refuse, inputs, work
    <2>2. k = n + 1
      BY <1>2, <2>1, AppendDiffers
    <2>3. QED
      BY <1>1, <1>4, <2>1, <2>2 DEF LengthAt
  <1>13. CASE Resolve
    <2>1. pc = "resolve" /\ pc' = "enumerate" /\ \E r : asked' = Append(asked, r)
      BY <1>13 DEF Resolve, Asks, At, Go, Keep, End, Refuse, inputs, work
    <2>2. k = n + 1
      BY <1>2, <2>1, AppendDiffers
    <2>3. QED
      BY <1>1, <1>4, <2>1, <2>2 DEF LengthAt
  <1>14. CASE Enumerate
    <2>1. pc = "enumerate" /\ pc' = "index" /\ \E r : asked' = Append(asked, r)
      BY <1>14 DEF Enumerate, Asks, At, Go, Keep, End, Refuse, inputs, work
    <2>2. k = n + 1
      BY <1>2, <2>1, AppendDiffers
    <2>3. QED
      BY <1>1, <1>4, <2>1, <2>2 DEF LengthAt
  <1>15. CASE ReadIndex
    <2>1. pc = "index" /\ pc' \in {"plan", "done"} /\ (pc' = "plan" => \E r : asked' = Append(asked, r))
      BY <1>15 DEF ReadIndex, Asks, At, Go, Keep, End, Refuse, inputs, work
    <2>2. pc' = "plan" => k = n + 1
      BY <1>2, <2>1, AppendDiffers
    <2>3. QED
      BY <1>1, <1>4, <2>1, <2>2 DEF LengthAt
  <1>16. CASE Plan
    <2>1. pc = "plan" /\ pc' \in {"manifest", "done"} /\ asked' = asked
      BY <1>16 DEF Plan, At, Go, Keep, End, Refuse, inputs, work
    <2>2. k = n
      BY <2>1 DEF k, n
    <2>3. QED
      BY <1>1, <1>4, <2>1, <2>2 DEF LengthAt
  <1>17. CASE ReadManifest
    <2>1. pc = "manifest" /\ pc' \in {"rest", "done"} /\ \E r : asked' = Append(asked, r)
      BY <1>17 DEF ReadManifest, Asks, At, Go, Keep, End, Refuse, inputs, work
    <2>2. k = n + 1
      BY <1>2, <2>1, AppendDiffers
    <2>3. QED
      BY <1>1, <1>4, <2>1, <2>2 DEF LengthAt
  <1>18. CASE ReadRest
    <2>1. pc = "rest" /\ pc' = "rest" /\ \E r : asked' = Append(asked, r)
      BY <1>18 DEF ReadRest, Asks, At, Go, Keep, End, Refuse, inputs, work
    <2>2. k = n + 1
      BY <1>2, <2>1, AppendDiffers
    <2>3. QED
      BY <1>1, <1>4, <2>1, <2>2 DEF LengthAt
  <1>19. CASE Fetched
    <2>1. pc = "rest" /\ pc' = "commit" /\ asked' = asked
      BY <1>19 DEF Fetched, At, Go, Keep, End, Refuse, inputs, work
    <2>2. k = n
      BY <2>1 DEF k, n
    <2>3. QED
      BY <1>1, <1>4, <2>1, <2>2 DEF LengthAt
  <1>20. CASE Commit
    <2>1. pc' = "done" /\ asked' = asked
      BY <1>20 DEF Commit, At, Go, Keep, End, Refuse, inputs, work
    <2>2. k = n
      BY <2>1 DEF k, n
    <2>3. QED
      BY <1>1, <1>4, <2>1, <2>2 DEF LengthAt
  <1>21. CASE ProviderFails
    <2>1. pc' = "done" /\ asked' = asked
      BY <1>21 DEF ProviderFails, At, Go, Keep, End, Refuse, inputs, work
    <2>2. k = n
      BY <2>1 DEF k, n
    <2>3. QED
      BY <1>1, <1>4, <2>1, <2>2 DEF LengthAt
  <1>22. CASE UNCHANGED vars
    <2>1. pc' = pc /\ asked' = asked
      BY <1>22 DEF vars, work
    <2>2. k = n
      BY <2>1 DEF k, n
    <2>3. QED
      BY <1>1, <1>4, <2>1, <2>2 DEF LengthAt
  <1>30. QED
    BY <1>10, <1>11, <1>12, <1>13, <1>14, <1>15, <1>16, <1>17, <1>18, <1>19, <1>20, <1>21, <1>22 DEF Next

PlannedAt(p, n, step) ==
  /\ p # <<>> => Acceptable(p, Listed)
  /\ step \in {"manifest", "rest", "commit"} \/ n > 4 => p # <<>>
  /\ n > 5 => ManifestCode(snapshot.manifest, Engine) = "accepted"

\* Of the steps only Plan changes the plan, and before it nothing is read.
LEMMA PlannedKept ==
  ASSUME FetchInv, [Next]_vars
  PROVE  PlannedInv'
  <1> DEFINE n == Len(asked)
             k == Len(asked')
  <1>1. n \in Nat /\ LengthAt(pc, n) /\ LengthAt(pc', k)
    <2>1. LengthInv'
      BY LengthKept
    <2>2. QED
      BY <2>1 DEF FetchInv, LengthInv, ReadsInv, Requested
  <1>2. k = n \/ k = n + 1
    BY AskedGrows
  <1>3. PlannedInv' <=> PlannedAt(planned', k, pc')
    BY InputsKept, DerivedKept DEF PlannedInv, PlannedAt, inputs
  <1>4. PlannedAt(planned, n, pc)
    BY DEF FetchInv, PlannedInv, PlannedAt
  <1>5. DecidedInv /\ CaseInv
    BY DEF FetchInv
  <1> HIDE DEF n, k
  <1>10. CASE ParseSource
    <2>1. planned' = planned /\ pc = "parse" /\ pc' \in {"place", "done"}
      BY <1>10 DEF ParseSource, At, Go, Keep, End, Refuse, inputs, work
    <2>2. k <= 4
      BY <1>1, <1>2, <1>4, <2>1 DEF LengthAt, PlannedAt
    <2>3. k \in Nat
      BY <1>1, <1>2
    <2>4. ~(k > 5) /\ ~(k > 4)
      BY <2>2, <2>3
    <2>5. QED
      BY <1>3, <1>4, <2>1, <2>2, <2>4 DEF PlannedAt
  <1>11. CASE ChoosePlace
    <2>1. planned' = planned /\ pc = "place" /\ pc' \in {"provider", "done"}
      BY <1>11 DEF ChoosePlace, At, Go, Keep, End, Refuse, inputs, work
    <2>2. k <= 4
      BY <1>1, <1>2, <1>4, <2>1 DEF LengthAt, PlannedAt
    <2>3. k \in Nat
      BY <1>1, <1>2
    <2>4. ~(k > 5) /\ ~(k > 4)
      BY <2>2, <2>3
    <2>5. QED
      BY <1>3, <1>4, <2>1, <2>2, <2>4 DEF PlannedAt
  <1>12. CASE StartProvider
    <2>1. planned' = planned /\ pc = "provider" /\ pc' = "resolve"
      BY <1>12 DEF StartProvider, At, Go, Keep, End, Refuse, inputs, work
    <2>2. k <= 4
      BY <1>1, <1>2, <1>4, <2>1 DEF LengthAt, PlannedAt
    <2>3. k \in Nat
      BY <1>1, <1>2
    <2>4. ~(k > 5) /\ ~(k > 4)
      BY <2>2, <2>3
    <2>5. QED
      BY <1>3, <1>4, <2>1, <2>2, <2>4 DEF PlannedAt
  <1>13. CASE Resolve
    <2>1. planned' = planned /\ pc = "resolve" /\ pc' = "enumerate"
      BY <1>13 DEF Resolve, At, Go, Keep, End, Refuse, inputs, work
    <2>2. k <= 4
      BY <1>1, <1>2, <1>4, <2>1 DEF LengthAt, PlannedAt
    <2>3. k \in Nat
      BY <1>1, <1>2
    <2>4. ~(k > 5) /\ ~(k > 4)
      BY <2>2, <2>3
    <2>5. QED
      BY <1>3, <1>4, <2>1, <2>2, <2>4 DEF PlannedAt
  <1>14. CASE Enumerate
    <2>1. planned' = planned /\ pc = "enumerate" /\ pc' = "index"
      BY <1>14 DEF Enumerate, At, Go, Keep, End, Refuse, inputs, work
    <2>2. k <= 4
      BY <1>1, <1>2, <1>4, <2>1 DEF LengthAt, PlannedAt
    <2>3. k \in Nat
      BY <1>1, <1>2
    <2>4. ~(k > 5) /\ ~(k > 4)
      BY <2>2, <2>3
    <2>5. QED
      BY <1>3, <1>4, <2>1, <2>2, <2>4 DEF PlannedAt
  <1>15. CASE ReadIndex
    <2>1. planned' = planned /\ pc = "index" /\ pc' \in {"plan", "done"}
      BY <1>15 DEF ReadIndex, At, Go, Keep, End, Refuse, inputs, work
    <2>2. k <= 4
      BY <1>1, <1>2, <1>4, <2>1 DEF LengthAt, PlannedAt
    <2>3. k \in Nat
      BY <1>1, <1>2
    <2>4. ~(k > 5) /\ ~(k > 4)
      BY <2>2, <2>3
    <2>5. QED
      BY <1>3, <1>4, <2>1, <2>2, <2>4 DEF PlannedAt
  <1>16. CASE Plan
    <2>1. pc = "plan" /\ asked' = asked
      BY <1>16 DEF Plan, At, Go, Keep, End, Refuse, inputs, work
    <2>2. k = 4
      <3>1. k = n
        BY <2>1 DEF k, n
      <3>2. QED
        BY <1>1, <2>1, <3>1 DEF LengthAt
    <2>3. ~(k > 4) /\ ~(k > 5)
      BY <2>2
    <2>4. CASE PlanCode(Found) = "accepted"
      <3>1. Lists(snapshot.listing) /\ Maps(snapshot.index.plugins)
        BY <1>5, CaseIs
      <3>2. Prefix(directory) \in Seq(Segments)
        BY <1>5, <2>1, <3>1, DirectoryIs, PrefixIs DEF DecidedInv
      <3>3. Acceptable(Ascending(Found), Listed) /\ Ascending(Found) # <<>>
        BY <2>4, <3>1, <3>2, AcceptedIs DEF Found, Listed
      <3>4. planned' = Ascending(Found)
        BY <1>16, <2>4 DEF Plan, At, Go, Keep, End, Refuse, inputs, work, Found
      <3>5. QED
        BY <1>3, <2>3, <3>3, <3>4 DEF PlannedAt
    <2>5. CASE PlanCode(Found) # "accepted"
      <3>1. planned' = planned /\ pc' = "done"
        BY <1>16, <2>5 DEF Plan, At, Go, Keep, End, Refuse, inputs, work, Found
      <3>2. QED
        BY <1>3, <1>4, <2>3, <3>1 DEF PlannedAt
    <2>6. QED
      BY <2>4, <2>5
  <1>17. CASE ReadManifest
    <2>1. planned' = planned /\ pc = "manifest" /\ pc' \in {"rest", "done"}
      BY <1>17 DEF ReadManifest, At, Go, Keep, End, Refuse, inputs, work
    <2>2. k <= 5 /\ planned # <<>>
      BY <1>1, <1>2, <1>4, <2>1 DEF LengthAt, PlannedAt
    <2>3. k \in Nat
      BY <1>1, <1>2
    <2>4. ~(k > 5)
      BY <2>2, <2>3
    <2>5. QED
      BY <1>3, <1>4, <2>1, <2>2, <2>4 DEF PlannedAt
  <1>18. CASE ReadRest
    <2>1. planned' = planned /\ pc = "rest"
      BY <1>18 DEF ReadRest, At, Go, Keep, End, Refuse, inputs, work
    <2>2. ManifestCode(snapshot.manifest, Engine) = "accepted"
      BY <1>5, <2>1 DEF DecidedInv
    <2>3. planned # <<>>
      BY <1>4, <2>1 DEF PlannedAt
    <2>4. QED
      BY <1>3, <1>4, <2>1, <2>2, <2>3 DEF PlannedAt
  <1>19. CASE Fetched
    <2>1. planned' = planned /\ asked' = asked /\ pc' \in {"commit", "done"}
          /\ (pc' = "commit" => pc = "rest")
      BY <1>19 DEF Fetched, At, Go, Keep, End, Refuse, inputs, work
    <2>2. k = n
      BY <2>1 DEF k, n
    <2>3. QED
      BY <1>3, <1>4, <2>1, <2>2 DEF PlannedAt
  <1>20. CASE Commit
    <2>1. planned' = planned /\ asked' = asked /\ pc' \in {"commit", "done"}
          /\ (pc' = "commit" => pc = "rest")
      BY <1>20 DEF Commit, At, Go, Keep, End, Refuse, inputs, work
    <2>2. k = n
      BY <2>1 DEF k, n
    <2>3. QED
      BY <1>3, <1>4, <2>1, <2>2 DEF PlannedAt
  <1>21. CASE ProviderFails
    <2>1. planned' = planned /\ asked' = asked /\ pc' \in {"commit", "done"}
          /\ (pc' = "commit" => pc = "rest")
      BY <1>21 DEF ProviderFails, At, Go, Keep, End, Refuse, inputs, work
    <2>2. k = n
      BY <2>1 DEF k, n
    <2>3. QED
      BY <1>3, <1>4, <2>1, <2>2 DEF PlannedAt
  <1>22. CASE UNCHANGED vars
    <2>1. pc' = pc /\ asked' = asked /\ planned' = planned
      BY <1>22 DEF vars, work
    <2>2. k = n
      BY <2>1 DEF k, n
    <2>3. QED
      BY <1>3, <1>4, <2>1, <2>2 DEF PlannedAt
  <1>30. QED
    BY <1>10, <1>11, <1>12, <1>13, <1>14, <1>15, <1>16, <1>17, <1>18, <1>19, <1>20, <1>21, <1>22 DEF Next

\* What a plan was made from, the requests and the entries that arrived.
LEMMA ManifestIs ==
  ASSUME FetchInv, planned # <<>>
  PROVE  /\ Acceptable(planned, Listed)
         /\ ManifestEntry \in Entries /\ IsManifest(ManifestEntry)
         /\ Listed \subseteq Paths
         /\ \A e \in Entries : Read(e.source) \in Requests
  <1>1. PlannedInv /\ CaseInv
    BY DEF FetchInv
  <1>2. Acceptable(planned, Listed)
    BY <1>1 DEF PlannedInv
  <1>3. ManifestEntry \in Entries /\ IsManifest(ManifestEntry)
    BY <1>2 DEF Acceptable, ManifestEntry, Entries
  <1>4. Listed \subseteq Paths
    BY <1>1, CaseIs, ListedIs
  <1>5. \A e \in Entries : e.source \in Paths
    BY <1>2, <1>4 DEF Acceptable, Entries
  <1>6. \A e \in Entries : Read(e.source) \in Requests
    BY <1>5 DEF Requests
  <1>7. QED
    BY <1>2, <1>3, <1>4, <1>6

\* What is read, and the entries that have arrived.
LEMMA ReadsKept ==
  ASSUME FetchInv, [Next]_vars
  PROVE  ReadsInv'
  <1> DEFINE n == Len(asked)
             k == Len(asked')
             m == ManifestEntry
  <1>1. n \in Nat /\ LengthAt(pc, n) /\ LengthAt(pc', k)
    <2>1. LengthInv'
      BY LengthKept
    <2>2. QED
      BY <2>1 DEF FetchInv, LengthInv, ReadsInv, Requested
  <1>2. k = n \/ k = n + 1
    BY AskedGrows
  <1>3. Arrived(asked, planned, files, m) /\ Requested(asked)
    BY DEF FetchInv, ReadsInv
  <1>4. planned' = planned => ManifestEntry' = m
    BY DEF ManifestEntry, Entries
  <1>5. Requested(asked')
    BY RequestedKept
  <1>6. Arrived(asked', planned', files', ManifestEntry') => ReadsInv'
    BY <1>5 DEF ReadsInv
  <1>7. PlannedAt(planned, n, pc)
    BY DEF FetchInv, PlannedInv, PlannedAt
  <1> HIDE DEF n, k, m
  <1>10. CASE ParseSource
    <2>1. asked' = asked /\ planned' = planned /\ files' = files
      BY <1>10 DEF ParseSource, At, Go, Keep, End, Refuse, inputs, work
    <2>2. QED
      BY <1>3, <1>4, <1>6, <2>1
  <1>11. CASE ChoosePlace
    <2>1. asked' = asked /\ planned' = planned /\ files' = files
      BY <1>11 DEF ChoosePlace, At, Go, Keep, End, Refuse, inputs, work
    <2>2. QED
      BY <1>3, <1>4, <1>6, <2>1
  <1>12. CASE StartProvider
    <2>1. planned' = planned /\ files' = files /\ pc = "provider"
      BY <1>12 DEF StartProvider, Asks, At, Go, Keep, End, Refuse, inputs, work
    <2>2. n <= 3
      BY <1>1, <2>1 DEF LengthAt
    <2>3. n <= 4 /\ k <= 4 /\ k \in Nat
      BY <1>1, <1>2, <2>2
    <2>4. Arrived(asked', planned, files, m)
      BY <1>1, <1>3, <2>3, ArrivedEarly DEF n, k
    <2>5. QED
      BY <1>4, <1>6, <2>1, <2>4
  <1>13. CASE Resolve
    <2>1. planned' = planned /\ files' = files /\ pc = "resolve"
      BY <1>13 DEF Resolve, Asks, At, Go, Keep, End, Refuse, inputs, work
    <2>2. n <= 3
      BY <1>1, <2>1 DEF LengthAt
    <2>3. n <= 4 /\ k <= 4 /\ k \in Nat
      BY <1>1, <1>2, <2>2
    <2>4. Arrived(asked', planned, files, m)
      BY <1>1, <1>3, <2>3, ArrivedEarly DEF n, k
    <2>5. QED
      BY <1>4, <1>6, <2>1, <2>4
  <1>14. CASE Enumerate
    <2>1. planned' = planned /\ files' = files /\ pc = "enumerate"
      BY <1>14 DEF Enumerate, Asks, At, Go, Keep, End, Refuse, inputs, work
    <2>2. n <= 3
      BY <1>1, <2>1 DEF LengthAt
    <2>3. n <= 4 /\ k <= 4 /\ k \in Nat
      BY <1>1, <1>2, <2>2
    <2>4. Arrived(asked', planned, files, m)
      BY <1>1, <1>3, <2>3, ArrivedEarly DEF n, k
    <2>5. QED
      BY <1>4, <1>6, <2>1, <2>4
  <1>15. CASE ReadIndex
    <2>1. planned' = planned /\ files' = files /\ pc = "index"
      BY <1>15 DEF ReadIndex, Asks, At, Go, Keep, End, Refuse, inputs, work
    <2>2. n <= 3
      BY <1>1, <2>1 DEF LengthAt
    <2>3. n <= 4 /\ k <= 4 /\ k \in Nat
      BY <1>1, <1>2, <2>2
    <2>4. Arrived(asked', planned, files, m)
      BY <1>1, <1>3, <2>3, ArrivedEarly DEF n, k
    <2>5. QED
      BY <1>4, <1>6, <2>1, <2>4
  <1>16. CASE Plan
    <2>1. asked' = asked /\ files' = files /\ pc = "plan"
      BY <1>16 DEF Plan, At, Go, Keep, End, Refuse, inputs, work
    <2>2. n <= 4 /\ ~(n > 4)
      BY <1>1, <2>1 DEF LengthAt
    <2>3. files = {}
      BY <1>3, <2>2 DEF Arrived, n
    <2>4. Arrived(asked, planned', files, ManifestEntry')
      BY <1>1, <1>3, <2>2, <2>3, ArrivedEarly DEF n
    <2>5. QED
      BY <1>6, <2>1, <2>4
  <1>17. CASE ReadManifest
    <2>1. /\ planned' = planned /\ files' = {m} /\ pc = "manifest"
          /\ asked' = Append(asked, Read(m.source))
      BY <1>17 DEF ReadManifest, Asks, At, Go, Keep, End, Refuse, inputs, work, m
    <2>2. n = 4 /\ planned # <<>>
      BY <1>1, <1>7, <2>1 DEF LengthAt, PlannedAt
    <2>3. m \in Elements(planned) /\ Read(m.source) \in Requests
      BY <2>2, ManifestIs DEF m, Entries
    <2>4. asked \in Seq(Requests)
      BY <1>3 DEF Requested
    <2>5. Arrived(Append(asked, Read(m.source)), planned, {m}, m)
      BY <2>2, <2>3, <2>4, ArrivedManifest DEF n
    <2>6. QED
      BY <1>4, <1>6, <2>1, <2>5
  <1>18. CASE ReadRest
    <2>1. PICK i \in DOMAIN planned :
                 /\ planned[i] \notin files
                 /\ \A j \in 1..i-1 : planned[j] \in files
                 /\ asked' = Append(asked, Read(planned[i].source))
                 /\ files' = files \cup {planned[i]}
      BY <1>18 DEF ReadRest, Asks
    <2>2. planned' = planned /\ pc = "rest"
      BY <1>18 DEF ReadRest, At, Go, Keep, End, Refuse, inputs, work
    <2>3. n > 4 /\ planned # <<>>
      BY <1>1, <1>7, <2>2 DEF LengthAt, PlannedAt
    <2>4. Acceptable(planned, Listed) /\ Read(planned[i].source) \in Requests
      BY <2>3, ManifestIs DEF Entries, Elements
    <2>5. asked \in Seq(Requests)
      BY <1>3 DEF Requested
    <2>6. Arrived(Append(asked, Read(planned[i].source)), planned,
                  files \cup {planned[i]}, m)
      BY <1>3, <2>1, <2>3, <2>4, <2>5, ArrivedMore DEF n
    <2>7. QED
      BY <1>4, <1>6, <2>1, <2>2, <2>6
  <1>19. CASE Fetched
    <2>1. asked' = asked /\ planned' = planned /\ files' = files
      BY <1>19 DEF Fetched, At, Go, Keep, End, Refuse, inputs, work
    <2>2. QED
      BY <1>3, <1>4, <1>6, <2>1
  <1>20. CASE Commit
    <2>1. asked' = asked /\ planned' = planned /\ files' = files
      BY <1>20 DEF Commit, At, Go, Keep, End, Refuse, inputs, work
    <2>2. QED
      BY <1>3, <1>4, <1>6, <2>1
  <1>21. CASE ProviderFails
    <2>1. asked' = asked /\ planned' = planned /\ files' = files
      BY <1>21 DEF ProviderFails, At, Go, Keep, End, Refuse, inputs, work
    <2>2. QED
      BY <1>3, <1>4, <1>6, <2>1
  <1>22. CASE UNCHANGED vars
    <2>1. asked' = asked /\ planned' = planned /\ files' = files
      BY <1>22 DEF vars, work
    <2>2. QED
      BY <1>3, <1>4, <1>6, <2>1
  <1>30. QED
    BY <1>10, <1>11, <1>12, <1>13, <1>14, <1>15, <1>16, <1>17, <1>18, <1>19, <1>20, <1>21, <1>22 DEF Next

LEMMA FetchInvKept ==
  ASSUME FetchInv, [Next]_vars
  PROVE  FetchInv'
  BY CaseKept, StepKept, StoreKept, DecidedKept, LengthKept, PlannedKept, ReadsKept
     DEF FetchInv

LEMMA FetchInvInit ==
  ASSUME Init
  PROVE  FetchInv
  <1>1. PICK c \in Cases : /\ source = c.source /\ place = c.place
                          /\ snapshot = c.snapshot /\ store = c.store
    BY DEF Init
  <1>2. pc = "parse" /\ asked = <<>> /\ planned = <<>> /\ files = {}
        /\ scope = NONE /\ outcome = "undecided"
    BY DEF Init
  <1>3. CaseInv
    BY <1>1 DEF CaseInv
  <1>4. StepInv
    BY <1>2 DEF StepInv, Steps, Outcomes, Codes, Successes, Unavailable
  <1>5. StoreInv
    BY <1>1, FetchAssumption DEF StoreInv
  <1>6. DecidedInv
    BY <1>2 DEF DecidedInv
  <1> DEFINE n == Len(asked)
  <1>7. n = 0 /\ asked \in Seq(Requests)
    BY <1>2
  <1>8. n \in Nat /\ n <= 4 /\ ~(n > 3) /\ ~(n > 4) /\ ~(n > 5) /\ 1..n = {} /\ 6..n = {}
    BY <1>7
  <1> HIDE DEF n
  <1>9. LengthInv
    BY <1>2, <1>7 DEF LengthInv, LengthAt, n
  <1>10. PlannedInv
    BY <1>2, <1>8 DEF PlannedInv, n
  <1>11. Requested(asked)
    BY <1>7, <1>8 DEF Requested, n
  <1>12. Arrived(asked, planned, files, ManifestEntry)
    BY <1>2, <1>8 DEF Arrived, n
  <1>13. QED
    BY <1>3, <1>4, <1>5, <1>6, <1>9, <1>10, <1>11, <1>12 DEF FetchInv, ReadsInv

LEMMA FetchInvHolds == Spec => []FetchInv
  <1>1. Init => FetchInv
    BY FetchInvInit
  <1>2. FetchInv /\ [Next]_vars => FetchInv'
    BY FetchInvKept
  <1>3. QED
    BY <1>1, <1>2, PTL DEF Spec

-----------------------------------------------------------------------------
(* What has been read.                                                     *)

LEMMA ReadsAre ==
  ASSUME NEW a, Requested(a),
         NEW R, R = {i \in DOMAIN a : a[i][1] = "read"}
  PROVE  /\ Len(a) \in Nat /\ R = 4..Len(a)
         /\ Cardinality(R) > 1 <=> Len(a) > 4
         /\ Cardinality(R) > 2 <=> Len(a) > 5
         /\ \A i \in R : Cardinality(R \cap 1..i) > 2 <=> i > 5
  <1> DEFINE n == Len(a)
  <1>1. n \in Nat /\ DOMAIN a = 1..n
    BY DEF Requested
  <1>2. \A k \in 1..n : a[k][1] = "read" <=> k > 3
    BY DEF Requested
  <1> HIDE DEF n
  <1>3. R = 4..n
    BY <1>1, <1>2
  <1>4. ASSUME NEW k \in Nat
        PROVE  /\ Cardinality(4..k) > 1 <=> k > 4
               /\ Cardinality(4..k) > 2 <=> k > 5
    <2>1. Cardinality(4..k) = IF 4 > k THEN 0 ELSE k - 4 + 1
      BY FS_Interval
    <2>2. QED
      BY <2>1
  <1>5. ASSUME NEW i \in R
        PROVE  Cardinality(R \cap 1..i) > 2 <=> i > 5
    <2>1. R \cap 1..i = 4..i /\ i \in Nat
      BY <1>1, <1>3
    <2>2. QED
      BY <1>4, <2>1
  <1>6. QED
    BY <1>1, <1>3, <1>4, <1>5 DEF n

\* Each read after that of the index is that of an entry, the first that of
\* the manifest m.
LEMMA EntryRead ==
  ASSUME NEW a, NEW p, NEW f, NEW m, Len(a) \in Nat, Arrived(a, p, f, m),
         NEW k \in 5..Len(a)
  PROVE  \E e \in f : a[k] = Read(e.source) /\ (k = 5 <=> e = m)
  <1> DEFINE n == Len(a)
  <1>1. n \in Nat /\ k \in 5..n
    OBVIOUS
  <1>2. /\ n > 4 => a[5] = Read(m.source) /\ m \in f
        /\ \A l \in 6..n : \E e \in f \ {m} : a[l] = Read(e.source)
    BY DEF Arrived
  <1> HIDE DEF n
  <1>3. CASE k = 5
    BY <1>1, <1>2, <1>3
  <1>4. CASE k # 5
    <2>1. k \in 6..n
      BY <1>1, <1>4
    <2>2. QED
      BY <1>2, <1>4, <2>1
  <1>5. QED
    BY <1>3, <1>4

\* Of two entries read after the manifest the first has the smaller path.
LEMMA LaterRead ==
  ASSUME NEW a, NEW p, NEW f, NEW m, NEW n \in Nat, n = Len(a),
         Arrived(a, p, f, m), NEW i \in 4..n, NEW j \in 4..n, i < j, i > 5
  PROVE  ByteOrder[a[i][2]] < ByteOrder[a[j][2]]
  <1>1. \A k, l \in 6..n : k < l => ByteOrder[a[k][2]] < ByteOrder[a[l][2]]
    BY DEF Arrived
  <1>2. i \in 6..n /\ j \in 6..n
    OBVIOUS
  <1>3. QED
    BY <1>1, <1>2

LEMMA EntriesApart ==
  ASSUME NEW p, NEW listed, Acceptable(p, listed),
         NEW e \in Elements(p), NEW f \in Elements(p), e.source = f.source
  PROVE  e = f
  <1>1. p \in Seq(PlanRow) /\ Distinct(p)
    BY DEF Acceptable
  <1>2. PICK i \in 1..Len(p), j \in 1..Len(p) : e = p[i] /\ f = p[j]
    BY <1>1 DEF Elements
  <1>3. i = j
    BY <1>1, <1>2 DEF Distinct
  <1>4. QED
    BY <1>2, <1>3

\* No entry is asked for twice, and none is the index.
LEMMA ReadOnce ==
  ASSUME NEW a, NEW n \in Nat, n = Len(a), Requested(a), NEW p, NEW listed,
         n > 4 => Acceptable(p, listed),
         NEW f, NEW m, Arrived(a, p, f, m), f \subseteq Elements(p),
         NEW i \in 4..n, NEW j \in 4..n, i < j
  PROVE  a[i] # a[j]
  <1>1. n > 4 /\ n > 3 /\ j \in 5..n
    OBVIOUS
  <1>2. PICK e \in f : a[j] = Read(e.source) /\ (j = 5 <=> e = m)
    BY <1>1, EntryRead
  <1>3. Acceptable(p, listed)
    BY <1>1
  <1>4. CASE i = 4
    <2>1. a[i] = Read(<<INDEX_NAME>>)
      BY <1>1, <1>4 DEF Requested
    <2>2. e.source # <<INDEX_NAME>>
      BY <1>2, <1>3 DEF Acceptable
    <2>3. QED
      BY <1>2, <2>1, <2>2 DEF Read
  <1>5. CASE i = 5
    <2>1. i \in 5..n /\ j # 5
      BY <1>1, <1>5
    <2>2. PICK d \in f : a[i] = Read(d.source) /\ (i = 5 <=> d = m)
      BY <2>1, EntryRead
    <2>3. d # e
      BY <1>2, <1>5, <2>1, <2>2
    <2>4. d.source # e.source
      BY <1>2, <1>3, <2>2, <2>3, EntriesApart
    <2>5. QED
      BY <1>2, <2>2, <2>4 DEF Read
  <1>6. CASE i > 5
    <2>1. ByteOrder[a[i][2]] < ByteOrder[a[j][2]]
      BY <1>6, LaterRead
    <2>2. i \in 5..n
      BY <1>6
    <2>3. PICK d \in f : a[i] = Read(d.source) /\ (i = 5 <=> d = m)
      BY <2>2, EntryRead
    <2>4. a \in Seq(Requests) /\ i \in 1..Len(a)
      BY DEF Requested
    <2>5. a[i] \in Requests
      BY <2>4, ElementOfSeq
    <2>6. a[i][2] \in Paths
      <3>1. a[i][1] = "read"
        BY <2>3 DEF Read
      <3>2. PICK q \in Paths : a[i] = Read(q)
        BY <2>5, <3>1 DEF Requests
      <3>3. QED
        BY <3>2 DEF Read
    <2>7. ByteOrder[a[i][2]] \in Nat
      BY <2>6, PathIs
    <2>8. QED
      BY <2>1, <2>7
  <1>7. i = 4 \/ i = 5 \/ i > 5
    OBVIOUS
  <1>8. QED
    BY <1>4, <1>5, <1>6, <1>7

-----------------------------------------------------------------------------
(* The theorems.                                                           *)

\* Type correctness: the inputs are those of a case, the report comes with the
\* last step, what arrives is planned, and what is planned is listed; the
\* plugins on disk and the record agree after every command.
THEOREM FetchTyped == Spec => []TypeOK
  <1>1. FetchInv => TypeOK
    <2>1. SUFFICES ASSUME FetchInv PROVE TypeOK
      OBVIOUS
    <2>2. ASSUME NEW i \in DOMAIN planned PROVE planned[i].source \in Listed
      <3>1. planned # <<>>
        OBVIOUS
      <3>2. Acceptable(planned, Listed)
        BY <2>1, <3>1, ManifestIs
      <3>3. QED
        BY <3>2 DEF Acceptable, Elements
    <2>3. files \subseteq Entries
      BY <2>1 DEF FetchInv, ReadsInv, Arrived, Entries
    <2>4. QED
      BY <2>1, <2>2, <2>3 DEF FetchInv, CaseInv, StepInv, StoreInv, TypeOK
  <1>2. QED
    BY <1>1, FetchInvHolds, PTL

LEMMA PaidIs ==
  ASSUME FetchInv
  PROVE  PaidOnlyWhenAccepted
  <1> DEFINE n == Len(asked)
  <1>1. Requested(asked) /\ Arrived(asked, planned, files, ManifestEntry)
    BY DEF FetchInv, ReadsInv
  <1>2. /\ n \in Nat /\ ReadAt = 4..n
        /\ Cardinality(ReadAt) > 1 <=> n > 4
        /\ Cardinality(ReadAt) > 2 <=> n > 5
    BY <1>1, ReadsAre DEF ReadAt
  <1>3. files \subseteq Elements(planned)
    BY <1>1 DEF Arrived
  <1>4. n > 4 => Acceptable(planned, Listed)
    BY DEF FetchInv, PlannedInv
  <1>5. n > 5 => ManifestCode(snapshot.manifest, Engine) = "accepted"
    BY DEF FetchInv, PlannedInv
  <1>6. ASSUME NEW i \in ReadAt, NEW j \in ReadAt, i < j
        PROVE  asked[i] # asked[j]
    <2>1. i \in 4..n /\ j \in 4..n
      BY <1>2
    <2>2. QED
      BY <1>1, <1>2, <1>3, <1>4, <1>6, <2>1, ReadOnce
  <1>7. ASSUME NEW i \in ReadAt, asked[i][2] # <<INDEX_NAME>>
        PROVE  \E e \in Entries : asked[i][2] = e.source
    <2>1. CASE i = 4
      <3>1. n > 3
        BY <1>2, <2>1
      <3>2. asked[i] = Read(<<INDEX_NAME>>)
        BY <1>1, <2>1, <3>1 DEF Requested
      <3>3. QED
        BY <1>7, <3>2 DEF Read
    <2>2. CASE i # 4
      <3>1. i \in 5..n
        BY <1>2, <2>2
      <3>2. PICK e \in files : asked[i] = Read(e.source)
        BY <1>1, <1>2, <3>1, EntryRead
      <3>3. QED
        BY <1>3, <3>2 DEF Read, Entries
    <2>3. QED
      BY <2>1, <2>2
  <1>8. Paid \ {<<INDEX_NAME>>} \subseteq {e.source : e \in Entries}
    BY <1>7 DEF Paid
  <1>9. ASSUME NEW i \in ReadAt, NEW j \in ReadAt, asked[i] = asked[j]
        PROVE  i = j
    <2>1. i \in Int /\ j \in Int
      BY <1>2
    <2>2. ~(i < j) /\ ~(j < i)
      BY <1>6, <1>9
    <2>3. QED
      BY <2>1, <2>2
  <1> HIDE DEF n
  <1>10. Cardinality(ReadAt) > 1 => PlanCode(planned) = "accepted"
    BY <1>2, <1>4 DEF Acceptable
  <1>11. QED
    BY <1>2, <1>5, <1>8, <1>9, <1>10 DEF PaidOnlyWhenAccepted

\* "A tree that is not a plugin is refused before its bytes are paid for": for
\* any listing and any answer of the host nothing is asked for twice, no entry
\* is read before the tree is accepted, and none but the manifest before the
\* manifest is.
THEOREM PaidAfterAcceptance == Spec => []PaidOnlyWhenAccepted
  <1>1. FetchInv => PaidOnlyWhenAccepted
    BY PaidIs
  <1>2. QED
    BY <1>1, FetchInvHolds, PTL

LEMMA AscendingIs ==
  ASSUME FetchInv
  PROVE  ReadAscending
  <1> DEFINE n == Len(asked)
  <1>1. Requested(asked) /\ Arrived(asked, planned, files, ManifestEntry)
    BY DEF FetchInv, ReadsInv
  <1>2. /\ n \in Nat /\ ReadAt = 4..n
        /\ \A i \in ReadAt : Cardinality(ReadAt \cap 1..i) > 2 <=> i > 5
    BY <1>1, ReadsAre DEF ReadAt
  <1>3. SUFFICES ASSUME NEW i \in ReadAt, NEW j \in ReadAt,
                        i < j, Cardinality(ReadAt \cap 1..i) > 2
                 PROVE  ByteOrder[asked[i][2]] < ByteOrder[asked[j][2]]
    BY DEF ReadAscending
  <1>4. i \in 4..n /\ j \in 4..n /\ i > 5
    BY <1>2, <1>3
  <1>5. QED
    BY <1>1, <1>2, <1>3, <1>4, LaterRead

\* The order a host enumerates in is forgotten: what is read after the manifest
\* is read by ascending path, for any listing.
THEOREM ReadsAscend == Spec => []ReadAscending
  <1>1. FetchInv => ReadAscending
    BY AscendingIs
  <1>2. QED
    BY <1>1, FetchInvHolds, PTL

-----------------------------------------------------------------------------
(* The contract speaks of the same source, index, paths and manifest.      *)

LEMMA SameFinite == \A S : Contract!IsFiniteSet(S) <=> IsFiniteSet(S)
  BY DEF Contract!IsFiniteSet, IsFiniteSet

LEMMA SameCardinality == \A S : Contract!Cardinality(S) = Cardinality(S)
  BY SameFinite DEF Contract!Cardinality, Cardinality

LEMMA SameTrim == \A path, s : Contract!TrimEnd(path, s) = TrimEnd(path, s)
  BY DEF Contract!TrimEnd, TrimEnd

LEMMA SameInside == \A path : Contract!Inside(path) <=> Inside(path)
  BY DEF Contract!Inside, Inside, Contract!Absolute, Absolute,
         Contract!Escapes, Escapes, Contract!Empty, Empty

LEMMA SameEmpty == \A path : Contract!Empty(path) <=> Empty(path)
  BY DEF Contract!Empty, Empty

LEMMA SameParse == \A s : Contract!SourceParses(s) <=> SourceParses(s)
  BY SameTrim, SameInside, SameEmpty DEF Contract!SourceParses, SourceParses

LEMMA SameIndex == \A i : Contract!IndexReads(i) <=> IndexReads(i)
  BY SameInside, SameEmpty DEF Contract!IndexReads, IndexReads,
         Contract!INDEX_VERSION, INDEX_VERSION

LEMMA SameNormal == \A d : Contract!Normalised(d) = Normalised(d)
  BY SameTrim DEF Contract!Normalised, Normalised

LEMMA SamePrefix == \A d : Contract!Prefix(d) = Prefix(d)
  BY SameTrim DEF Contract!Prefix, Prefix

LEMMA SameFrom == \A d, n : Contract!From(d, n) = From(d, n)
  BY DEF Contract!From, From

LEMMA SameCheck == \A p : Contract!CheckPath(p) <=> CheckPath(p)
  BY DEF Contract!CheckPath, CheckPath

LEMMA SamePathBytes == \A p : Contract!PathBytes(p) = PathBytes(p)
  BY DEF Contract!PathBytes, PathBytes

LEMMA SameVersion == \A t : Contract!VersionParses(t) <=> VersionParses(t)
  BY DEF Contract!VersionParses, VersionParses

LEMMA SameRange == \A r : Contract!RangeParses(r) <=> RangeParses(r)
  BY SameVersion DEF Contract!RangeParses, RangeParses

LEMMA SameBelow == \A v, w : Contract!Below(v, w) <=> Below(v, w)
  BY DEF Contract!Below, Below

LEMMA SameAdmits == \A r, v : Contract!Admits(r, v) <=> Admits(r, v)
  BY SameBelow DEF Contract!Admits, Admits

LEMMA SameSound == \A m : Contract!ManifestSound(m) <=> ManifestSound(m)
  BY SameInside DEF Contract!ManifestSound, ManifestSound, Contract!Required,
         Required, Contract!CommandSound, CommandSound

LEMMA SameCode == \A m, e : Contract!ManifestCode(m, e) = ManifestCode(m, e)
  BY SameSound, SameRange, SameAdmits DEF Contract!ManifestCode,
         ManifestCode, Contract!SUPPORTED_MANIFEST_VERSIONS,
         SUPPORTED_MANIFEST_VERSIONS

-----------------------------------------------------------------------------
(* What is published is what is found.                                     *)

Agree(P, found, root) ==
  /\ \A e \in P : \E d \in Elements(found) :
       d.path = From(e.path, Len(root) + 1) /\ d.bytes = e.bytes
  /\ \A d \in Elements(found) : \E e \in P :
       d.path = From(e.path, Len(root) + 1) /\ d.bytes = e.bytes
  /\ Cardinality(P) = Len(found)
  /\ Cardinality(UNION {{e} \X (1..e.bytes) : e \in P}) = TotalBytes(found)

LEMMA TreeIs ==
  ASSUME NEW listing, Lists(listing), NEW root \in Seq(Segments),
         NEW found, Narrows(found, listing, root),
         NEW P, \A e : e \in P <=> e \in Elements(listing) /\ Belongs(e, root)
  PROVE  Agree(P, found, root)
  <1> DEFINE n == Len(found)
             inner(e) == From(e.path, Len(root) + 1)
             t == [i \in 1..n |-> CHOOSE e \in Elements(listing) :
                                    Belongs(e, root) /\ found[i] = Narrowed(e, root)]
  <1>1. found \in Seq(PlanRow) /\ n \in Nat /\ DOMAIN found = 1..n /\ Distinct(found)
    BY DEF Narrows
  <1>2. ASSUME NEW e, NEW i \in 1..n, found[i] = Narrowed(e, root)
        PROVE  /\ found[i].path = inner(e) /\ found[i].source = e.path
               /\ found[i].bytes = e.bytes
    BY <1>2 DEF Narrowed
  <1>3. ASSUME NEW i \in 1..n
        PROVE  t[i] \in P /\ found[i] = Narrowed(t[i], root)
    <2>1. \E e \in Elements(listing) : Belongs(e, root) /\ found[i] = Narrowed(e, root)
      BY DEF Narrows
    <2>2. t[i] = CHOOSE e \in Elements(listing) :
                   Belongs(e, root) /\ found[i] = Narrowed(e, root)
      OBVIOUS
    <2> HIDE DEF t
    <2>3. QED
      BY <2>1, <2>2
  <1>4. ASSUME NEW e \in P, NEW d \in P, e.path = d.path
        PROVE  e = d
    <2>1. PICK i \in DOMAIN listing, j \in DOMAIN listing : e = listing[i] /\ d = listing[j]
      BY DEF Elements
    <2>2. QED
      BY <1>4, <2>1 DEF Lists
  <1>5. ASSUME NEW e \in P
        PROVE  \E i \in 1..n : t[i] = e /\ found[i] = Narrowed(e, root)
    <2>1. PICK i \in 1..n : found[i] = Narrowed(e, root)
      BY DEF Narrows
    <2>2. t[i] \in P /\ found[i] = Narrowed(t[i], root)
      BY <1>3
    <2>3. e.path = t[i].path
      BY <1>2, <2>1, <2>2
    <2>4. QED
      BY <1>4, <2>1, <2>2, <2>3
  <1>6. ASSUME NEW i \in 1..n, NEW j \in 1..n, t[i] = t[j]
        PROVE  i = j
    <2>1. found[i] = found[j]
      BY <1>3, <1>6
    <2>2. QED
      BY <1>1, <2>1 DEF Distinct
  <1>7. \A e \in P : \E d \in Elements(found) : d.path = inner(e) /\ d.bytes = e.bytes
    BY <1>1, <1>2, <1>5 DEF Elements
  <1>8. \A d \in Elements(found) : \E e \in P : d.path = inner(e) /\ d.bytes = e.bytes
    <2>1. SUFFICES ASSUME NEW d \in Elements(found)
                   PROVE  \E e \in P : d.path = inner(e) /\ d.bytes = e.bytes
      OBVIOUS
    <2>2. PICK i \in 1..n : d = found[i]
      BY <1>1 DEF Elements
    <2>3. t[i] \in P /\ found[i] = Narrowed(t[i], root)
      BY <1>3
    <2>4. d.path = inner(t[i]) /\ d.bytes = t[i].bytes
      BY <1>2, <2>2, <2>3
    <2>5. QED
      BY <2>3, <2>4
  <1>9. DOMAIN t = 1..n /\ t = [i \in 1..n |-> t[i]]
    OBVIOUS
  <1> HIDE DEF t
  <1>10. Cardinality(P) = n
    <2>1. t \in [1..n -> P]
      BY <1>3, <1>9
    <2>2. t \in Injection(1..n, P)
      BY <1>6, <2>1 DEF Injection, IsInjective
    <2>3. t \in Surjection(1..n, P)
      BY <1>5, <2>1 DEF Surjection
    <2>4. ExistsBijection(1..n, P)
      BY <2>2, <2>3 DEF ExistsBijection, Bijection
    <2>5. QED
      BY <1>1, <2>4, FS_CountingElements
  <1>11. UNION {{e} \X (1..e.bytes) : e \in P} = Marks(found, t, n)
    <2>1. \A i \in 1..n : found[i].bytes = t[i].bytes
      BY <1>2, <1>3
    <2>2. Marks(found, t, n) = UNION {{t[i]} \X (1..t[i].bytes) : i \in 1..n}
      BY <2>1 DEF Marks
    <2>3. {{t[i]} \X (1..t[i].bytes) : i \in 1..n} = {{e} \X (1..e.bytes) : e \in P}
      BY <1>3, <1>5
    <2>4. QED
      BY <2>2, <2>3
  <1>12. Cardinality(Marks(found, t, n)) = TotalBytes(found)
    BY <1>1, <1>6, TotalCounts
  <1>13. QED
    BY <1>7, <1>8, <1>10, <1>11, <1>12 DEF Agree

LEMMA ChoosesIs ==
  ASSUME CaseInv, IndexReads(snapshot.index)
  PROVE  Contract!Chooses <=> Resolves(snapshot.index, source.fragment)
  <1> DEFINE D == DOMAIN snapshot.index.plugins
             w == source.fragment
  <1>1. NONE \notin D /\ D # {}
    BY CaseIs DEF Maps, IndexReads
  <1>2. Contract!Chooses <=> Cardinality(IF w = NONE THEN D ELSE D \cap {w}) = 1
    <2>1. Contract!Meant = IF w = NONE THEN D ELSE D \cap {w}
      BY DEF Contract!Meant
    <2>2. QED
      BY <2>1, SameCardinality DEF Contract!Chooses
  <1>3. Resolves(snapshot.index, w) <=>
          (IF w = NONE /\ Cardinality(D) = 1 THEN CHOOSE x \in D : TRUE ELSE w) \in D
    BY DEF Resolves, Chosen
  <1>4. CASE w = NONE
    BY <1>1, <1>2, <1>3, <1>4
  <1>5. CASE w # NONE /\ w \in D
    <2>1. D \cap {w} = {w} /\ Cardinality({w}) = 1
      BY <1>5, FS_Singleton
    <2>2. QED
      BY <1>2, <1>3, <1>5, <2>1
  <1>6. CASE w # NONE /\ w \notin D
    <2>1. D \cap {w} = {} /\ Cardinality({}) = 0
      BY <1>6, FS_EmptySet
    <2>2. QED
      BY <1>2, <1>3, <1>6, <2>1
  <1>7. QED
    BY <1>4, <1>5, <1>6

LEMMA RootIs ==
  ASSUME CaseInv, Resolves(snapshot.index, source.fragment)
  PROVE  Contract!Root = Prefix(ResolveIndex(snapshot.index, source.fragment))
  <1> DEFINE D == DOMAIN snapshot.index.plugins
             w == source.fragment
             M == IF w = NONE THEN D ELSE D \cap {w}
  <1>1. NONE \notin D
    BY CaseIs DEF Maps, Resolves, IndexReads
  <1>2. Contract!Meant = M
    BY DEF Contract!Meant
  <1>3. Chosen(snapshot.index, w) =
          (IF w = NONE /\ Cardinality(D) = 1 THEN CHOOSE x \in D : TRUE ELSE w)
    BY DEF Chosen
  <1>4. Chosen(snapshot.index, w) \in D
    BY DEF Resolves
  <1>5. (CHOOSE x \in M : TRUE) = Chosen(snapshot.index, w)
    <2>1. CASE w = NONE
      BY <1>1, <1>3, <1>4, <2>1
    <2>2. CASE w # NONE
      <3>1. w \in D /\ Chosen(snapshot.index, w) = w
        BY <1>3, <1>4, <2>2
      <3>2. M = {w}
        BY <2>2, <3>1
      <3>3. (CHOOSE x \in {w} : TRUE) = w
        OBVIOUS
      <3>4. QED
        BY <3>1, <3>2, <3>3
    <2>3. QED
      BY <2>1, <2>2
  <1>6. Contract!Root = Prefix(Normalised(snapshot.index.plugins[CHOOSE x \in M : TRUE]))
    BY <1>2, SamePrefix, SameNormal DEF Contract!Root
  <1>7. QED
    BY <1>5, <1>6 DEF ResolveIndex

LEMMA DeclaredIs ==
  Contract!Declared <=> <<INDEX_NAME>> \in Listed /\ IndexReads(snapshot.index)
  BY SameIndex DEF Contract!Declared, Contract!Tree, Listed

\* The rules of the contract are those the plan goes by.
LEMMA PublishedIs ==
  ASSUME CaseInv, Resolves(snapshot.index, source.fragment),
         directory = ResolveIndex(snapshot.index, source.fragment)
  PROVE  /\ {Contract!Inner(e) : e \in Contract!Published}
              = {e.path : e \in Elements(Found)}
         /\ Contract!WellFormed <=>
              SourceParses(source) /\ <<INDEX_NAME>> \in Listed /\ IsPlugin(Found)
         /\ Contract!Small <=> WithinLimits(Found)
  <1> DEFINE listing == snapshot.listing
             root == Prefix(directory)
             P == {e \in Elements(listing) : Belongs(e, root)}
             F == Elements(Found)
  <1>1. Lists(listing) /\ Maps(snapshot.index.plugins)
    BY CaseIs
  <1>2. root \in Seq(Segments)
    BY <1>1, DirectoryIs, PrefixIs
  <1>3. Narrows(Found, listing, root)
    BY <1>1, <1>2, FoundIs DEF Found
  <1>4. Contract!Root = root
    BY RootIs
  <1>5. Contract!Published = P
    BY <1>4 DEF Contract!Published, Contract!Tree, Belongs, Within, Elements
  <1>6. \A e : Contract!Inner(e) = From(e.path, Len(root) + 1)
    BY <1>4, SameFrom DEF Contract!Inner
  <1>7. /\ {From(e.path, Len(root) + 1) : e \in P} = {d.path : d \in F}
        /\ \A e \in P : \E d \in F :
              d.path = From(e.path, Len(root) + 1) /\ d.bytes = e.bytes
        /\ \A d \in F : \E e \in P :
              d.path = From(e.path, Len(root) + 1) /\ d.bytes = e.bytes
        /\ Cardinality(P) = Len(Found)
        /\ Cardinality(UNION {{e} \X (1..e.bytes) : e \in P}) = TotalBytes(Found)
    <2>1. \A e : e \in P <=> e \in Elements(listing) /\ Belongs(e, root)
      OBVIOUS
    <2> HIDE DEF P, root, listing
    <2>2. Agree(P, Found, root)
      BY <1>1, <1>2, <1>3, <2>1, TreeIs
    <2>3. {From(e.path, Len(root) + 1) : e \in P} = {d.path : d \in F}
      BY <2>2 DEF Agree
    <2>4. QED
      BY <2>2, <2>3 DEF Agree
  <1>8. Contract!Bytes = UNION {{e} \X (1..e.bytes) : e \in P}
    BY <1>5 DEF Contract!Bytes, Contract!BytesOf
  <1> HIDE DEF P, F, root, listing
  <1>9. {Contract!Inner(e) : e \in Contract!Published} = {d.path : d \in F}
    BY <1>5, <1>6, <1>7
  <1>10. Contract!Declared /\ Contract!Chooses <=> <<INDEX_NAME>> \in Listed
    BY DeclaredIs, ChoosesIs DEF Resolves
  <1>11. IsPlugin(Found) <=> /\ \A d \in F : CheckPath(d.path)
                             /\ \E d \in F : d.path = <<MANIFEST_NAME>>
    BY DEF IsPlugin, F
  <1>12. (\A e \in Contract!Published : Contract!CheckPath(Contract!Inner(e)))
           <=> \A d \in F : CheckPath(d.path)
    BY <1>5, <1>6, <1>7, SameCheck
  <1>13. <<MANIFEST_NAME>> \in {Contract!Inner(e) : e \in Contract!Published}
           <=> \E d \in F : d.path = <<MANIFEST_NAME>>
    BY <1>9
  <1>14. Contract!WellFormed <=>
           SourceParses(source) /\ <<INDEX_NAME>> \in Listed /\ IsPlugin(Found)
    BY <1>10, <1>11, <1>12, <1>13, SameParse DEF Contract!WellFormed
  <1>15. Contract!Small <=>
           /\ Len(Found) <= MAX_ENTRIES /\ TotalBytes(Found) <= MAX_TOTAL_BYTES
           /\ \A e \in P : /\ e.bytes <= MAX_ENTRY_BYTES
                           /\ Len(From(e.path, Len(root) + 1)) <= MAX_PATH_DEPTH
                           /\ PathBytes(From(e.path, Len(root) + 1)) <= MAX_PATH_BYTES
    <2>1. /\ Cardinality(Contract!Published) = Len(Found)
          /\ Cardinality(Contract!Bytes) = TotalBytes(Found)
      BY <1>5, <1>7, <1>8
    <2>2. Contract!Small <=>
           /\ Len(Found) <= MAX_ENTRIES /\ TotalBytes(Found) <= MAX_TOTAL_BYTES
           /\ \A e \in Contract!Published :
                /\ e.bytes <= MAX_ENTRY_BYTES
                /\ Len(Contract!Inner(e)) <= MAX_PATH_DEPTH
                /\ Contract!PathBytes(Contract!Inner(e)) <= MAX_PATH_BYTES
      BY <2>1, SameCardinality DEF Contract!Small
    <2>3. QED
      BY <1>5, <1>6, <2>2, SamePathBytes
  <1>16. WithinLimits(Found) <=>
           /\ Len(Found) <= MAX_ENTRIES /\ TotalBytes(Found) <= MAX_TOTAL_BYTES
           /\ \A d \in F : /\ d.bytes <= MAX_ENTRY_BYTES
                           /\ Len(d.path) <= MAX_PATH_DEPTH
                           /\ PathBytes(d.path) <= MAX_PATH_BYTES
    BY DEF WithinLimits, F
  <1>17. (\A e \in P : /\ e.bytes <= MAX_ENTRY_BYTES
                       /\ Len(From(e.path, Len(root) + 1)) <= MAX_PATH_DEPTH
                       /\ PathBytes(From(e.path, Len(root) + 1)) <= MAX_PATH_BYTES)
           <=> \A d \in F : /\ d.bytes <= MAX_ENTRY_BYTES
                            /\ Len(d.path) <= MAX_PATH_DEPTH
                            /\ PathBytes(d.path) <= MAX_PATH_BYTES
    BY <1>7
  <1>18. QED
    BY <1>9, <1>14, <1>15, <1>16, <1>17 DEF F

-----------------------------------------------------------------------------
(* The refinement.                                                         *)

\* What has been decided, in the words of the contract.
LEMMA SoundIs ==
  ASSUME FetchInv, pc \in {"plan", "manifest", "rest", "commit"}
  PROVE  /\ Contract!WellFormed <=> IsPlugin(Found)
         /\ Contract!Small <=> WithinLimits(Found)
         /\ Contract!Verdict = ManifestCode(snapshot.manifest, Engine)
         /\ pc # "plan" => Contract!WellFormed /\ Contract!Small
         /\ pc \in {"rest", "commit"} => Contract!Sound
         /\ pc = "commit" => {PathOf(e) : e \in files}
                               = {Contract!Inner(e) : e \in Contract!Published}
  <1>1. CaseInv /\ DecidedInv
    BY DEF FetchInv
  <1>2. /\ SourceParses(source) /\ <<INDEX_NAME>> \in Listed
        /\ Resolves(snapshot.index, source.fragment)
        /\ directory = ResolveIndex(snapshot.index, source.fragment)
        /\ pc # "plan" => PlanCode(Found) = "accepted" /\ Sorts(planned, Found)
        /\ pc \in {"rest", "commit"} => ManifestCode(snapshot.manifest, Engine) = "accepted"
        /\ pc = "commit" => files = Entries
    BY <1>1 DEF DecidedInv
  <1>3. /\ {Contract!Inner(e) : e \in Contract!Published} = {e.path : e \in Elements(Found)}
        /\ Contract!WellFormed <=>
             SourceParses(source) /\ <<INDEX_NAME>> \in Listed /\ IsPlugin(Found)
        /\ Contract!Small <=> WithinLimits(Found)
    BY <1>1, <1>2, PublishedIs
  <1>4. Contract!WellFormed <=> IsPlugin(Found)
    BY <1>2, <1>3
  <1>5. PlanCode(Found) = "accepted" => IsPlugin(Found) /\ WithinLimits(Found)
    BY DEF PlanCode
  <1>6. Contract!Verdict = ManifestCode(snapshot.manifest, Engine)
    BY SameCode DEF Contract!Verdict
  <1>7. pc # "plan" => Contract!WellFormed /\ Contract!Small
    BY <1>2, <1>3, <1>4, <1>5
  <1>8. pc \in {"rest", "commit"} => Contract!Sound
    BY <1>2, <1>6, <1>7 DEF Contract!Sound
  <1>9. pc = "commit" => {PathOf(e) : e \in files} = {e.path : e \in Elements(Found)}
    BY <1>2 DEF Sorts, Entries, PathOf
  <1>10. QED
    BY <1>3, <1>4, <1>6, <1>7, <1>8, <1>9

\* An answer that changes no store.
LEMMA AnswerIs ==
  ASSUME NEW code, outcome = "undecided", outcome' = code, code # "undecided",
         code \notin {"installed", "replaced"}, Contract!Permitted(code),
         UNCHANGED <<inputs, store>>
  PROVE  Contract!Decide
  BY DEF Contract!Decide, inputs

LEMMA UnindexedIs ==
  ASSUME FetchInv,
         <<INDEX_NAME>> \notin Listed \/ ~Resolves(snapshot.index, source.fragment)
  PROVE  ~Contract!WellFormed
  <1>1. CaseInv
    BY DEF FetchInv
  <1>2. CASE <<INDEX_NAME>> \notin Listed
    BY <1>2, DeclaredIs DEF Contract!WellFormed
  <1>3. CASE ~Resolves(snapshot.index, source.fragment)
    BY <1>1, <1>3, DeclaredIs, ChoosesIs DEF Contract!WellFormed
  <1>4. QED
    BY <1>2, <1>3

\* The three refusals of a source that is no plugin, and of what it holds.
LEMMA IllFormedPermitted ==
  ASSUME ~Contract!WellFormed
  PROVE  Contract!Permitted("PLUGIN_SOURCE_INVALID")
  BY DEF Contract!Permitted

LEMMA TooLargePermitted ==
  ASSUME Contract!WellFormed, ~Contract!Small
  PROVE  Contract!Permitted("PLUGIN_LIMIT_EXCEEDED")
  BY DEF Contract!Permitted

LEMMA VerdictPermitted ==
  ASSUME Contract!WellFormed, Contract!Small, NEW code, code = Contract!Verdict,
         code # "accepted",
         code \in {"PLUGIN_SOURCE_INVALID", "PLUGIN_MANIFEST_INVALID",
                   "PLUGIN_MANIFEST_VERSION_UNSUPPORTED", "PLUGIN_INCOMPATIBLE"}
  PROVE  Contract!Permitted(code)
  <1>1. CASE code = "PLUGIN_SOURCE_INVALID"
    BY <1>1 DEF Contract!Permitted, Contract!Sound
  <1>2. CASE code # "PLUGIN_SOURCE_INVALID"
    BY <1>2 DEF Contract!Permitted
  <1>3. QED
    BY <1>1, <1>2

LEMMA VerdictCodes ==
  ASSUME NEW manifest, ManifestCode(manifest, Engine) # "accepted"
  PROVE  ManifestCode(manifest, Engine) \in
           {"PLUGIN_SOURCE_INVALID", "PLUGIN_MANIFEST_INVALID",
            "PLUGIN_MANIFEST_VERSION_UNSUPPORTED", "PLUGIN_INCOMPATIBLE"}
  BY DEF ManifestCode

\* What an add leaves in the scope meant.
LEMMA AddedIs ==
  ASSUME FetchInv, pc = "commit", ~PromoteFails,
         store' = [store EXCEPT ![scope] = Promoted(store[scope])]
  PROVE  Contract!Added
  <1> DEFINE s == store[scope]
             others == DOMAIN s.record \ {Name}
  <1>1. scope = ChooseScope(place) /\ scope \in Scopes /\ DOMAIN store = Scopes
    BY CaseIs, ScopeIs DEF FetchInv, DecidedInv, StoreInv
  <1>2. scope \in Contract!ScopeMeant
    BY <1>1 DEF ChooseScope, Contract!ScopeMeant
  <1>3. Name # "" /\ Name # RECORD_NAME /\ Name = snapshot.manifest.name
    BY DEF PromoteFails, Name
  <1>4. Promoted(s) = [holds |-> "file", record |-> Upserted(s.record),
                       dirs |-> s.dirs \cup {Name}]
    BY <1>3 DEF Promoted
  <1>5. /\ store'[scope] = Promoted(s)
        /\ \A t \in DOMAIN store \ {scope} : store'[t] = store[t]
    BY <1>1
  <1>6. /\ store'[scope].record = Upserted(s.record)
        /\ store'[scope].dirs = s.dirs \cup {Name}
    BY <1>4, <1>5
  <1>7. /\ DOMAIN Upserted(s.record) = others \cup {Name}
        /\ \A n \in others : Upserted(s.record)[n] = s.record[n]
        /\ Upserted(s.record)[Name] = Entry
    BY DEF Upserted
  <1>8. {PathOf(e) : e \in files} = {Contract!Inner(e) : e \in Contract!Published}
    BY SoundIs
  <1>9. /\ Entry.commit = snapshot.commit
        /\ Entry.tree = {Contract!Inner(e) : e \in Contract!Published}
    BY <1>8 DEF Entry
  <1>10. QED
    BY <1>2, <1>3, <1>5, <1>6, <1>7, <1>9 DEF Contract!Added

LEMMA CommitAnswers ==
  ASSUME FetchInv, Commit
  PROVE  Contract!Decide
  <1> DEFINE s == store[scope]
             known == Name \in DOMAIN s.record
             same == known /\ s.record[Name].commit = snapshot.commit
  <1>1. pc = "commit" /\ UNCHANGED inputs /\ outcome = "undecided"
    BY DEF Commit, At, End, FetchInv, StepInv
  <1>2. /\ Contract!Sound
        /\ {PathOf(e) : e \in files} = {Contract!Inner(e) : e \in Contract!Published}
    BY <1>1, SoundIs
  <1>3. HasEntrypoint <=> Contract!Startable
    BY <1>2 DEF HasEntrypoint, Contract!Startable
  <1>4. \/ store' = store /\ outcome' = "PLUGIN_RECORD_INVALID"
        \/ store' = store /\ outcome' \in {"already installed", "PLUGIN_DIGEST_MISMATCH"}
        \/ store' = store /\ outcome' = "PLUGIN_SOURCE_INVALID" /\ ~HasEntrypoint
        \/ PromoteFails /\ outcome' = "PLUGIN_RECORD_INVALID"
        \/ /\ ~PromoteFails /\ HasEntrypoint /\ outcome' \in {"replaced", "installed"}
           /\ store' = [store EXCEPT ![scope] = Promoted(store[scope])]
    <2>1. CASE ~RecordReads(s)
      BY <2>1 DEF Commit, End
    <2>2. CASE RecordReads(s) /\ same
      BY <2>2 DEF Commit, End
    <2>3. CASE RecordReads(s) /\ ~same /\ ~HasEntrypoint
      BY <2>3 DEF Commit, End
    <2>4. CASE RecordReads(s) /\ ~same /\ HasEntrypoint
      <3>1. /\ store' = [store EXCEPT ![scope] = Promoted(store[scope])]
            /\ outcome' = CASE PromoteFails -> "PLUGIN_RECORD_INVALID"
                            [] ~PromoteFails /\ known -> "replaced"
                            [] OTHER -> "installed"
        BY <2>4 DEF Commit, End
      <3> HIDE DEF known
      <3>2. CASE PromoteFails
        BY <3>1, <3>2
      <3>3. CASE ~PromoteFails
        BY <2>4, <3>1, <3>3
      <3>4. QED
        BY <3>2, <3>3
    <2>5. QED
      BY <2>1, <2>2, <2>3, <2>4
  <1> HIDE DEF s, known, same
  <1>5. CASE store' = store /\ outcome' = "PLUGIN_RECORD_INVALID"
    <2>1. Contract!Permitted("PLUGIN_RECORD_INVALID")
      BY <1>2 DEF Contract!Permitted
    <2>2. QED
      BY <1>1, <1>5, <2>1, AnswerIs
  <1>6. CASE store' = store /\ outcome' \in {"already installed", "PLUGIN_DIGEST_MISMATCH"}
    <2>1. /\ Contract!Permitted("already installed")
          /\ Contract!Permitted("PLUGIN_DIGEST_MISMATCH")
      BY <1>2 DEF Contract!Permitted
    <2>2. QED
      BY <1>1, <1>6, <2>1, AnswerIs
  <1>7. CASE store' = store /\ outcome' = "PLUGIN_SOURCE_INVALID" /\ ~HasEntrypoint
    <2>1. Contract!Permitted("PLUGIN_SOURCE_INVALID")
      BY <1>2, <1>3, <1>7 DEF Contract!Permitted, Contract!Sound
    <2>2. QED
      BY <1>1, <1>7, <2>1, AnswerIs
  <1>8. CASE PromoteFails /\ outcome' = "PLUGIN_RECORD_INVALID"
    <2>1. Contract!Permitted("PLUGIN_RECORD_INVALID")
      BY <1>2 DEF Contract!Permitted
    <2>2. QED
      BY <1>1, <1>8, <2>1 DEF Contract!Decide, inputs
  <1>9. CASE /\ ~PromoteFails /\ HasEntrypoint /\ outcome' \in {"replaced", "installed"}
             /\ store' = [store EXCEPT ![scope] = Promoted(store[scope])]
    <2>1. Contract!Permitted("replaced") /\ Contract!Permitted("installed")
      BY <1>2, <1>3, <1>9 DEF Contract!Permitted
    <2>2. Contract!Added
      BY <1>1, <1>9, AddedIs
    <2>3. QED
      BY <1>1, <1>9, <2>1, <2>2 DEF Contract!Decide, inputs
  <1>10. QED
    BY <1>4, <1>5, <1>6, <1>7, <1>8, <1>9

LEMMA StepAnswers ==
  ASSUME FetchInv, [Next]_vars
  PROVE  Contract!Decide \/ UNCHANGED Contract!view
  <1>1. StepInv /\ DecidedInv
    BY DEF FetchInv
  <1>2. ASSUME UNCHANGED <<inputs, outcome, store>>
        PROVE  UNCHANGED Contract!view
    BY <1>2 DEF inputs, Contract!view
  <1>10. CASE ParseSource
    <2>1. CASE SourceParses(source)
      BY <1>2, <1>10, <2>1 DEF ParseSource, Go, Keep
    <2>2. CASE ~SourceParses(source)
      <3>1. pc = "parse" /\ outcome' = "PLUGIN_SOURCE_INVALID" /\ UNCHANGED <<inputs, store>>
        BY <1>10, <2>2 DEF ParseSource, At, Refuse, End
      <3>2. outcome = "undecided"
        BY <1>1, <3>1 DEF StepInv
      <3>3. ~Contract!WellFormed
        BY <2>2, SameParse DEF Contract!WellFormed
      <3>4. QED
        BY <3>1, <3>2, <3>3, IllFormedPermitted, AnswerIs
    <2>3. QED
      BY <2>1, <2>2
  <1>11. CASE ChoosePlace
    <2>1. CASE HasRoot(place, ChooseScope(place))
      BY <1>2, <1>11, <2>1 DEF ChoosePlace, Go, Keep
    <2>2. CASE ~HasRoot(place, ChooseScope(place))
      <3>1. pc = "place" /\ outcome' = "usage" /\ UNCHANGED <<inputs, store>>
        BY <1>11, <2>2 DEF ChoosePlace, At, Refuse, End
      <3>2. outcome = "undecided" /\ SourceParses(source)
        BY <1>1, <3>1 DEF StepInv, DecidedInv
      <3>3. Contract!Permitted("usage")
        BY <3>2, SameParse DEF Contract!Permitted
      <3>4. QED
        BY <3>1, <3>2, <3>3, AnswerIs
    <2>3. QED
      BY <2>1, <2>2
  <1>12. CASE StartProvider
    BY <1>2, <1>12 DEF StartProvider, Keep
  <1>13. CASE Resolve
    BY <1>2, <1>13 DEF Resolve, Keep
  <1>14. CASE Enumerate
    BY <1>2, <1>14 DEF Enumerate, Keep
  <1>15. CASE ReadIndex
    <2>1. \/ UNCHANGED <<inputs, outcome, store>>
          \/ /\ pc = "index" /\ outcome' = "PLUGIN_SOURCE_INVALID" /\ UNCHANGED <<inputs, store>>
             /\ \/ <<INDEX_NAME>> \notin Listed
                \/ ~Resolves(snapshot.index, source.fragment)
      BY <1>15 DEF ReadIndex, At, Refuse, End
    <2>2. pc = "index" => outcome = "undecided"
      BY <1>1 DEF StepInv
    <2>3. QED
      BY <1>2, <2>1, <2>2, UnindexedIs, IllFormedPermitted, AnswerIs
  <1>16. CASE Plan
    <2>1. pc = "plan" /\ outcome = "undecided"
      BY <1>1, <1>16 DEF Plan, At, StepInv
    <2>2. CASE PlanCode(Found) = "accepted"
      BY <1>2, <1>16, <2>2 DEF Plan, Keep, Found
    <2>3. CASE PlanCode(Found) # "accepted"
      <3>1. outcome' = PlanCode(Found) /\ UNCHANGED <<inputs, store>>
        BY <1>16, <2>3 DEF Plan, Refuse, End, Found
      <3>2. /\ Contract!WellFormed <=> IsPlugin(Found)
            /\ Contract!Small <=> WithinLimits(Found)
        BY <2>1, SoundIs
      <3>3. \/ PlanCode(Found) = "PLUGIN_SOURCE_INVALID" /\ ~Contract!WellFormed
            \/ /\ PlanCode(Found) = "PLUGIN_LIMIT_EXCEEDED"
               /\ Contract!WellFormed /\ ~Contract!Small
        BY <2>3, <3>2 DEF PlanCode
      <3>4. QED
        BY <2>1, <3>1, <3>3, IllFormedPermitted, TooLargePermitted, AnswerIs
    <2>4. QED
      BY <2>2, <2>3
  <1>17. CASE ReadManifest
    <2> DEFINE code == ManifestCode(snapshot.manifest, Engine)
    <2>1. pc = "manifest" /\ outcome = "undecided"
      BY <1>1, <1>17 DEF ReadManifest, At, StepInv
    <2>2. CASE code = "accepted"
      BY <1>2, <1>17, <2>2 DEF ReadManifest
    <2>3. CASE code # "accepted"
      <3>1. outcome' = code /\ UNCHANGED <<inputs, store>>
        BY <1>17, <2>3 DEF ReadManifest, End
      <3>2. Contract!WellFormed /\ Contract!Small /\ Contract!Verdict = code
        BY <2>1, SoundIs
      <3>3. code \in {"PLUGIN_SOURCE_INVALID", "PLUGIN_MANIFEST_INVALID",
                      "PLUGIN_MANIFEST_VERSION_UNSUPPORTED", "PLUGIN_INCOMPATIBLE"}
        BY <2>3, VerdictCodes
      <3> HIDE DEF code
      <3>4. Contract!Permitted(code)
        BY <2>3, <3>2, <3>3, VerdictPermitted
      <3>5. QED
        BY <2>1, <3>1, <3>3, <3>4, AnswerIs
    <2>4. QED
      BY <2>2, <2>3
  <1>18. CASE ReadRest
    BY <1>2, <1>18 DEF ReadRest, Keep
  <1>19. CASE Fetched
    BY <1>2, <1>19 DEF Fetched, Keep
  <1>20. CASE Commit
    BY <1>20, CommitAnswers
  <1>21. CASE ProviderFails
    <2>1. /\ pc \in {"provider", "resolve", "enumerate", "manifest", "index", "rest"}
          /\ outcome' = "unavailable" /\ UNCHANGED <<inputs, store>>
      BY <1>21 DEF ProviderFails, At, Refuse, End, Unavailable
    <2>2. outcome = "undecided" /\ SourceParses(source)
      BY <1>1, <2>1 DEF StepInv, DecidedInv
    <2>3. Contract!Permitted("unavailable")
      BY <2>2, SameParse DEF Contract!Permitted
    <2>4. QED
      BY <2>1, <2>2, <2>3, AnswerIs
  <1>22. CASE UNCHANGED vars
    BY <1>2, <1>22 DEF vars
  <1>30. QED
    BY <1>10, <1>11, <1>12, <1>13, <1>14, <1>15, <1>16, <1>17, <1>18, <1>19,
       <1>20, <1>21, <1>22 DEF Next

\* The command implements its contract: however the provider lists, fails and
\* is asked, an add is answered what the source and the snapshot call for, and
\* what it installs is the whole of the published tree, in the scope meant.
THEOREM FetchImplementsContract == Spec => AnsweredAsPublished
  <1>1. Init => Contract!Init
    BY DEF Init, Contract!Init
  <1>2. FetchInv /\ [Next]_vars => [Contract!Decide]_(Contract!view)
    BY StepAnswers
  <1>3. QED
    BY <1>1, <1>2, FetchInvHolds, PTL DEF Spec, AnsweredAsPublished, Contract!Spec


-----------------------------------------------------------------------------
(* What the order of the host decides, and when the record is kept.        *)

LEMMA ElementsFound ==
  ASSUME NEW listing, NEW root, NEW found, Narrows(found, listing, root)
  PROVE  Elements(found) = {Narrowed(e, root) : e \in {d \in Elements(listing) : Belongs(d, root)}}
  <1>1. DOMAIN found = 1..Len(found)
    BY DEF Narrows
  <1>2. QED
    BY <1>1 DEF Narrows, Elements

\* Nothing of a plugin depends on the order in which a host lists its files: two
\* listings of the same entries are refused alike, or installed as the same sequence
\* of files. The digests of an installation are then the same on every machine.
THEOREM OrderOfHostForgotten ==
  ASSUME NEW listed, Lists(listed), NEW relisted, Lists(relisted),
         Elements(listed) = Elements(relisted),
         NEW where, Prefix(where) \in Seq(Segments)
  PROVE  LET found == Planned(WithoutIndex(listed), where)
             again == Planned(WithoutIndex(relisted), where)
         IN  PlanCode(found) = PlanCode(again) /\ Ascending(found) = Ascending(again)
  <1> DEFINE root == Prefix(where)
             found == Planned(WithoutIndex(listed), where)
             again == Planned(WithoutIndex(relisted), where)
             P == {d \in Elements(listed) : Belongs(d, root)}
  <1>1. Narrows(found, listed, root) /\ Narrows(again, relisted, root)
    BY FoundIs
  <1> HIDE DEF found, again
  <1>2. Elements(found) = Elements(again)
    BY <1>1, ElementsFound
  <1>3. /\ \A e : e \in P <=> e \in Elements(listed) /\ Belongs(e, root)
        /\ \A e : e \in P <=> e \in Elements(relisted) /\ Belongs(e, root)
    OBVIOUS
  <1> HIDE DEF P, root
  <1>4. Cardinality(P) = Len(found) /\ Cardinality(P) = Len(again)
    <2>1. root \in Seq(Segments)
      BY DEF root
    <2>2. Agree(P, found, root) /\ Agree(P, again, root)
      BY <1>1, <1>3, <2>1, TreeIs
    <2>3. QED
      BY <2>2 DEF Agree
  <1>5. /\ found \in Seq(PlanRow) /\ Distinct(found)
        /\ again \in Seq(PlanRow) /\ Distinct(again)
    BY <1>1 DEF Narrows
  <1>6. DOMAIN found = DOMAIN again
    <2>1. DOMAIN found = 1..Len(found) /\ DOMAIN again = 1..Len(again)
      BY <1>5
    <2>2. QED
      BY <1>4, <2>1
  <1>7. Ascending(found) = Ascending(again)
    BY <1>2, <1>6 DEF Ascending
  <1>8. TotalBytes(found) = TotalBytes(again)
    BY <1>2, <1>5, TotalOfElements
  <1>9. PlanCode(found) = PlanCode(again)
    BY <1>2, <1>4, <1>8 DEF PlanCode, IsPlugin, WithinLimits
  <1>10. QED
    BY <1>7, <1>9 DEF found, again

\* What `validate_manifest` lets pass and the record cannot hold: a name that is not one
\* of a directory of its own, or permissions that are no object.
Spoils == \/ snapshot.manifest.name \in {"", NotText, RECORD_NAME}
          \/ snapshot.manifest.permissions = NotText

LEMMA RecordKeptBy ==
  ASSUME FetchInv, [Next]_vars, NEW s \in Scopes, RecordReads(store[s]),
         ~(At("commit") /\ s = scope /\ Spoils)
  PROVE  /\ RecordReads(store'[s])
         /\ DOMAIN store[s].record \subseteq DOMAIN store'[s].record
  <1>1. UNCHANGED store \/ (Commit /\ store' = [store EXCEPT ![scope] = Promoted(store[scope])])
    BY CommitsAlone
  <1>2. CASE UNCHANGED store
    BY <1>2 DEF RecordReads
  <1>3. CASE Commit /\ store' = [store EXCEPT ![scope] = Promoted(store[scope])]
    <2>1. DOMAIN store = Scopes
      BY DEF FetchInv, StoreInv
    <2>2. CASE s # scope
      <3>1. store'[s] = store[s]
        BY <1>3, <2>1, <2>2
      <3>2. QED
        BY <3>1 DEF RecordReads
    <2>3. CASE s = scope
      <3>1. store'[s] = Promoted(store[s])
        BY <1>3, <2>1, <2>3
      <3>2. /\ snapshot.manifest.name \notin {"", NotText, RECORD_NAME}
            /\ snapshot.manifest.permissions # NotText
        BY <1>3, <2>3 DEF Commit, Spoils
      <3>3. Promoted(store[s]) = [holds |-> "file", record |-> Upserted(store[s].record),
                                  dirs |-> store[s].dirs \cup {Name}]
        BY <3>2 DEF Promoted, Name
      <3>4. store'[s].holds = "file" /\ store'[s].record = Upserted(store[s].record)
        BY <3>1, <3>3
      <3>5. /\ DOMAIN Upserted(store[s].record) = DOMAIN store[s].record \cup {Name}
            /\ \A n \in DOMAIN store[s].record \cup {Name} :
                   Upserted(store[s].record)[n] = IF n = Name THEN Entry ELSE store[s].record[n]
        BY DEF Upserted
      <3>6. Entry.permissions # NotText
        BY <3>2 DEF Entry
      <3>7. QED
        BY <3>4, <3>5, <3>6 DEF RecordReads
    <2>4. QED
      BY <2>2, <2>3
  <1>4. QED
    BY <1>1, <1>2, <1>3

\* A readable record is lost, or loses what it lists, in one step only, that which
\* promotes a manifest the record cannot hold, and only in the scope it is promoted to.
THEOREM OnlyManifestsSpoil ==
  Spec => [][\A s \in Scopes :
                /\ RecordReads(store[s])
                /\ ~(RecordReads(store'[s]) /\ DOMAIN store[s].record \subseteq DOMAIN store'[s].record)
                => At("commit") /\ s = scope /\ Spoils]_vars
  <1>1. FetchInv /\ [Next]_vars =>
            [\A s \in Scopes :
                /\ RecordReads(store[s])
                /\ ~(RecordReads(store'[s]) /\ DOMAIN store[s].record \subseteq DOMAIN store'[s].record)
                => At("commit") /\ s = scope /\ Spoils]_vars
    BY RecordKeptBy
  <1>2. QED
    BY <1>1, FetchInvHolds, PTL DEF Spec
=============================================================================
