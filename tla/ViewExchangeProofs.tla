------------------------ MODULE ViewExchangeProofs ------------------------
(***************************************************************************)
(* Theorems about ViewExchange, for federations of any size and any size   *)
(* of u32.                                                                 *)
(***************************************************************************)
EXTENDS ViewExchange, Inductions, SequenceTheorems

-----------------------------------------------------------------------------
(* The functions that are defined by recursion.                            *)

Bytes == Nat
Rows(R) == [source : Nat, row : R]
SourceRow == [locator : Texts, status : 0..1, kind : 0..2, alias : Texts \cup {NoText}]

LEMMA TaggedIs ==
  ASSUME NEW R, NEW s \in Nat, NEW listed \in Seq(R)
  PROVE  /\ Tagged(s, listed) \in Seq(Rows(R))
         /\ Len(Tagged(s, listed)) = Len(listed)
         /\ \A i \in 1..Len(listed) : Tagged(s, listed)[i] = [source |-> s, row |-> listed[i]]
  <1>1. \A i \in 1..Len(listed) : [source |-> s, row |-> listed[i]] \in Rows(R)
    BY DEF Rows
  <1>2. QED
    BY <1>1 DEF Tagged

\* The rows of the lists, one list after the other.
LEMMA RowsUptoIs ==
  ASSUME NEW R, NEW of \in Seq(Seq(R))
  PROVE  /\ RowsUpto(of) \in [0..Len(of) -> Seq(Rows(R))]
         /\ RowsUpto(of)[0] = <<>>
         /\ \A i \in 1..Len(of) : RowsUpto(of)[i] = RowsUpto(of)[i - 1] \o Tagged(i, of[i])
  <1> DEFINE n == Len(of)
             F == [x \in (1..n) \X Seq(Rows(R)) |-> x[2] \o Tagged(x[1], of[x[1]])]
             Fill(g) == g = [i \in 0..n |-> IF i = 0 THEN <<>>
                                            ELSE g[i - 1] \o Tagged(i, of[i])]
  <1>1. n \in Nat
    OBVIOUS
  <1>2. <<>> \in Seq(Rows(R))
    OBVIOUS
  <1>3. \A i \in 1..n, s \in Seq(Rows(R)) : s \o Tagged(i, of[i]) \in Seq(Rows(R))
    <2>1. SUFFICES ASSUME NEW i \in 1..n, NEW s \in Seq(Rows(R))
                   PROVE  s \o Tagged(i, of[i]) \in Seq(Rows(R))
      OBVIOUS
    <2>2. of[i] \in Seq(R) /\ i \in Nat
      OBVIOUS
    <2> HIDE DEF n
    <2>3. Tagged(i, of[i]) \in Seq(Rows(R))
      BY <2>2, TaggedIs
    <2>4. QED
      BY <2>3
  <1>4. F \in [(1..n) \X Seq(Rows(R)) -> Seq(Rows(R))]
    BY <1>3
  <1>5. PICK g \in [0..n -> Seq(Rows(R))] : Follows(n, <<>>, F, g)
    <2>1. n \in Nat
      BY <1>1
    <2> HIDE DEF n, F
    <2>2. QED
      BY <1>2, <1>4, <2>1, Recursion
  <1>6. \A i \in 1..n : g[i] = g[i - 1] \o Tagged(i, of[i])
    <2>1. SUFFICES ASSUME NEW i \in 1..n
                   PROVE  g[i] = g[i - 1] \o Tagged(i, of[i])
      OBVIOUS
    <2>2. <<i, g[i - 1]>> \in (1..n) \X Seq(Rows(R))
      <3>1. i - 1 \in 0..n
        BY <1>1
      <3>2. g[i - 1] \in Seq(Rows(R))
        BY <1>5, <3>1
      <3>3. QED
        BY <3>2
    <2>3. F[<<i, g[i - 1]>>] = g[i - 1] \o Tagged(i, of[i])
      BY <2>2
    <2>4. QED
      BY <1>5, <2>3 DEF Follows
  <1>7. Fill(g)
    <2>1. g = [i \in 0..n |-> g[i]]
      BY <1>5
    <2>2. \A i \in 0..n : g[i] = IF i = 0 THEN <<>> ELSE g[i - 1] \o Tagged(i, of[i])
      <3>1. g[0] = <<>> /\ \A i \in 0..n : i = 0 \/ i \in 1..n
        BY <1>1, <1>5 DEF Follows
      <3> HIDE DEF n
      <3>2. QED
        BY <1>1, <1>6, <3>1
    <2>3. QED
      BY <2>1, <2>2
  <1>8. Fill(RowsUpto(of))
    BY <1>7 DEF RowsUpto
  <1>9. /\ \A i \in 0..n : RowsUpto(of)[i] = IF i = 0 THEN <<>>
                                        ELSE RowsUpto(of)[i - 1] \o Tagged(i, of[i])
        /\ RowsUpto(of) = [i \in 0..n |-> RowsUpto(of)[i]]
    BY <1>8
  <1> HIDE DEF F, Fill
  <1>10. /\ RowsUpto(of)[0] = <<>>
         /\ \A i \in 1..n : RowsUpto(of)[i] = RowsUpto(of)[i - 1] \o Tagged(i, of[i])
    <2>1. 0 \in 0..n /\ \A i \in 1..n : i \in 0..n /\ i # 0
      BY <1>1
    <2>2. QED
      BY <1>9, <2>1
  <1>11. \A i \in 0..n : RowsUpto(of)[i] \in Seq(Rows(R))
    <2>1. n \in Nat
      BY <1>1
    <2> HIDE DEF n
    <2>2. QED
      BY <1>2, <1>3, <1>10, <2>1, Stays
  <1>12. QED
    BY <1>9, <1>10, <1>11

\* The bytes of the texts.
LEMMA BytesUptoIs ==
  ASSUME NEW texts \in Seq(Texts)
  PROVE  /\ BytesUpto(texts) \in [0..Len(texts) -> Bytes]
         /\ BytesUpto(texts)[0] = WORD
         /\ \A i \in 1..Len(texts) : BytesUpto(texts)[i] = Sized(BytesUpto(texts)[i - 1], texts[i])
  <1> DEFINE n == Len(texts)
             F == [x \in (1..n) \X Bytes |-> Sized(x[2], texts[x[1]])]
             Fill(g) == g = [i \in 0..n |-> IF i = 0 THEN WORD
                                            ELSE Sized(g[i - 1], texts[i])]
  <1>1. n \in Nat
    OBVIOUS
  <1>2. WORD \in Bytes
    BY DEF WORD, Bytes
  <1>3. \A i \in 1..n, s \in Bytes : Sized(s, texts[i]) \in Bytes
    <2>1. \A i \in 1..n : texts[i] \in Texts
      OBVIOUS
    <2> HIDE DEF n
    <2>2. \A text \in Texts : Size[text] \in Nat
      BY ExchangeAssumption
    <2>3. QED
      BY <2>1, <2>2 DEF Sized, WORD, Bytes
  <1>4. F \in [(1..n) \X Bytes -> Bytes]
    BY <1>3
  <1>5. PICK g \in [0..n -> Bytes] : Follows(n, WORD, F, g)
    <2>1. n \in Nat
      BY <1>1
    <2> HIDE DEF n, F
    <2>2. QED
      BY <1>2, <1>4, <2>1, Recursion
  <1>6. \A i \in 1..n : g[i] = Sized(g[i - 1], texts[i])
    <2>1. SUFFICES ASSUME NEW i \in 1..n
                   PROVE  g[i] = Sized(g[i - 1], texts[i])
      OBVIOUS
    <2>2. <<i, g[i - 1]>> \in (1..n) \X Bytes
      <3>1. i - 1 \in 0..n
        BY <1>1
      <3>2. g[i - 1] \in Bytes
        BY <1>5, <3>1
      <3>3. QED
        BY <3>2
    <2>3. F[<<i, g[i - 1]>>] = Sized(g[i - 1], texts[i])
      BY <2>2
    <2>4. QED
      BY <1>5, <2>3 DEF Follows
  <1>7. Fill(g)
    <2>1. g = [i \in 0..n |-> g[i]]
      BY <1>5
    <2>2. \A i \in 0..n : g[i] = IF i = 0 THEN WORD ELSE Sized(g[i - 1], texts[i])
      <3>1. g[0] = WORD /\ \A i \in 0..n : i = 0 \/ i \in 1..n
        BY <1>1, <1>5 DEF Follows
      <3> HIDE DEF n
      <3>2. QED
        BY <1>1, <1>6, <3>1
    <2>3. QED
      BY <2>1, <2>2
  <1>8. Fill(BytesUpto(texts))
    BY <1>7 DEF BytesUpto
  <1>9. /\ \A i \in 0..n : BytesUpto(texts)[i] = IF i = 0 THEN WORD
                                        ELSE Sized(BytesUpto(texts)[i - 1], texts[i])
        /\ BytesUpto(texts) = [i \in 0..n |-> BytesUpto(texts)[i]]
    BY <1>8
  <1> HIDE DEF F, Fill
  <1>10. /\ BytesUpto(texts)[0] = WORD
         /\ \A i \in 1..n : BytesUpto(texts)[i] = Sized(BytesUpto(texts)[i - 1], texts[i])
    <2>1. 0 \in 0..n /\ \A i \in 1..n : i \in 0..n /\ i # 0
      BY <1>1
    <2>2. QED
      BY <1>9, <2>1
  <1>11. \A i \in 0..n : BytesUpto(texts)[i] \in Bytes
    <2>1. n \in Nat
      BY <1>1
    <2> HIDE DEF n
    <2>2. QED
      BY <1>2, <1>3, <1>10, <2>1, Stays
  <1>12. QED
    BY <1>9, <1>10, <1>11

LEMMA ReportedTyped ==
  ASSUME NEW listed \in Seq(SourceRow), NEW link \in Status
  PROVE  Reported(listed, link) \in Seq(SourceRow)
  <1>1. /\ link.locator \in Texts /\ link.alias \in Texts \cup {NoText}
        /\ KindOf(link.locator) \in 0..2
    BY DEF Status, KindOf
  <1>2. [locator |-> link.locator, status |-> 1, kind |-> KindOf(link.locator),
         alias |-> link.alias] \in SourceRow
    BY <1>1 DEF SourceRow
  <1>3. QED
    BY <1>2 DEF Reported

\* The links that could not be read.
LEMMA UnreadUptoIs ==
  ASSUME NEW links \in Seq(Status)
  PROVE  /\ UnreadUpto(links) \in [0..Len(links) -> Seq(SourceRow)]
         /\ UnreadUpto(links)[0] = <<>>
         /\ \A i \in 1..Len(links) : UnreadUpto(links)[i] = Reported(UnreadUpto(links)[i - 1], links[i])
  <1> DEFINE n == Len(links)
             F == [x \in (1..n) \X Seq(SourceRow) |-> Reported(x[2], links[x[1]])]
             Fill(g) == g = [i \in 0..n |-> IF i = 0 THEN <<>>
                                            ELSE Reported(g[i - 1], links[i])]
  <1>1. n \in Nat
    OBVIOUS
  <1>2. <<>> \in Seq(SourceRow)
    OBVIOUS
  <1>3. \A i \in 1..n, s \in Seq(SourceRow) : Reported(s, links[i]) \in Seq(SourceRow)
    <2>1. \A i \in 1..n : links[i] \in Status
      OBVIOUS
    <2> HIDE DEF n
    <2>2. QED
      BY <2>1, ReportedTyped
  <1>4. F \in [(1..n) \X Seq(SourceRow) -> Seq(SourceRow)]
    BY <1>3
  <1>5. PICK g \in [0..n -> Seq(SourceRow)] : Follows(n, <<>>, F, g)
    <2>1. n \in Nat
      BY <1>1
    <2> HIDE DEF n, F
    <2>2. QED
      BY <1>2, <1>4, <2>1, Recursion
  <1>6. \A i \in 1..n : g[i] = Reported(g[i - 1], links[i])
    <2>1. SUFFICES ASSUME NEW i \in 1..n
                   PROVE  g[i] = Reported(g[i - 1], links[i])
      OBVIOUS
    <2>2. <<i, g[i - 1]>> \in (1..n) \X Seq(SourceRow)
      <3>1. i - 1 \in 0..n
        BY <1>1
      <3>2. g[i - 1] \in Seq(SourceRow)
        BY <1>5, <3>1
      <3>3. QED
        BY <3>2
    <2>3. F[<<i, g[i - 1]>>] = Reported(g[i - 1], links[i])
      BY <2>2
    <2>4. QED
      BY <1>5, <2>3 DEF Follows
  <1>7. Fill(g)
    <2>1. g = [i \in 0..n |-> g[i]]
      BY <1>5
    <2>2. \A i \in 0..n : g[i] = IF i = 0 THEN <<>> ELSE Reported(g[i - 1], links[i])
      <3>1. g[0] = <<>> /\ \A i \in 0..n : i = 0 \/ i \in 1..n
        BY <1>1, <1>5 DEF Follows
      <3> HIDE DEF n
      <3>2. QED
        BY <1>1, <1>6, <3>1
    <2>3. QED
      BY <2>1, <2>2
  <1>8. Fill(UnreadUpto(links))
    BY <1>7 DEF UnreadUpto
  <1>9. /\ \A i \in 0..n : UnreadUpto(links)[i] = IF i = 0 THEN <<>>
                                        ELSE Reported(UnreadUpto(links)[i - 1], links[i])
        /\ UnreadUpto(links) = [i \in 0..n |-> UnreadUpto(links)[i]]
    BY <1>8
  <1> HIDE DEF F, Fill
  <1>10. /\ UnreadUpto(links)[0] = <<>>
         /\ \A i \in 1..n : UnreadUpto(links)[i] = Reported(UnreadUpto(links)[i - 1], links[i])
    <2>1. 0 \in 0..n /\ \A i \in 1..n : i \in 0..n /\ i # 0
      BY <1>1
    <2>2. QED
      BY <1>9, <2>1
  <1>11. \A i \in 0..n : UnreadUpto(links)[i] \in Seq(SourceRow)
    <2>1. n \in Nat
      BY <1>1
    <2> HIDE DEF n
    <2>2. QED
      BY <1>2, <1>3, <1>10, <2>1, Stays
  <1>12. QED
    BY <1>9, <1>10, <1>11

\* The edges that have both ends.
LEMMA WholeUptoIs ==
  ASSUME EdgeRows \in Seq(Rows(Edge))
  PROVE  /\ WholeUpto \in [0..Len(EdgeRows) -> Seq(Rows(Edge))]
         /\ WholeUpto[0] = <<>>
         /\ \A i \in 1..Len(EdgeRows) : WholeUpto[i] = Kept(WholeUpto[i - 1], EdgeRows[i])
  <1> DEFINE n == Len(EdgeRows)
             F == [x \in (1..n) \X Seq(Rows(Edge)) |-> Kept(x[2], EdgeRows[x[1]])]
             Fill(g) == g = [i \in 0..n |-> IF i = 0 THEN <<>>
                                            ELSE Kept(g[i - 1], EdgeRows[i])]
  <1>1. n \in Nat
    OBVIOUS
  <1>2. <<>> \in Seq(Rows(Edge))
    OBVIOUS
  <1>3. \A i \in 1..n, s \in Seq(Rows(Edge)) : Kept(s, EdgeRows[i]) \in Seq(Rows(Edge))
    <2>1. \A i \in 1..n : EdgeRows[i] \in Rows(Edge)
      OBVIOUS
    <2> HIDE DEF n
    <2>2. QED
      BY <2>1 DEF Kept
  <1>4. F \in [(1..n) \X Seq(Rows(Edge)) -> Seq(Rows(Edge))]
    BY <1>3
  <1>5. PICK g \in [0..n -> Seq(Rows(Edge))] : Follows(n, <<>>, F, g)
    <2>1. n \in Nat
      BY <1>1
    <2> HIDE DEF n, F
    <2>2. QED
      BY <1>2, <1>4, <2>1, Recursion
  <1>6. \A i \in 1..n : g[i] = Kept(g[i - 1], EdgeRows[i])
    <2>1. SUFFICES ASSUME NEW i \in 1..n
                   PROVE  g[i] = Kept(g[i - 1], EdgeRows[i])
      OBVIOUS
    <2>2. <<i, g[i - 1]>> \in (1..n) \X Seq(Rows(Edge))
      <3>1. i - 1 \in 0..n
        BY <1>1
      <3>2. g[i - 1] \in Seq(Rows(Edge))
        BY <1>5, <3>1
      <3>3. QED
        BY <3>2
    <2>3. F[<<i, g[i - 1]>>] = Kept(g[i - 1], EdgeRows[i])
      BY <2>2
    <2>4. QED
      BY <1>5, <2>3 DEF Follows
  <1>7. Fill(g)
    <2>1. g = [i \in 0..n |-> g[i]]
      BY <1>5
    <2>2. \A i \in 0..n : g[i] = IF i = 0 THEN <<>> ELSE Kept(g[i - 1], EdgeRows[i])
      <3>1. g[0] = <<>> /\ \A i \in 0..n : i = 0 \/ i \in 1..n
        BY <1>1, <1>5 DEF Follows
      <3> HIDE DEF n
      <3>2. QED
        BY <1>1, <1>6, <3>1
    <2>3. QED
      BY <2>1, <2>2
  <1>8. Fill(WholeUpto)
    BY <1>7 DEF WholeUpto
  <1>9. /\ \A i \in 0..n : WholeUpto[i] = IF i = 0 THEN <<>>
                                        ELSE Kept(WholeUpto[i - 1], EdgeRows[i])
        /\ WholeUpto = [i \in 0..n |-> WholeUpto[i]]
    BY <1>8
  <1> HIDE DEF F, Fill
  <1>10. /\ WholeUpto[0] = <<>>
         /\ \A i \in 1..n : WholeUpto[i] = Kept(WholeUpto[i - 1], EdgeRows[i])
    <2>1. 0 \in 0..n /\ \A i \in 1..n : i \in 0..n /\ i # 0
      BY <1>1
    <2>2. QED
      BY <1>9, <2>1
  <1>11. \A i \in 0..n : WholeUpto[i] \in Seq(Rows(Edge))
    <2>1. n \in Nat
      BY <1>1
    <2> HIDE DEF n
    <2>2. QED
      BY <1>2, <1>3, <1>10, <2>1, Stays
  <1>12. QED
    BY <1>9, <1>10, <1>11

-----------------------------------------------------------------------------
(* The rows of a federation.                                               *)

FromLists(list, of, s) ==
    \A i \in 1..Len(list) :
        /\ list[i].source \in 1..s
        /\ \E k \in 1..Len(of[list[i].source]) : list[i].row = of[list[i].source][k]

AllOf(list, of, s) ==
    \A g \in 1..s : \A k \in 1..Len(of[g]) :
        \E i \in 1..Len(list) : list[i] = [source |-> g, row |-> of[g][k]]

Once(list) ==
    \A i, j \in 1..Len(list) :
        list[i].source = list[j].source /\ list[i].row.id = list[j].row.id => i = j

Joins(joined, list, s, listed) ==
    /\ Len(joined) = Len(list) + Len(listed)
    /\ \A i \in 1..Len(list) : joined[i] = list[i]
    /\ \A k \in 1..Len(listed) : joined[Len(list) + k] = [source |-> s, row |-> listed[k]]
    /\ \A i \in 1..Len(joined) :
           i \in 1..Len(list) \/ \E k \in 1..Len(listed) : i = Len(list) + k

LEMMA JoinedIs ==
  ASSUME NEW R, NEW list \in Seq(Rows(R)), NEW s \in Nat, NEW listed \in Seq(R)
  PROVE  Joins(list \o Tagged(s, listed), list, s, listed)
  <1> DEFINE tail == Tagged(s, listed)
             joined == list \o tail
  <1>1. /\ tail \in Seq(Rows(R)) /\ Len(tail) = Len(listed)
        /\ \A k \in 1..Len(listed) : tail[k] = [source |-> s, row |-> listed[k]]
    BY TaggedIs
  <1>2. Len(list) \in Nat /\ Len(listed) \in Nat
    OBVIOUS
  <1> HIDE DEF tail
  <1>3. /\ Len(joined) = Len(list) + Len(tail)
        /\ \A i \in 1..Len(list) : joined[i] = list[i]
        /\ \A i \in Len(list) + 1 .. Len(list) + Len(tail) : joined[i] = tail[i - Len(list)]
    <2>1. /\ Len(list \o tail) = Len(list) + Len(tail)
          /\ \A i \in 1..Len(list) + Len(tail) :
                 (list \o tail)[i] = IF i <= Len(list) THEN list[i] ELSE tail[i - Len(list)]
      <3>1. Len(list \o tail) = Len(list) + Len(tail)
        BY <1>1, ConcatProperties
      <3>2. SUFFICES ASSUME NEW i \in 1..Len(list) + Len(tail)
                     PROVE  (list \o tail)[i] = IF i <= Len(list) THEN list[i] ELSE tail[i - Len(list)]
        BY <3>1
      <3>3. QED
        BY <1>1, ConcatProperties
    <2> HIDE DEF joined
    <2>2. /\ Len(joined) = Len(list) + Len(tail)
          /\ \A i \in 1..Len(list) + Len(tail) :
                 joined[i] = IF i <= Len(list) THEN list[i] ELSE tail[i - Len(list)]
      BY <2>1 DEF joined
    <2>3. /\ \A i \in 1..Len(list) : i \in 1..Len(list) + Len(tail) /\ i <= Len(list)
          /\ \A i \in Len(list) + 1 .. Len(list) + Len(tail) :
                 i \in 1..Len(list) + Len(tail) /\ ~(i <= Len(list))
      BY <1>1, <1>2
    <2>4. QED
      BY <2>2, <2>3
  <1> HIDE DEF joined
  <1>4. \A k \in 1..Len(listed) :
            joined[Len(list) + k] = [source |-> s, row |-> listed[k]]
    <2>1. SUFFICES ASSUME NEW k \in 1..Len(listed)
                   PROVE  joined[Len(list) + k] = [source |-> s, row |-> listed[k]]
      OBVIOUS
    <2>2. /\ Len(list) + k \in Len(list) + 1 .. Len(list) + Len(tail)
          /\ (Len(list) + k) - Len(list) = k
      BY <1>1, <1>2
    <2>3. QED
      BY <1>1, <1>3, <2>2
  <1>5. \A i \in 1..Len(joined) :
            i \in 1..Len(list) \/ \E k \in 1..Len(listed) : i = Len(list) + k
    <2>1. SUFFICES ASSUME NEW i \in 1..Len(joined), i \notin 1..Len(list)
                   PROVE  \E k \in 1..Len(listed) : i = Len(list) + k
      OBVIOUS
    <2>2. i - Len(list) \in 1..Len(listed) /\ i = Len(list) + (i - Len(list))
      BY <1>1, <1>2, <1>3, <2>1
    <2>3. QED
      BY <2>2
  <1>6. QED
    BY <1>1, <1>3, <1>4, <1>5 DEF Joins, joined, tail

LEMMA JoinedRows ==
  ASSUME NEW R, NEW of \in Seq(Seq(R)), NEW s \in 1..Len(of), NEW list \in Seq(Rows(R)),
         FromLists(list, of, s - 1), AllOf(list, of, s - 1)
  PROVE  FromLists(list \o Tagged(s, of[s]), of, s) /\ AllOf(list \o Tagged(s, of[s]), of, s)
  <1> DEFINE joined == list \o Tagged(s, of[s])
  <1>1. of[s] \in Seq(R) /\ s \in Nat /\ Len(list) \in Nat /\ Len(of[s]) \in Nat
    OBVIOUS
  <1>2. /\ Len(joined) = Len(list) + Len(of[s])
        /\ \A i \in 1..Len(list) : joined[i] = list[i]
        /\ \A k \in 1..Len(of[s]) : joined[Len(list) + k] = [source |-> s, row |-> of[s][k]]
        /\ \A i \in 1..Len(joined) :
               i \in 1..Len(list) \/ \E k \in 1..Len(of[s]) : i = Len(list) + k
    <2>1. Joins(joined, list, s, of[s])
      BY <1>1, JoinedIs
    <2>2. QED
      BY <2>1 DEF Joins
  <1> HIDE DEF joined
  <1>3. ASSUME NEW i \in 1..Len(joined)
        PROVE  /\ joined[i].source \in 1..s
               /\ \E k \in 1..Len(of[joined[i].source]) :
                      joined[i].row = of[joined[i].source][k]
    <2>1. CASE i \in 1..Len(list)
      <3>1. joined[i] = list[i]
        BY <1>2, <2>1
      <3>2. /\ list[i].source \in 1..(s - 1)
            /\ \E k \in 1..Len(of[list[i].source]) : list[i].row = of[list[i].source][k]
        BY <2>1 DEF FromLists
      <3>3. list[i].source \in 1..s
        BY <1>1, <3>2
      <3>4. QED
        BY <3>1, <3>2, <3>3
    <2>2. CASE i \notin 1..Len(list)
      <3>1. PICK k \in 1..Len(of[s]) : i = Len(list) + k
        BY <1>2, <2>2
      <3>2. joined[i] = [source |-> s, row |-> of[s][k]]
        BY <1>2, <3>1
      <3>3. joined[i].source = s /\ joined[i].row = of[s][k] /\ s \in 1..s
        BY <1>1, <3>2
      <3>4. QED
        BY <3>3
    <2>3. QED
      BY <2>1, <2>2
  <1>4. ASSUME NEW g \in 1..s, NEW k \in 1..Len(of[g])
        PROVE  \E i \in 1..Len(joined) : joined[i] = [source |-> g, row |-> of[g][k]]
    <2>1. CASE g = s
      <3>1. Len(list) + k \in 1..Len(joined)
        BY <1>1, <1>2, <2>1
      <3>2. QED
        BY <1>2, <2>1, <3>1
    <2>2. CASE g # s
      <3>1. g \in 1..(s - 1)
        BY <1>1, <2>2
      <3>2. PICK i \in 1..Len(list) : list[i] = [source |-> g, row |-> of[g][k]]
        BY <3>1 DEF AllOf
      <3>3. i \in 1..Len(joined)
        BY <1>1, <1>2
      <3>4. QED
        BY <1>2, <3>2, <3>3
    <2>3. QED
      BY <2>1, <2>2
  <1>5. QED
    BY <1>3, <1>4 DEF FromLists, AllOf, joined

\* The rows are the lists' entries, each with its list, and every entry is a row.
LEMMA RowsAre ==
  ASSUME NEW R, NEW of \in Seq(Seq(R))
  PROVE  /\ RowsOf(of) \in Seq(Rows(R))
         /\ FromLists(RowsOf(of), of, Len(of)) /\ AllOf(RowsOf(of), of, Len(of))
  <1> DEFINE n == Len(of)
             g == RowsUpto(of)
             S == {s \in 0..n : FromLists(g[s], of, s) /\ AllOf(g[s], of, s)}
  <1>1. /\ n \in Nat /\ g \in [0..n -> Seq(Rows(R))] /\ g[0] = <<>>
        /\ \A s \in 1..n : g[s] = g[s - 1] \o Tagged(s, of[s])
    <2>1. n \in Nat
      OBVIOUS
    <2>2. QED
      BY <2>1, RowsUptoIs
  <1>2. 0 \in S
    BY <1>1 DEF FromLists, AllOf
  <1>3. \A s \in 1..n : s - 1 \in S => s \in S
    <2>1. SUFFICES ASSUME NEW s \in 1..n, s - 1 \in S PROVE s \in S
      OBVIOUS
    <2>2. g[s - 1] \in Seq(Rows(R)) /\ s \in 0..n
      <3>1. s - 1 \in 0..n /\ s \in 0..n
        BY <1>1
      <3>2. QED
        BY <1>1, <3>1
    <2>3. FromLists(g[s - 1], of, s - 1) /\ AllOf(g[s - 1], of, s - 1)
      BY <2>1
    <2>4. g[s] = g[s - 1] \o Tagged(s, of[s])
      BY <1>1
    <2> HIDE DEF g
    <2>5. FromLists(g[s], of, s) /\ AllOf(g[s], of, s)
      BY <2>2, <2>3, <2>4, JoinedRows
    <2>6. QED
      BY <2>2, <2>5
  <1>4. 0..n \subseteq S
    <2>1. n \in Nat
      BY <1>1
    <2> HIDE DEF n, S
    <2>2. QED
      BY <1>2, <1>3, <2>1, IntervalInduct
  <1>5. n \in 0..n
    BY <1>1
  <1>6. QED
    BY <1>1, <1>4, <1>5 DEF RowsOf

\* When no list holds an identifier twice, no two rows are of one list and one
\* identifier.
LEMMA RowsOnce ==
  ASSUME NEW R, NEW of \in Seq(Seq(R)),
         \A s \in 1..Len(of) : \A i, j \in 1..Len(of[s]) : of[s][i].id = of[s][j].id => i = j
  PROVE  Once(RowsOf(of))
  <1> DEFINE n == Len(of)
             g == RowsUpto(of)
             S == {s \in 0..n : Once(g[s]) /\ \A i \in 1..Len(g[s]) : g[s][i].source \in 1..s}
  <1>1. /\ n \in Nat /\ g \in [0..n -> Seq(Rows(R))] /\ g[0] = <<>>
        /\ \A s \in 1..n : g[s] = g[s - 1] \o Tagged(s, of[s])
    <2>1. n \in Nat
      OBVIOUS
    <2>2. QED
      BY <2>1, RowsUptoIs
  <1>2. 0 \in S
    BY <1>1 DEF Once
  <1>3. \A s \in 1..n : s - 1 \in S => s \in S
    <2>1. SUFFICES ASSUME NEW s \in 1..n, s - 1 \in S PROVE s \in S
      OBVIOUS
    <2> DEFINE list == g[s - 1]
               joined == g[s]
    <2>2. list \in Seq(Rows(R)) /\ s \in 0..n /\ s \in Nat /\ of[s] \in Seq(R)
      <3>1. s - 1 \in 0..n /\ s \in 0..n /\ s \in Nat /\ of[s] \in Seq(R)
        BY <1>1
      <3> HIDE DEF n
      <3>2. g[s - 1] \in Seq(Rows(R))
        BY <1>1, <3>1
      <3>3. QED
        BY <3>1, <3>2
    <2>3. Once(list) /\ \A i \in 1..Len(list) : list[i].source \in 1..(s - 1)
      BY <2>1
    <2>4. joined = list \o Tagged(s, of[s])
      BY <1>1
    <2>5. \A i, j \in 1..Len(of[s]) : of[s][i].id = of[s][j].id => i = j
      OBVIOUS
    <2> HIDE DEF list, joined
    <2>6. /\ \A i \in 1..Len(list) : joined[i] = list[i]
          /\ \A k \in 1..Len(of[s]) : joined[Len(list) + k] = [source |-> s, row |-> of[s][k]]
          /\ \A i \in 1..Len(joined) :
                 i \in 1..Len(list) \/ \E k \in 1..Len(of[s]) : i = Len(list) + k
      <3>1. Joins(list \o Tagged(s, of[s]), list, s, of[s])
        BY <2>2, JoinedIs
      <3>2. QED
        BY <2>4, <3>1 DEF Joins
    <2>7. \A i \in 1..Len(list) : joined[i].source \in 1..(s - 1)
      BY <2>3, <2>6
    <2>8. \A i \in 1..Len(joined) : i \notin 1..Len(list) =>
              \E k \in 1..Len(of[s]) :
                  i = Len(list) + k /\ joined[i].source = s /\ joined[i].row = of[s][k]
      <3>1. SUFFICES ASSUME NEW i \in 1..Len(joined), i \notin 1..Len(list)
                     PROVE  \E k \in 1..Len(of[s]) :
                                i = Len(list) + k /\ joined[i].source = s /\ joined[i].row = of[s][k]
        OBVIOUS
      <3>2. PICK k \in 1..Len(of[s]) : i = Len(list) + k
        BY <2>6, <3>1
      <3>3. joined[i] = [source |-> s, row |-> of[s][k]]
        BY <2>6, <3>2
      <3>4. QED
        BY <3>2, <3>3
    <2>9. \A i \in 1..Len(joined) : joined[i].source \in 1..s
      <3>1. s \in 1..s /\ 1..(s - 1) \subseteq 1..s
        BY <2>2
      <3>2. QED
        BY <2>7, <2>8, <3>1
    <2>10. Once(joined)
      <3>1. SUFFICES ASSUME NEW i \in 1..Len(joined), NEW j \in 1..Len(joined),
                            joined[i].source = joined[j].source,
                            joined[i].row.id = joined[j].row.id
                     PROVE  i = j
        BY DEF Once
      <3>2. s \notin 1..(s - 1)
        BY <2>2
      <3>3. CASE i \in 1..Len(list) /\ j \in 1..Len(list)
        BY <2>3, <2>6, <3>1, <3>3 DEF Once
      <3>4. CASE i \in 1..Len(list) /\ j \notin 1..Len(list)
        <4>1. joined[i].source \in 1..(s - 1) /\ joined[j].source = s
          BY <2>7, <2>8, <3>4
        <4>2. QED
          BY <3>1, <3>2, <4>1
      <3>5. CASE i \notin 1..Len(list) /\ j \in 1..Len(list)
        BY <2>7, <2>8, <3>1, <3>2, <3>5
      <3>6. CASE i \notin 1..Len(list) /\ j \notin 1..Len(list)
        <4>1. PICK k \in 1..Len(of[s]) : i = Len(list) + k /\ joined[i].row = of[s][k]
          BY <2>8, <3>6
        <4>2. PICK l \in 1..Len(of[s]) : j = Len(list) + l /\ joined[j].row = of[s][l]
          BY <2>8, <3>6
        <4>3. k = l
          BY <2>5, <3>1, <4>1, <4>2
        <4>4. QED
          BY <4>1, <4>2, <4>3
      <3>7. QED
        BY <3>3, <3>4, <3>5, <3>6
    <2>11. QED
      BY <2>2, <2>9, <2>10 DEF joined
  <1>4. 0..n \subseteq S
    <2>1. n \in Nat
      BY <1>1
    <2> HIDE DEF n, S
    <2>2. QED
      BY <1>2, <1>3, <2>1, IntervalInduct
  <1>5. n \in 0..n
    BY <1>1
  <1>6. QED
    BY <1>4, <1>5 DEF RowsOf

LEMMA Written ==
  ASSUME federation \in Federations
  PROVE  /\ U32_MAX \in Nat
         /\ federation.sources \in Seq(Database) /\ federation.statuses \in Seq(Status)
         /\ Len(federation.sources) \in Nat /\ Len(federation.sources) >= 1
         /\ Graphs = 1..Len(federation.sources)
         /\ \A g \in Graphs : Graph(g) \in Database
         /\ \A g \in Graphs : \A i, j \in 1..Len(Graph(g).nodes) :
                Graph(g).nodes[i].id = Graph(g).nodes[j].id => i = j
  <1>1. /\ U32_MAX \in Nat
        /\ federation.sources \in Seq(Database) /\ federation.statuses \in Seq(Status)
        /\ federation.sources # <<>>
    BY ExchangeAssumption DEF U32_MAX
  <1>2. Len(federation.sources) \in Nat /\ Len(federation.sources) >= 1
    BY <1>1, EmptySeq
  <1>3. /\ Graphs = 1..Len(federation.sources) /\ Graphs = DOMAIN federation.sources
        /\ \A g \in Graphs : Graph(g) \in Database
    BY <1>1 DEF Graphs, Graph
  <1>4. ASSUME NEW g \in Graphs
        PROVE  \A i, j \in 1..Len(Graph(g).nodes) :
                   Graph(g).nodes[i].id = Graph(g).nodes[j].id => i = j
    <2>1. Graph(g) = federation.sources[g] /\ g \in DOMAIN federation.sources
      BY <1>3 DEF Graph
    <2>2. \A i, j \in DOMAIN federation.sources[g].nodes :
              federation.sources[g].nodes[i].id = federation.sources[g].nodes[j].id => i = j
      BY <2>1, ExchangeAssumption
    <2>3. Graph(g).nodes \in Seq(Node)
      BY <1>3 DEF Database
    <2>4. DOMAIN Graph(g).nodes = 1..Len(Graph(g).nodes)
      BY <2>3
    <2>5. QED
      BY <2>1, <2>2, <2>4
  <1>5. QED
    BY <1>1, <1>2, <1>3, <1>4

LEMMA ListsAre ==
  ASSUME federation \in Federations
  PROVE  /\ [s \in Graphs |-> Graph(s).nodes] \in Seq(Seq(Node))
         /\ Len([s \in Graphs |-> Graph(s).nodes]) = Len(federation.sources)
         /\ [s \in Graphs |-> Graph(s).edges] \in Seq(Seq(Edge))
         /\ Len([s \in Graphs |-> Graph(s).edges]) = Len(federation.sources)
  <1> DEFINE n == Len(federation.sources)
  <1>1. n \in Nat /\ Graphs = 1..n
    BY Written
  <1>2. \A s \in Graphs : Graph(s).nodes \in Seq(Node) /\ Graph(s).edges \in Seq(Edge)
    BY Written DEF Database
  <1> HIDE DEF n
  <1>3. /\ [s \in 1..n |-> Graph(s).nodes] \in Seq(Seq(Node))
        /\ [s \in 1..n |-> Graph(s).edges] \in Seq(Seq(Edge))
    BY <1>1, <1>2
  <1>4. QED
    BY <1>1, <1>3 DEF n

\* Every row is of a graph, and a node of it; every node of every graph is a row;
\* and a graph and an identifier are of one row.
LEMMA NodeRowsAre ==
  ASSUME federation \in Federations
  PROVE  /\ NodeRows \in Seq(Rows(Node)) /\ Len(NodeRows) \in Nat
         /\ \A i \in 1..Len(NodeRows) :
                /\ NodeRows[i].source \in Graphs /\ NodeRows[i].row \in Node
                /\ \E k \in 1..Len(Graph(NodeRows[i].source).nodes) :
                       NodeRows[i].row = Graph(NodeRows[i].source).nodes[k]
         /\ \A g \in Graphs : \A k \in 1..Len(Graph(g).nodes) :
                \E i \in 1..Len(NodeRows) :
                    NodeRows[i].source = g /\ NodeRows[i].row = Graph(g).nodes[k]
         /\ Once(NodeRows)
  <1> DEFINE of == [s \in Graphs |-> Graph(s).nodes]
  <1>1. /\ of \in Seq(Seq(Node)) /\ Graphs = 1..Len(of)
        /\ \A g \in Graphs : of[g] = Graph(g).nodes
    BY ListsAre, Written
  <1>2. \A s \in 1..Len(of) : \A i, j \in 1..Len(of[s]) : of[s][i].id = of[s][j].id => i = j
    BY <1>1, Written
  <1>3. NodeRows = RowsOf(of)
    BY DEF NodeRows
  <1> HIDE DEF of
  <1>4. /\ NodeRows \in Seq(Rows(Node))
        /\ FromLists(NodeRows, of, Len(of)) /\ AllOf(NodeRows, of, Len(of))
    BY <1>1, <1>3, RowsAre
  <1>5. Once(NodeRows)
    BY <1>1, <1>2, <1>3, RowsOnce
  <1>6. \A i \in 1..Len(NodeRows) : NodeRows[i] \in Rows(Node)
    BY <1>4
  <1>7. ASSUME NEW i \in 1..Len(NodeRows)
        PROVE  /\ NodeRows[i].source \in Graphs /\ NodeRows[i].row \in Node
               /\ \E k \in 1..Len(Graph(NodeRows[i].source).nodes) :
                      NodeRows[i].row = Graph(NodeRows[i].source).nodes[k]
    BY <1>1, <1>4, <1>6 DEF FromLists, Rows
  <1>8. ASSUME NEW g \in Graphs, NEW k \in 1..Len(Graph(g).nodes)
        PROVE  \E i \in 1..Len(NodeRows) :
                   NodeRows[i].source = g /\ NodeRows[i].row = Graph(g).nodes[k]
    <2>1. PICK i \in 1..Len(NodeRows) : NodeRows[i] = [source |-> g, row |-> of[g][k]]
      BY <1>1, <1>4 DEF AllOf
    <2>2. NodeRows[i].source = g /\ NodeRows[i].row = of[g][k]
      BY <2>1
    <2>3. of[g] = Graph(g).nodes
      BY <1>1
    <2>4. QED
      BY <2>2, <2>3
  <1>9. Len(NodeRows) \in Nat
    BY <1>4
  <1>10. QED
    BY <1>4, <1>5, <1>7, <1>8, <1>9

LEMMA EdgeRowsAre ==
  ASSUME federation \in Federations
  PROVE  /\ EdgeRows \in Seq(Rows(Edge)) /\ Len(EdgeRows) \in Nat
         /\ \A i \in 1..Len(EdgeRows) : EdgeRows[i].source \in Graphs /\ EdgeRows[i].row \in Edge
  <1> DEFINE of == [s \in Graphs |-> Graph(s).edges]
  <1>1. of \in Seq(Seq(Edge)) /\ Graphs = 1..Len(of)
    BY ListsAre, Written
  <1>2. EdgeRows = RowsOf(of)
    BY DEF EdgeRows
  <1> HIDE DEF of
  <1>3. EdgeRows \in Seq(Rows(Edge)) /\ FromLists(EdgeRows, of, Len(of))
    BY <1>1, <1>2, RowsAre
  <1>4. \A i \in 1..Len(EdgeRows) : EdgeRows[i] \in Rows(Edge)
    BY <1>3
  <1>5. Len(EdgeRows) \in Nat
    BY <1>3
  <1>6. QED
    BY <1>1, <1>3, <1>4, <1>5 DEF FromLists, Rows

\* A link that could not be read is reported.
LEMMA AllReported ==
  ASSUME NEW links \in Seq(Status)
  PROVE  \A n \in 1..Len(links) : ~links[n].available =>
             \E i \in 1..Len(UnreadUpto(links)[Len(links)]) :
                 /\ UnreadUpto(links)[Len(links)][i].status = 1
                 /\ UnreadUpto(links)[Len(links)][i].locator = links[n].locator
  <1> DEFINE m == Len(links)
             g == UnreadUpto(links)
             Holds(list, n) == \E i \in 1..Len(list) :
                                   list[i].status = 1 /\ list[i].locator = links[n].locator
             S == {s \in 0..m : \A n \in 1..s : ~links[n].available => Holds(g[s], n)}
  <1>1. m \in Nat
    OBVIOUS
  <1>2. /\ g \in [0..m -> Seq(SourceRow)] /\ g[0] = <<>>
        /\ \A s \in 1..m : g[s] = Reported(g[s - 1], links[s])
    BY UnreadUptoIs
  <1>3. 0 \in S
    BY <1>1
  <1>4. \A s \in 1..m : s - 1 \in S => s \in S
    <2>1. SUFFICES ASSUME NEW s \in 1..m, s - 1 \in S PROVE s \in S
      OBVIOUS
    <2> DEFINE list == g[s - 1]
               link == links[s]
               row == [locator |-> link.locator, status |-> 1,
                       kind |-> KindOf(link.locator), alias |-> link.alias]
    <2>2. /\ s \in 0..m /\ s \in Nat /\ list \in Seq(SourceRow) /\ link \in Status
          /\ Len(list) \in Nat
      <3>1. s - 1 \in 0..m /\ s \in 0..m /\ s \in Nat /\ link \in Status
        BY <1>1
      <3> HIDE DEF m
      <3>2. list \in Seq(SourceRow)
        BY <1>2, <3>1
      <3>3. QED
        BY <3>1, <3>2
    <2>3. g[s] = IF link.available THEN list ELSE Append(list, row)
      BY <1>2 DEF Reported
    <2>4. row \in SourceRow
      <3>1. /\ link.locator \in Texts /\ link.alias \in Texts \cup {NoText}
            /\ KindOf(link.locator) \in 0..2
        BY <2>2 DEF Status, KindOf
      <3>2. QED
        BY <3>1 DEF SourceRow
    <2>5. \A n \in 1..(s - 1) : ~links[n].available => Holds(list, n)
      BY <2>1
    <2> HIDE DEF list, row
    <2>6. CASE link.available
      <3>1. \A n \in 1..s : n \in 1..(s - 1) \/ n = s
        BY <2>2
      <3>2. QED
        BY <2>2, <2>3, <2>5, <2>6, <3>1
    <2>7. CASE ~link.available
      <3>1. /\ Len(Append(list, row)) = Len(list) + 1
            /\ \A i \in 1..Len(list) : Append(list, row)[i] = list[i]
            /\ Append(list, row)[Len(list) + 1] = row
        BY <2>2, <2>4, AppendProperties
      <3>2. \A n \in 1..s : n \in 1..(s - 1) \/ n = s
        BY <2>2
      <3>3. ASSUME NEW n \in 1..(s - 1), ~links[n].available
            PROVE  Holds(Append(list, row), n)
        <4>1. PICK i \in 1..Len(list) : list[i].status = 1 /\ list[i].locator = links[n].locator
          BY <2>5, <3>3
        <4>2. i \in 1..Len(Append(list, row)) /\ Append(list, row)[i] = list[i]
          BY <2>2, <3>1
        <4>3. QED
          BY <4>1, <4>2
      <3>4. Holds(Append(list, row), s)
        <4>1. Len(list) + 1 \in 1..Len(Append(list, row))
          BY <2>2, <3>1
        <4>2. row.status = 1 /\ row.locator = links[s].locator
          BY DEF row
        <4>3. QED
          BY <3>1, <4>1, <4>2
      <3> HIDE DEF Holds
      <3>5. QED
        BY <2>2, <2>3, <2>7, <3>2, <3>3, <3>4
    <2>8. QED
      BY <2>6, <2>7
  <1>5. 0..m \subseteq S
    <2> HIDE DEF m, S
    <2>1. QED
      BY <1>1, <1>3, <1>4, IntervalInduct
  <1>6. m \in 0..m
    BY <1>1
  <1>7. QED
    BY <1>5, <1>6

LEMMA FirstIs ==
  ASSUME NEW S, S \subseteq Nat, S # {}
  PROVE  FirstOf(S) \in S
  BY Least DEF FirstOf

LEMMA AliasTyped ==
  ASSUME federation \in Federations, NEW locator
  PROVE  AliasOf(locator) \in Texts \cup {NoText}
  <1> DEFINE links == federation.statuses
             found == {i \in 1..Len(links) : links[i].locator = locator}
  <1>1. links \in Seq(Status)
    BY Written
  <1>2. CASE found = {}
    BY <1>2 DEF AliasOf
  <1>3. CASE found # {}
    <2>1. found \subseteq 1..Len(links) /\ found \subseteq Nat
      BY <1>1
    <2> HIDE DEF found
    <2>2. FirstOf(found) \in 1..Len(links)
      BY <1>3, <2>1, FirstIs
    <2>3. links[FirstOf(found)] \in Status
      BY <1>1, <2>2
    <2>4. AliasOf(locator) = links[FirstOf(found)].alias
      BY <1>3 DEF AliasOf, found
    <2>5. QED
      BY <2>3, <2>4 DEF Status
  <1>4. QED
    BY <1>2, <1>3

\* The rows of what was read come first, in the order of the graphs; every link
\* that was not read has one.
LEMMA SourceRowsAre ==
  ASSUME federation \in Federations
  PROVE  /\ SourceRows \in Seq(SourceRow)
         /\ Len(SourceRows) \in Nat /\ Len(SourceRows) >= Len(federation.sources)
         /\ \A s \in Graphs :
                SourceRows[s].locator = Graph(s).locator /\ SourceRows[s].status = 0
         /\ \A n \in 1..Len(federation.statuses) : ~federation.statuses[n].available =>
                \E i \in 1..Len(SourceRows) :
                    /\ SourceRows[i].status = 1
                    /\ SourceRows[i].locator = federation.statuses[n].locator
  <1> DEFINE n == Len(federation.sources)
             links == federation.statuses
             ReadRow(s) == [locator |-> Graph(s).locator, status |-> 0,
                        kind |-> IF s = 1 THEN 0 ELSE KindOf(Graph(s).locator),
                        alias |-> IF s = 1 THEN NoText ELSE AliasOf(Graph(s).locator)]
  <1>1. n \in Nat /\ Graphs = 1..n /\ links \in Seq(Status)
    BY Written
  <1>2. \A s \in Graphs : ReadRow(s) \in SourceRow
    <2>1. SUFFICES ASSUME NEW s \in Graphs PROVE ReadRow(s) \in SourceRow
      OBVIOUS
    <2>2. Graph(s).locator \in Texts
      BY Written DEF Database
    <2>3. (IF s = 1 THEN 0 ELSE KindOf(Graph(s).locator)) \in 0..2
      BY DEF KindOf
    <2>4. (IF s = 1 THEN NoText ELSE AliasOf(Graph(s).locator)) \in Texts \cup {NoText}
      BY AliasTyped
    <2>5. QED
      BY <2>2, <2>3, <2>4 DEF SourceRow
  <1>3. ReadSources = [s \in 1..n |-> ReadRow(s)]
    BY <1>1 DEF ReadSources
  <1> HIDE DEF n, ReadRow
  <1>4. /\ ReadSources \in Seq(SourceRow) /\ Len(ReadSources) = n
        /\ \A s \in 1..n : ReadSources[s] = ReadRow(s)
    BY <1>1, <1>2, <1>3
  <1>5. UnreadSources \in Seq(SourceRow)
    <2>1. UnreadUpto(links) \in [0..Len(links) -> Seq(SourceRow)]
      BY <1>1, UnreadUptoIs
    <2>2. Len(links) \in 0..Len(links)
      BY <1>1
    <2>3. QED
      BY <2>1, <2>2 DEF UnreadSources
  <1>6. /\ SourceRows \in Seq(SourceRow) /\ Len(SourceRows) = n + Len(UnreadSources)
        /\ Len(UnreadSources) \in Nat
    <2>1. /\ ReadSources \o UnreadSources \in Seq(SourceRow)
          /\ Len(ReadSources \o UnreadSources) = Len(ReadSources) + Len(UnreadSources)
      BY <1>4, <1>5, ConcatProperties
    <2>2. Len(UnreadSources) \in Nat
      BY <1>5
    <2>3. QED
      BY <1>4, <2>1, <2>2 DEF SourceRows
  <1>7. \A i \in 1..Len(SourceRows) :
            SourceRows[i] = IF i <= n THEN ReadSources[i] ELSE UnreadSources[i - n]
    <2>1. SUFFICES ASSUME NEW i \in 1..Len(ReadSources) + Len(UnreadSources)
                   PROVE  (ReadSources \o UnreadSources)[i]
                              = IF i <= Len(ReadSources) THEN ReadSources[i]
                                ELSE UnreadSources[i - Len(ReadSources)]
      BY <1>4, <1>6 DEF SourceRows
    <2>2. QED
      BY <1>4, <1>5, ConcatProperties
  <1>8. ASSUME NEW s \in Graphs
        PROVE  SourceRows[s].locator = Graph(s).locator /\ SourceRows[s].status = 0
    <2>1. s \in 1..Len(SourceRows) /\ s <= n
      BY <1>1, <1>6
    <2>2. SourceRows[s] = ReadRow(s)
      BY <1>1, <1>4, <1>7, <2>1
    <2>3. QED
      BY <2>2 DEF ReadRow
  <1>9. ASSUME NEW k \in 1..Len(links), ~links[k].available
        PROVE  \E i \in 1..Len(SourceRows) :
                   SourceRows[i].status = 1 /\ SourceRows[i].locator = links[k].locator
    <2>1. PICK j \in 1..Len(UnreadSources) :
              UnreadSources[j].status = 1 /\ UnreadSources[j].locator = links[k].locator
      BY <1>1, <1>9, AllReported DEF UnreadSources
    <2>2. n + j \in 1..Len(SourceRows) /\ ~(n + j <= n) /\ (n + j) - n = j
      BY <1>1, <1>6
    <2>3. SourceRows[n + j] = UnreadSources[j]
      BY <1>7, <2>2
    <2>4. QED
      BY <2>1, <2>2, <2>3
  <1>10. Len(SourceRows) \in Nat /\ Len(SourceRows) >= n
    BY <1>1, <1>6
  <1>11. QED
    BY <1>6, <1>8, <1>9, <1>10 DEF n

LEMMA PlaceIs ==
  ASSUME NEW node \in Node, WithPath(node) # {}
  PROVE  PlaceOf(node).path \in Texts /\ PlaceOf(node).line \in Nat
  <1>1. node.places \in Seq(Place)
    BY DEF Node
  <1>2. WithPath(node) \subseteq 1..Len(node.places) /\ WithPath(node) \subseteq Nat
    BY <1>1 DEF WithPath
  <1>3. FirstOf(WithPath(node)) \in WithPath(node)
    BY <1>2, FirstIs
  <1>4. /\ FirstOf(WithPath(node)) \in 1..Len(node.places)
        /\ node.places[FirstOf(WithPath(node))].path # NoText
    BY <1>3 DEF WithPath
  <1>5. node.places[FirstOf(WithPath(node))] \in Place
    BY <1>1, <1>4
  <1>6. QED
    BY <1>4, <1>5 DEF PlaceOf, Place

-----------------------------------------------------------------------------
(* The inductive invariant, a part for each thing that is written.         *)

\* The index n is that of the text, as far as the size lets an index be told.
At(limit, texts, n, text) ==
    \E i \in 1..Len(texts) : texts[i] = text /\ n = IF i - 1 > limit THEN limit ELSE i - 1

Begun ==
    /\ federation \in Federations
    /\ stage \in Stages /\ at \in Nat
    /\ strings \in Seq(Texts) /\ Len(strings) >= 1

Later == {"edges", "sources", "evidence", "layout", "done"}

NodesInv ==
    /\ nodes \in Seq([id : U32, label : U32, source : U32])
    /\ Len(nodes) \in U32 /\ Len(nodes) <= Len(NodeRows)
    /\ stage = "nodes" => at = Len(nodes)
    /\ stage \in Later => Len(nodes) = Len(NodeRows)
    /\ \A i \in 1..Len(nodes) :
           /\ At(U32_MAX, strings, nodes[i].id, NodeRows[i].row.id)
           /\ At(U32_MAX, strings, nodes[i].label, NodeRows[i].row.label)
           /\ nodes[i].source = NodeRows[i].source - 1

\* A node's position is where its row is, and the hash map's first one is that of
\* a node with the identifier.
KeyOf(r) == <<r.source, r.row.id>>

PositionInv ==
    /\ DOMAIN position = {KeyOf(NodeRows[i]) : i \in 1..Len(nodes)}
    /\ \A i \in 1..Len(nodes) : position[KeyOf(NodeRows[i])] = i - 1

FirstInv ==
    /\ stage = "nodes" => DOMAIN first = {}
    /\ \A id \in DOMAIN first :
           \E i \in 1..Len(nodes) : NodeRows[i].row.id = id /\ first[id] = i - 1
    /\ stage \in Later => \A i \in 1..Len(nodes) : NodeRows[i].row.id \in DOMAIN first

\* The index n is that of a node the reference is to, among the first of a list.
Reaches(list, count, n, ref, s) ==
    \E i \in 1..count :
        n = i - 1 /\ list[i].row.id = ref.id /\ (ref.local => list[i].source = s)

EdgeIs(list, count, limit, texts, edge, e) ==
    /\ Reaches(list, count, edge.from, e.row.from, e.source)
    /\ Reaches(list, count, edge.to, e.row.to, e.source)
    /\ At(limit, texts, edge.relation, e.row.relation)

Matches(whole) ==
    /\ Len(edges) = Len(whole)
    /\ \A i \in 1..Len(edges) :
           EdgeIs(NodeRows, Len(nodes), U32_MAX, strings, edges[i], whole[i])

EdgesInv ==
    /\ edges \in Seq([from : U32, to : U32, relation : U32]) /\ Len(edges) \in U32
    /\ stage = "nodes" => edges = <<>>
    /\ stage = "edges" => at \in 0..Len(EdgeRows) /\ Matches(WholeUpto[at])
    /\ stage \in Later \ {"edges"} => Matches(Whole)

SourceIs(limit, texts, written, s) ==
    /\ At(limit, texts, written.locator, s.locator)
    /\ IF s.alias = NoText THEN written.alias = 0 ELSE At(limit, texts, written.alias, s.alias)
    /\ written.status = s.status

SourcesInv ==
    /\ sources \in Seq([locator : U32, alias : U32, kind : 0..2, status : 0..1])
    /\ Len(sources) <= Len(SourceRows)
    /\ stage \in {"nodes", "edges"} => sources = <<>>
    /\ stage = "sources" => at = Len(sources)
    /\ stage \in {"evidence", "layout", "done"} => Len(sources) = Len(SourceRows)
    /\ \A i \in 1..Len(sources) : SourceIs(U32_MAX, strings, sources[i], SourceRows[i])

\* Evidence is listed for the nodes that have been looked at, and for those with a
\* path only.
Listed(written, n) == \E i \in 1..Len(written) : written[i].node = n - 1

EvidenceIs(list, limit, texts, r) ==
    /\ r.node + 1 \in 1..Len(list)
    /\ WithPath(list[r.node + 1].row) # {}
    /\ At(limit, texts, r.path, PlaceOf(list[r.node + 1].row).path)
    /\ r.line = PlaceOf(list[r.node + 1].row).line

EvidenceInv ==
    /\ evidence \in Seq([node : U32, path : U32, line : Nat])
    /\ stage \in {"nodes", "edges", "sources"} => evidence = <<>>
    /\ \A i \in 1..Len(evidence) : EvidenceIs(NodeRows, U32_MAX, strings, evidence[i])
    /\ \A i \in 2..Len(evidence) : evidence[i - 1].node < evidence[i].node
    /\ stage = "evidence" =>
           /\ at <= Len(NodeRows)
           /\ \A i \in 1..Len(evidence) : evidence[i].node < at
           /\ \A n \in 1..at : WithPath(NodeRows[n].row) # {} => Listed(evidence, n)
    /\ stage \in {"layout", "done"} =>
           \A n \in 1..Len(NodeRows) : WithPath(NodeRows[n].row) # {} => Listed(evidence, n)

TableInv ==
    /\ stage # "done" => table = <<>>
    /\ stage = "done" => table = Layout.table /\ ~Layout.refused

RowsInv == Begun /\ NodesInv /\ PositionInv /\ FirstInv /\ EdgesInv /\ SourcesInv /\ EvidenceInv

-----------------------------------------------------------------------------
(* The string table only grows.                                            *)

Extends(a, b) == Len(a) <= Len(b) /\ \A i \in 1..Len(a) : b[i] = a[i]

LEMMA Interns ==
  ASSUME NEW texts \in Seq(Texts), NEW text \in Texts
  PROVE  /\ Intern(texts, text) \in Seq(Texts)
         /\ Extends(texts, Intern(texts, text))
         /\ Interned(Intern(texts, text), text)
  <1>1. Len(texts) \in Nat
    OBVIOUS
  <1>2. CASE Interned(texts, text)
    BY <1>1, <1>2 DEF Intern, Extends
  <1>3. CASE ~Interned(texts, text)
    <2> DEFINE longer == Append(texts, text)
    <2>1. /\ longer \in Seq(Texts) /\ Len(longer) = Len(texts) + 1
          /\ \A i \in 1..Len(texts) : longer[i] = texts[i]
          /\ longer[Len(texts) + 1] = text
      BY AppendProperties
    <2>2. Intern(texts, text) = longer
      BY <1>3 DEF Intern
    <2> HIDE DEF longer
    <2>3. Len(texts) + 1 \in 1..Len(longer) /\ Len(texts) <= Len(longer)
      BY <1>1, <2>1
    <2>4. QED
      BY <2>1, <2>2, <2>3 DEF Extends, Interned
  <1>4. QED
    BY <1>2, <1>3

LEMMA ExtendsFurther ==
  ASSUME NEW a \in Seq(Texts), NEW b \in Seq(Texts), NEW c \in Seq(Texts),
         Extends(a, b), Extends(b, c)
  PROVE  Extends(a, c)
  <1>1. Len(a) \in Nat /\ Len(b) \in Nat /\ Len(c) \in Nat
    OBVIOUS
  <1>2. 1..Len(a) \subseteq 1..Len(b) /\ Len(a) <= Len(c)
    BY <1>1 DEF Extends
  <1>3. QED
    BY <1>2 DEF Extends

LEMMA StaysInterned ==
  ASSUME NEW a \in Seq(Texts), NEW b \in Seq(Texts), Extends(a, b), NEW text, Interned(a, text)
  PROVE  Interned(b, text)
  <1>1. PICK i \in 1..Len(a) : a[i] = text
    BY DEF Interned
  <1>2. Len(a) \in Nat /\ Len(b) \in Nat
    OBVIOUS
  <1>3. i \in 1..Len(b) /\ b[i] = text
    BY <1>1, <1>2 DEF Extends
  <1>4. QED
    BY <1>3 DEF Interned

LEMMA StaysAt ==
  ASSUME NEW a \in Seq(Texts), NEW b \in Seq(Texts), Extends(a, b),
         NEW limit, NEW n, NEW text, At(limit, a, n, text)
  PROVE  At(limit, b, n, text)
  <1>1. PICK i \in 1..Len(a) : a[i] = text /\ n = IF i - 1 > limit THEN limit ELSE i - 1
    BY DEF At
  <1>2. Len(a) \in Nat /\ Len(b) \in Nat
    OBVIOUS
  <1>3. i \in 1..Len(b) /\ b[i] = text
    BY <1>1, <1>2 DEF Extends
  <1>4. QED
    BY <1>1, <1>3 DEF At

LEMMA AtIsNumber ==
  ASSUME NEW limit \in Nat, NEW texts \in Seq(Texts), NEW n, NEW text,
         At(limit, texts, n, text)
  PROVE  n \in 0..limit
  <1>1. PICK i \in 1..Len(texts) : n = IF i - 1 > limit THEN limit ELSE i - 1
    BY DEF At
  <1>2. i \in Nat /\ i >= 1
    OBVIOUS
  <1>3. QED
    BY <1>1, <1>2

\* When no index needs to be clipped, the index is where the text is.
LEMMA AtReads ==
  ASSUME NEW limit \in Nat, NEW texts \in Seq(Texts), Len(texts) <= limit,
         NEW n, NEW text, At(limit, texts, n, text)
  PROVE  n \in 0..(Len(texts) - 1) /\ texts[n + 1] = text
  <1>1. PICK i \in 1..Len(texts) :
            texts[i] = text /\ n = IF i - 1 > limit THEN limit ELSE i - 1
    BY DEF At
  <1>2. Len(texts) \in Nat /\ i \in Nat /\ i >= 1 /\ i <= Len(texts)
    OBVIOUS
  <1>3. n = i - 1 /\ n + 1 = i
    BY <1>1, <1>2
  <1>4. QED
    BY <1>1, <1>2, <1>3

LEMMA IndexIsAt ==
  ASSUME federation \in Federations, NEW texts \in Seq(Texts), NEW text, Interned(texts, text)
  PROVE  At(U32_MAX, texts, Index(texts, text), text)
  <1> DEFINE i == CHOOSE i \in 1..Len(texts) : texts[i] = text
  <1>1. i \in 1..Len(texts) /\ texts[i] = text
    BY DEF Interned
  <1>2. Index(texts, text) = IF i - 1 > U32_MAX THEN U32_MAX ELSE i - 1
    BY DEF Index, Clipped
  <1> HIDE DEF i
  <1>3. QED
    BY <1>1, <1>2 DEF At

-----------------------------------------------------------------------------
(* What every step leaves alone, and which steps write which rows.         *)

LEMMA Same ==
  ASSUME [Next]_vars
  PROVE  /\ federation' = federation
         /\ U32_MAX' = U32_MAX /\ U32' = U32 /\ Graphs' = Graphs
         /\ NodeRows' = NodeRows /\ EdgeRows' = EdgeRows /\ SourceRows' = SourceRows
         /\ WholeUpto' = WholeUpto /\ Whole' = Whole
  <1>1. federation' = federation
    BY DEF Next, vars, PlaceNode, TooManyNodes, NodesPlaced, WriteEdge, TooManyEdges, DropEdge,
           EdgesWritten, WriteSource, SourcesWritten, WriteEvidence, EvidenceWritten, Assemble,
           DoesNotFit, Refuse, Step, Finished
  <1>2. U32_MAX' = U32_MAX /\ U32' = U32 /\ Graphs' = Graphs
    BY <1>1 DEF U32, U32_MAX, Graphs
  <1>3. NodeRows' = NodeRows
    BY <1>1 DEF NodeRows, Graphs, Graph
  <1>4. EdgeRows' = EdgeRows
    BY <1>1 DEF EdgeRows, Graphs, Graph
  <1>5. SourceRows' = SourceRows
    BY <1>1 DEF SourceRows, ReadSources, UnreadSources, UnreadUpto, Reported, KindOf, AliasOf,
                FirstOf, Graphs, Graph
  <1>6. WholeUpto' = WholeUpto
    BY <1>1, <1>4 DEF WholeUpto, Kept, Leads, NodesOf, Graphs, Graph
  <1>7. Whole' = Whole
    BY <1>4, <1>6 DEF Whole
  <1>8. QED
    BY <1>1, <1>2, <1>3, <1>4, <1>5, <1>6, <1>7

LEMMA WhoWrites ==
  ASSUME [Next]_vars
  PROVE  /\ PlaceNode \/ (nodes' = nodes /\ position' = position)
         /\ NodesPlaced \/ first' = first
         /\ WriteEdge \/ edges' = edges
         /\ WriteSource \/ sources' = sources
         /\ WriteEvidence \/ evidence' = evidence
         /\ Assemble \/ table' = table
         /\ \/ PlaceNode \/ WriteEdge \/ WriteSource \/ WriteEvidence
            \/ strings' = strings
  <1>1. CASE Next
    BY <1>1
       DEF Next, rows, PlaceNode, TooManyNodes, NodesPlaced, WriteEdge, TooManyEdges, DropEdge,
           EdgesWritten, WriteSource, SourcesWritten, WriteEvidence, EvidenceWritten, Assemble,
           DoesNotFit, Refuse, Step, Finished
  <1>2. CASE UNCHANGED vars
    BY <1>2 DEF vars, rows
  <1>3. QED
    BY <1>1, <1>2

-----------------------------------------------------------------------------
(* What is interned and written by each kind of row.                       *)

\* Two texts are interned, the one after the other.
LEMMA InternsTwo ==
  ASSUME federation \in Federations, NEW texts \in Seq(Texts), NEW a \in Texts, NEW b \in Texts,
         NEW new, new = Intern(Intern(texts, a), b)
  PROVE  /\ new \in Seq(Texts) /\ Extends(texts, new)
         /\ At(U32_MAX, new, Index(new, a), a) /\ At(U32_MAX, new, Index(new, b), b)
         /\ Index(new, a) \in U32 /\ Index(new, b) \in U32
  <1>1. PICK mid : mid = Intern(texts, a)
    OBVIOUS
  <1>2. mid \in Seq(Texts) /\ Extends(texts, mid) /\ Interned(mid, a)
    BY <1>1, Interns
  <1>3. new = Intern(mid, b)
    BY <1>1
  <1>4. new \in Seq(Texts) /\ Extends(mid, new) /\ Interned(new, b)
    BY <1>2, <1>3, Interns
  <1>5. Extends(texts, new) /\ Interned(new, a)
    BY <1>2, <1>4, ExtendsFurther, StaysInterned
  <1>6. At(U32_MAX, new, Index(new, a), a) /\ At(U32_MAX, new, Index(new, b), b)
    BY <1>4, <1>5, IndexIsAt
  <1>7. U32_MAX \in Nat
    BY Written
  <1>8. Index(new, a) \in U32 /\ Index(new, b) \in U32
    BY <1>4, <1>6, <1>7, AtIsNumber DEF U32
  <1>9. QED
    BY <1>4, <1>5, <1>6, <1>8

LEMMA InternsOne ==
  ASSUME federation \in Federations, NEW texts \in Seq(Texts), NEW a \in Texts,
         NEW new, new = Intern(texts, a)
  PROVE  /\ new \in Seq(Texts) /\ Extends(texts, new)
         /\ At(U32_MAX, new, Index(new, a), a) /\ Index(new, a) \in U32
  <1>1. new \in Seq(Texts) /\ Extends(texts, new) /\ Interned(new, a)
    BY Interns
  <1>2. At(U32_MAX, new, Index(new, a), a)
    BY <1>1, IndexIsAt
  <1>3. U32_MAX \in Nat
    BY Written
  <1>4. Index(new, a) \in U32
    BY <1>1, <1>2, <1>3, AtIsNumber DEF U32
  <1>5. QED
    BY <1>1, <1>2, <1>4

LEMMA RowIs ==
  ASSUME Begun, at < Len(NodeRows)
  PROVE  /\ at + 1 \in 1..Len(NodeRows)
         /\ Source = NodeRows[at + 1].source /\ Row = NodeRows[at + 1].row
         /\ Source \in Graphs /\ Row \in Node /\ Row.id \in Texts /\ Row.label \in Texts
  <1>1. at + 1 \in 1..Len(NodeRows)
    BY NodeRowsAre DEF Begun
  <1>2. Source = NodeRows[at + 1].source /\ Row = NodeRows[at + 1].row
    BY DEF Source, Row
  <1>3. Source \in Graphs /\ Row \in Node
    BY <1>1, <1>2, NodeRowsAre DEF Begun
  <1>4. Row.id \in Texts /\ Row.label \in Texts
    BY <1>3 DEF Node
  <1>5. QED
    BY <1>1, <1>2, <1>3, <1>4

LEMMA PlacesNode ==
  ASSUME Begun, PlaceNode
  PROVE  \E new \in Seq(Texts), n \in [id : U32, label : U32, source : U32] :
             /\ strings' = new /\ Extends(strings, new)
             /\ nodes' = Append(nodes, n)
             /\ At(U32_MAX, new, n.id, Row.id) /\ At(U32_MAX, new, n.label, Row.label)
             /\ n.source = Source - 1
  <1>1. /\ at < Len(NodeRows) /\ Source - 1 <= U32_MAX
        /\ strings' = Intern(Intern(strings, Row.id), Row.label)
        /\ nodes' = Append(nodes, [id |-> Index(strings', Row.id),
                                   label |-> Index(strings', Row.label), source |-> Source - 1])
    BY DEF PlaceNode, Doing, Fits
  <1>2. /\ U32_MAX \in Nat /\ Source \in Nat /\ Source >= 1
        /\ Row.id \in Texts /\ Row.label \in Texts
        /\ federation \in Federations /\ strings \in Seq(Texts)
    BY <1>1, RowIs, Written DEF Begun
  <1>3. Source - 1 \in U32
    BY <1>1, <1>2 DEF U32
  <1>4. PICK old, a, b, new : old = strings /\ a = Row.id /\ b = Row.label /\ new = strings'
    OBVIOUS
  <1>5. /\ new \in Seq(Texts) /\ Extends(old, new)
        /\ At(U32_MAX, new, Index(new, a), a) /\ At(U32_MAX, new, Index(new, b), b)
        /\ Index(new, a) \in U32 /\ Index(new, b) \in U32
    <2>1. old \in Seq(Texts) /\ a \in Texts /\ b \in Texts /\ new = Intern(Intern(old, a), b)
      BY <1>1, <1>2, <1>4
    <2>2. QED
      BY <1>2, <2>1, InternsTwo
  <1>6. PICK n : n = [id |-> Index(new, a), label |-> Index(new, b), source |-> Source - 1]
    OBVIOUS
  <1>7. n \in [id : U32, label : U32, source : U32]
    BY <1>3, <1>5, <1>6
  <1>8. /\ n.id = Index(new, a) /\ n.label = Index(new, b) /\ n.source = Source - 1
        /\ nodes' = Append(nodes, n)
    BY <1>1, <1>4, <1>6
  <1>9. QED
    BY <1>4, <1>5, <1>7, <1>8

LEMMA WritesEdge ==
  ASSUME Begun, WriteEdge
  PROVE  \E new \in Seq(Texts), r \in U32 :
             /\ strings' = new /\ Extends(strings, new)
             /\ edges' = Append(edges, [from |-> From, to |-> To, relation |-> r])
             /\ At(U32_MAX, new, r, Declared.row.relation)
  <1>1. /\ at < Len(EdgeRows)
        /\ strings' = Intern(strings, Declared.row.relation)
        /\ edges' = Append(edges, [from |-> From, to |-> To,
                                   relation |-> Index(strings', Declared.row.relation)])
    BY DEF WriteEdge, Carried, Doing
  <1>2. Declared.row.relation \in Texts
    <2>1. at + 1 \in 1..Len(EdgeRows)
      BY <1>1, EdgeRowsAre DEF Begun
    <2>2. Declared.row \in Edge
      BY <2>1, EdgeRowsAre DEF Declared, Begun
    <2>3. QED
      BY <2>2 DEF Edge
  <1>3. PICK old, a, new : old = strings /\ a = Declared.row.relation /\ new = strings'
    OBVIOUS
  <1>4. federation \in Federations /\ old \in Seq(Texts) /\ a \in Texts /\ new = Intern(old, a)
    BY <1>1, <1>2, <1>3 DEF Begun
  <1>5. /\ new \in Seq(Texts) /\ Extends(old, new)
        /\ At(U32_MAX, new, Index(new, a), a) /\ Index(new, a) \in U32
    BY <1>4, InternsOne
  <1>6. edges' = Append(edges, [from |-> From, to |-> To, relation |-> Index(new, a)])
    BY <1>1, <1>3
  <1>7. QED
    BY <1>3, <1>5, <1>6

LEMMA WritesSource ==
  ASSUME Begun, WriteSource
  PROVE  \E new \in Seq(Texts), r \in [locator : U32, alias : U32, kind : 0..2, status : 0..1] :
             /\ strings' = new /\ Extends(strings, new)
             /\ sources' = Append(sources, r)
             /\ At(U32_MAX, new, r.locator, SourceRows[at + 1].locator)
             /\ IF SourceRows[at + 1].alias = NoText THEN r.alias = 0
                ELSE At(U32_MAX, new, r.alias, SourceRows[at + 1].alias)
             /\ r.status = SourceRows[at + 1].status
  <1>1. PICK s : s = SourceRows[at + 1]
    OBVIOUS
  <1>2. /\ at < Len(SourceRows)
        /\ strings' = IF s.alias = NoText THEN Intern(strings, s.locator)
                      ELSE Intern(Intern(strings, s.locator), s.alias)
        /\ sources' = Append(sources,
               [locator |-> Index(strings', s.locator),
                alias |-> IF s.alias = NoText THEN 0 ELSE Index(strings', s.alias),
                kind |-> s.kind, status |-> s.status])
    BY <1>1 DEF WriteSource, Doing
  <1>3. /\ s.locator \in Texts /\ s.alias \in Texts \cup {NoText}
        /\ s.kind \in 0..2 /\ s.status \in 0..1
    <2>1. at + 1 \in 1..Len(SourceRows)
      BY <1>2, SourceRowsAre DEF Begun
    <2>2. s \in SourceRow
      BY <1>1, <2>1, SourceRowsAre DEF Begun
    <2>3. QED
      BY <2>2 DEF SourceRow
  <1>4. PICK old, new : old = strings /\ new = strings'
    OBVIOUS
  <1>5. federation \in Federations /\ old \in Seq(Texts) /\ U32_MAX \in Nat
    BY <1>4, Written DEF Begun
  <1>6. /\ new \in Seq(Texts) /\ Extends(old, new)
        /\ At(U32_MAX, new, Index(new, s.locator), s.locator) /\ Index(new, s.locator) \in U32
        /\ s.alias # NoText => /\ At(U32_MAX, new, Index(new, s.alias), s.alias)
                               /\ Index(new, s.alias) \in U32
    <2>1. CASE s.alias = NoText
      <3>1. new = Intern(old, s.locator)
        BY <1>2, <1>4, <2>1
      <3>2. QED
        BY <1>3, <1>5, <2>1, <3>1, InternsOne
    <2>2. CASE s.alias # NoText
      <3>1. new = Intern(Intern(old, s.locator), s.alias) /\ s.alias \in Texts
        BY <1>2, <1>3, <1>4, <2>2
      <3>2. QED
        BY <1>3, <1>5, <2>2, <3>1, InternsTwo
    <2>3. QED
      BY <2>1, <2>2
  <1>7. PICK r : r = [locator |-> Index(new, s.locator),
                      alias |-> IF s.alias = NoText THEN 0 ELSE Index(new, s.alias),
                      kind |-> s.kind, status |-> s.status]
    OBVIOUS
  <1>8. /\ r.locator = Index(new, s.locator) /\ r.status = s.status /\ r.kind = s.kind
        /\ r.alias = IF s.alias = NoText THEN 0 ELSE Index(new, s.alias)
        /\ sources' = Append(sources, r)
    BY <1>2, <1>4, <1>7
  <1>9. (IF s.alias = NoText THEN 0 ELSE Index(new, s.alias)) \in U32
    BY <1>5, <1>6 DEF U32
  <1>10. r \in [locator : U32, alias : U32, kind : 0..2, status : 0..1]
    BY <1>3, <1>6, <1>7, <1>9
  <1>11. QED
    BY <1>1, <1>4, <1>6, <1>8, <1>10

LEMMA WritesEvidence ==
  ASSUME Begun, WriteEvidence
  PROVE  \/ WithPath(Row) = {} /\ UNCHANGED <<strings, evidence>>
         \/ /\ WithPath(Row) # {}
            /\ \E new \in Seq(Texts), p \in U32 :
                   /\ strings' = new /\ Extends(strings, new)
                   /\ At(U32_MAX, new, p, PlaceOf(Row).path)
                   /\ evidence' = Append(evidence, [node |-> NodeIndex(Source, Row.id),
                                                    path |-> p, line |-> PlaceOf(Row).line])
  <1>1. CASE WithPath(Row) = {}
    BY <1>1 DEF WriteEvidence
  <1>2. CASE WithPath(Row) # {}
    <2>1. /\ at < Len(NodeRows)
          /\ strings' = Intern(strings, PlaceOf(Row).path)
          /\ evidence' = Append(evidence, [node |-> NodeIndex(Source, Row.id),
                                           path |-> Index(strings', PlaceOf(Row).path),
                                           line |-> PlaceOf(Row).line])
      BY <1>2 DEF WriteEvidence, Doing
    <2>2. PICK row : row = Row
      OBVIOUS
    <2>3. row \in Node
      BY <2>1, <2>2, RowIs
    <2>4. PlaceOf(row).path \in Texts
      BY <1>2, <2>2, <2>3, PlaceIs
    <2>5. PICK old, a, new : old = strings /\ a = PlaceOf(row).path /\ new = strings'
      OBVIOUS
    <2>6. federation \in Federations /\ old \in Seq(Texts) /\ a \in Texts /\ new = Intern(old, a)
      BY <2>1, <2>2, <2>4, <2>5 DEF Begun
    <2>7. /\ new \in Seq(Texts) /\ Extends(old, new)
          /\ At(U32_MAX, new, Index(new, a), a) /\ Index(new, a) \in U32
      BY <2>6, InternsOne
    <2>8. evidence' = Append(evidence, [node |-> NodeIndex(Source, Row.id),
                                        path |-> Index(new, a), line |-> PlaceOf(Row).line])
      BY <2>1, <2>2, <2>5
    <2>9. QED
      BY <1>2, <2>2, <2>5, <2>7, <2>8
  <1>3. QED
    BY <1>1, <1>2

\* Whatever a step does, what was at an index is still there.
LEMMA StringsGrow ==
  ASSUME Begun, [Next]_vars
  PROVE  strings' \in Seq(Texts) /\ Extends(strings, strings')
  <1>1. CASE PlaceNode
    BY <1>1, PlacesNode
  <1>2. CASE WriteEdge
    BY <1>2, WritesEdge
  <1>3. CASE WriteSource
    BY <1>3, WritesSource
  <1>4. CASE strings' = strings
    <2>1. strings \in Seq(Texts) /\ Len(strings) \in Nat
      BY DEF Begun
    <2>2. QED
      BY <1>4, <2>1 DEF Extends
  <1>5. CASE WriteEvidence
    <2>1. CASE WithPath(Row) = {}
      BY <1>4, <1>5, <2>1, WritesEvidence
    <2>2. CASE WithPath(Row) # {}
      BY <1>5, <2>2, WritesEvidence
    <2>3. QED
      BY <2>1, <2>2
  <1>6. QED
    BY <1>1, <1>2, <1>3, <1>4, <1>5, WhoWrites

LEMMA AtStays ==
  ASSUME Begun, [Next]_vars
  PROVE  \A n, text : At(U32_MAX, strings, n, text) => At(U32_MAX, strings', n, text)
  <1>1. PICK old, new : old = strings /\ new = strings'
    OBVIOUS
  <1>2. old \in Seq(Texts) /\ new \in Seq(Texts) /\ Extends(old, new)
    BY <1>1, StringsGrow DEF Begun
  <1>3. \A n, text : At(U32_MAX, old, n, text) => At(U32_MAX, new, n, text)
    <2>1. PICK limit : limit = U32_MAX
      OBVIOUS
    <2>2. QED
      BY <1>2, <2>1, StaysAt
  <1>4. QED
    BY <1>1, <1>3

LEMMA BegunStep ==
  ASSUME Begun, [Next]_vars
  PROVE  Begun'
  <1>1. federation' \in Federations /\ federation' = federation
    BY Same DEF Begun
  <1>2. stage' \in Stages /\ at' \in Nat
    BY DEF Begun, Stages, Next, vars, PlaceNode, TooManyNodes, NodesPlaced, WriteEdge,
           TooManyEdges, DropEdge, EdgesWritten, WriteSource, SourcesWritten, WriteEvidence,
           EvidenceWritten, Assemble, DoesNotFit, Refuse, Step, Finished
  <1>3. strings' \in Seq(Texts) /\ Len(strings') >= 1
    <2>1. strings' \in Seq(Texts) /\ Len(strings) <= Len(strings')
      BY StringsGrow DEF Extends
    <2>2. Len(strings) \in Nat /\ Len(strings') \in Nat /\ Len(strings) >= 1
      BY <2>1 DEF Begun
    <2>3. QED
      BY <2>1, <2>2
  <1>4. QED
    BY <1>1, <1>2, <1>3 DEF Begun

-----------------------------------------------------------------------------
(* Nodes, positions and the first of each identifier.                      *)

LEMMA NodesStage ==
  ASSUME [Next]_vars, ~PlaceNode
  PROVE  /\ stage' = "nodes" => stage = "nodes" /\ at' = at
         /\ stage' \in Later => stage \in Later \/ (stage = "nodes" /\ at = Len(NodeRows))
  BY DEF Later, Next, vars, TooManyNodes, NodesPlaced, WriteEdge, TooManyEdges, DropEdge,
         EdgesWritten, WriteSource, SourcesWritten, WriteEvidence, EvidenceWritten, Assemble,
         DoesNotFit, Refuse, Step, Finished, Doing, Carried

\* What PlaceNode does to the rows and to the loop.
LEMMA PlaceNodeIs ==
  ASSUME Begun, NodesInv, PlaceNode
  PROVE  /\ stage = "nodes" /\ stage' = "nodes" /\ at' = at + 1 /\ at = Len(nodes)
         /\ Len(nodes) \in Nat /\ Len(nodes) + 1 <= U32_MAX /\ U32_MAX \in Nat
         /\ Len(nodes) + 1 \in 1..Len(NodeRows)
         /\ Source = NodeRows[Len(nodes) + 1].source /\ Row = NodeRows[Len(nodes) + 1].row
         /\ Len(nodes') = Len(nodes) + 1
         /\ \A i \in 1..Len(nodes) : nodes'[i] = nodes[i]
         /\ \A i \in 1..Len(nodes') : i \in 1..Len(nodes) \/ i = Len(nodes) + 1
  <1>1. /\ stage = "nodes" /\ stage' = "nodes" /\ at' = at + 1
        /\ at < Len(NodeRows) /\ Len(nodes) + 1 <= U32_MAX
    BY DEF PlaceNode, Doing, Step, Fits
  <1>2. at = Len(nodes) /\ nodes \in Seq([id : U32, label : U32, source : U32])
    BY <1>1 DEF NodesInv
  <1>3. Len(nodes) \in Nat /\ U32_MAX \in Nat
    BY <1>2, Written DEF Begun
  <1>4. /\ at + 1 \in 1..Len(NodeRows)
        /\ Source = NodeRows[at + 1].source /\ Row = NodeRows[at + 1].row
    BY <1>1, RowIs
  <1>5. PICK n \in [id : U32, label : U32, source : U32] : nodes' = Append(nodes, n)
    BY PlacesNode
  <1>6. Len(nodes') = Len(nodes) + 1 /\ \A i \in 1..Len(nodes) : nodes'[i] = nodes[i]
    BY <1>2, <1>5, AppendProperties
  <1>7. \A i \in 1..Len(nodes') : i \in 1..Len(nodes) \/ i = Len(nodes) + 1
    BY <1>3, <1>6
  <1>8. QED
    BY <1>1, <1>2, <1>3, <1>4, <1>6, <1>7

LEMMA NodesStep ==
  ASSUME Begun, NodesInv, [Next]_vars
  PROVE  NodesInv'
  <1> DEFINE Is(i) == /\ At(U32_MAX, strings', nodes'[i].id, NodeRows[i].row.id)
                      /\ At(U32_MAX, strings', nodes'[i].label, NodeRows[i].row.label)
                      /\ nodes'[i].source = NodeRows[i].source - 1
  <1>1. /\ nodes \in Seq([id : U32, label : U32, source : U32])
        /\ Len(nodes) \in U32 /\ Len(nodes) <= Len(NodeRows)
        /\ stage = "nodes" => at = Len(nodes)
        /\ stage \in Later => Len(nodes) = Len(NodeRows)
    BY DEF NodesInv
  <1>2. \A i \in 1..Len(nodes) :
            /\ At(U32_MAX, strings', nodes[i].id, NodeRows[i].row.id)
            /\ At(U32_MAX, strings', nodes[i].label, NodeRows[i].row.label)
            /\ nodes[i].source = NodeRows[i].source - 1
    BY AtStays DEF NodesInv
  <1>3. CASE PlaceNode
    <2>1. /\ stage = "nodes" /\ stage' = "nodes" /\ at' = at + 1 /\ at = Len(nodes)
          /\ Len(nodes) \in Nat /\ Len(nodes) + 1 <= U32_MAX /\ U32_MAX \in Nat
          /\ Len(nodes) + 1 \in 1..Len(NodeRows)
          /\ Source = NodeRows[Len(nodes) + 1].source /\ Row = NodeRows[Len(nodes) + 1].row
          /\ Len(nodes') = Len(nodes) + 1
          /\ \A i \in 1..Len(nodes) : nodes'[i] = nodes[i]
          /\ \A i \in 1..Len(nodes') : i \in 1..Len(nodes) \/ i = Len(nodes) + 1
      BY <1>3, PlaceNodeIs
    <2>2. PICK new \in Seq(Texts), n \in [id : U32, label : U32, source : U32] :
              /\ strings' = new /\ nodes' = Append(nodes, n)
              /\ At(U32_MAX, new, n.id, Row.id) /\ At(U32_MAX, new, n.label, Row.label)
              /\ n.source = Source - 1
      BY <1>3, PlacesNode
    <2>3. /\ nodes' \in Seq([id : U32, label : U32, source : U32])
          /\ nodes'[Len(nodes) + 1] = n
      BY <1>1, <2>2, AppendProperties
    <2>4. Len(nodes') \in U32 /\ Len(nodes') <= Len(NodeRows)
      BY <2>1 DEF U32
    <2>5. at' = Len(nodes') /\ stage' \notin Later
      BY <2>1 DEF Later
    <2>6. Is(Len(nodes) + 1)
      BY <2>1, <2>2, <2>3
    <2>7. \A i \in 1..Len(nodes) : Is(i)
      BY <1>2, <2>1
    <2>8. \A i \in 1..Len(nodes') : Is(i)
      <3> HIDE DEF Is
      <3>1. QED
        BY <2>1, <2>6, <2>7
    <2>9. QED
      BY <2>3, <2>4, <2>5, <2>8, Same DEF NodesInv
  <1>4. CASE ~PlaceNode
    <2>1. nodes' = nodes
      BY <1>4, WhoWrites
    <2>2. stage' = "nodes" => at' = Len(nodes)
      BY <1>1, <1>4, NodesStage
    <2>3. stage' \in Later => Len(nodes) = Len(NodeRows)
      BY <1>1, <1>4, NodesStage
    <2>4. QED
      BY <1>1, <1>2, <2>1, <2>2, <2>3, Same DEF NodesInv
  <1>5. QED
    BY <1>3, <1>4

LEMMA PositionStep ==
  ASSUME Begun, NodesInv, PositionInv, [Next]_vars
  PROVE  PositionInv'
  <1>1. CASE PlaceNode
    <2>1. /\ Len(nodes) \in Nat /\ Len(nodes) + 1 \in 1..Len(NodeRows)
          /\ Source = NodeRows[Len(nodes) + 1].source /\ Row = NodeRows[Len(nodes) + 1].row
          /\ Len(nodes') = Len(nodes) + 1 /\ Len(nodes) <= Len(NodeRows)
          /\ \A i \in 1..Len(nodes') : i \in 1..Len(nodes) \/ i = Len(nodes) + 1
      BY <1>1, PlaceNodeIs DEF NodesInv
    <2>2. PICK key : key = KeyOf(NodeRows[Len(nodes) + 1])
      OBVIOUS
    <2>3. position' = [k \in DOMAIN position \cup {key} |->
                           IF k = key THEN Len(nodes) ELSE position[k]]
      BY <1>1, <2>1, <2>2 DEF PlaceNode, KeyOf
    <2>4. \A i \in 1..Len(nodes) : KeyOf(NodeRows[i]) # key
      <3>1. SUFFICES ASSUME NEW i \in 1..Len(nodes), KeyOf(NodeRows[i]) = key
                     PROVE  FALSE
        OBVIOUS
      <3>2. /\ i \in 1..Len(NodeRows)
            /\ NodeRows[i].source = NodeRows[Len(nodes) + 1].source
            /\ NodeRows[i].row.id = NodeRows[Len(nodes) + 1].row.id
        BY <2>1, <2>2, <3>1, NodeRowsAre DEF KeyOf, Begun
      <3>3. Once(NodeRows)
        BY NodeRowsAre DEF Begun
      <3>4. i = Len(nodes) + 1
        BY <2>1, <3>2, <3>3 DEF Once
      <3>5. QED
        BY <2>1, <3>4
    <2>5. /\ DOMAIN position = {KeyOf(NodeRows[i]) : i \in 1..Len(nodes)}
          /\ \A i \in 1..Len(nodes) : position[KeyOf(NodeRows[i])] = i - 1
      BY DEF PositionInv
    <2>6. DOMAIN position' = {KeyOf(NodeRows[i]) : i \in 1..Len(nodes')}
      <3>1. \A i \in 1..Len(nodes) : i \in 1..Len(nodes')
        BY <2>1
      <3>2. Len(nodes) + 1 \in 1..Len(nodes')
        BY <2>1
      <3>3. QED
        BY <2>1, <2>2, <2>3, <2>5, <3>1, <3>2
    <2>7. \A i \in 1..Len(nodes') : position'[KeyOf(NodeRows[i])] = i - 1
      <3>1. SUFFICES ASSUME NEW i \in 1..Len(nodes') PROVE position'[KeyOf(NodeRows[i])] = i - 1
        OBVIOUS
      <3>2. CASE i \in 1..Len(nodes)
        BY <2>3, <2>4, <2>5, <3>2
      <3>3. CASE i = Len(nodes) + 1
        <4>1. position'[key] = Len(nodes)
          BY <2>3
        <4>2. i - 1 = Len(nodes)
          BY <2>1, <3>3
        <4>3. QED
          BY <2>2, <3>3, <4>1, <4>2
      <3>4. QED
        BY <2>1, <3>2, <3>3
    <2>8. QED
      BY <2>6, <2>7, Same DEF PositionInv
  <1>2. CASE ~PlaceNode
    <2>1. nodes' = nodes /\ position' = position
      BY <1>2, WhoWrites
    <2>2. QED
      BY <2>1, Same DEF PositionInv
  <1>3. QED
    BY <1>1, <1>2

\* The value of a position is the index of a node with the key.
LEMMA PositionIs ==
  ASSUME Begun, NodesInv, PositionInv
  PROVE  \A k \in DOMAIN position :
             \E i \in 1..Len(nodes) :
                 k = KeyOf(NodeRows[i]) /\ position[k] = i - 1
  BY DEF PositionInv

LEMMA FirstStep ==
  ASSUME Begun, NodesInv, PositionInv, FirstInv, [Next]_vars
  PROVE  FirstInv'
  <1>1. CASE NodesPlaced
    <2>1. /\ stage' = "edges" /\ nodes' = nodes
          /\ first' \in {f \in [{k[2] : k \in DOMAIN position} ->
                                    {position[k] : k \in DOMAIN position}] :
                 \A i \in DOMAIN f : \E k \in DOMAIN position : k[2] = i /\ position[k] = f[i]}
      BY <1>1 DEF NodesPlaced, Finished, rows
    <2>2. DOMAIN first' = {k[2] : k \in DOMAIN position}
      BY <2>1
    <2>3. ASSUME NEW id \in DOMAIN first'
          PROVE  \E i \in 1..Len(nodes) : NodeRows[i].row.id = id /\ first'[id] = i - 1
      <3>1. PICK k \in DOMAIN position : k[2] = id /\ position[k] = first'[id]
        BY <2>1
      <3>2. PICK i \in 1..Len(nodes) : k = KeyOf(NodeRows[i]) /\ position[k] = i - 1
        BY PositionIs
      <3>3. k[2] = NodeRows[i].row.id
        BY <3>2 DEF KeyOf
      <3>4. QED
        BY <3>1, <3>2, <3>3
    <2>4. ASSUME NEW i \in 1..Len(nodes)
          PROVE  NodeRows[i].row.id \in DOMAIN first'
      <3>1. KeyOf(NodeRows[i]) \in DOMAIN position
        BY DEF PositionInv
      <3>2. KeyOf(NodeRows[i])[2] = NodeRows[i].row.id
        BY DEF KeyOf
      <3>3. QED
        BY <2>2, <3>1, <3>2
    <2>5. QED
      BY <2>1, <2>3, <2>4, Same DEF FirstInv
  <1>2. CASE PlaceNode
    <2>1. /\ stage = "nodes" /\ stage' = "nodes" /\ first' = first
      BY <1>2 DEF PlaceNode, Doing, Step
    <2>2. DOMAIN first' = {} /\ stage' \notin Later
      BY <2>1 DEF FirstInv, Later
    <2>3. QED
      BY <2>1, <2>2 DEF FirstInv
  <1>3. CASE ~NodesPlaced /\ ~PlaceNode
    <2>1. nodes' = nodes /\ first' = first
      BY <1>3, WhoWrites
    <2>2. /\ stage' = "nodes" => stage = "nodes"
          /\ stage' \in Later => stage \in Later
      BY <1>3 DEF Later, Next, vars, TooManyNodes, WriteEdge, TooManyEdges, DropEdge,
         EdgesWritten, WriteSource, SourcesWritten, WriteEvidence, EvidenceWritten, Assemble,
         DoesNotFit, Refuse, Step, Finished, Doing, Carried
    <2>3. QED
      BY <2>1, <2>2, Same DEF FirstInv
  <1>4. QED
    BY <1>1, <1>2, <1>3

-----------------------------------------------------------------------------
(* Edges.                                                                  *)

Held(ref, s) ==
    \E i \in 1..Len(NodeRows) :
        NodeRows[i].row.id = ref.id /\ (ref.local => NodeRows[i].source = s)

LEMMA LeadsIsHeld ==
  ASSUME federation \in Federations, NEW ref, NEW s
  PROVE  Leads(ref, s) <=> Held(ref, s)
  <1>1. ASSUME Leads(ref, s)
        PROVE  Held(ref, s)
    <2>1. PICK g \in Graphs : NodesOf(ref, s, g) # {}
      BY <1>1 DEF Leads
    <2> PICK k \in 1..Len(Graph(g).nodes) : Graph(g).nodes[k].id = ref.id /\ (ref.local => g = s)
      BY <2>1 DEF NodesOf
    <2>2. PICK i \in 1..Len(NodeRows) :
              NodeRows[i].source = g /\ NodeRows[i].row = Graph(g).nodes[k]
      BY NodeRowsAre
    <2>3. QED
      BY <2>2 DEF Held
  <1>2. ASSUME Held(ref, s)
        PROVE  Leads(ref, s)
    <2>1. PICK i \in 1..Len(NodeRows) :
              NodeRows[i].row.id = ref.id /\ (ref.local => NodeRows[i].source = s)
      BY <1>2 DEF Held
    <2> DEFINE g == NodeRows[i].source
    <2>2. g \in Graphs /\ \E k \in 1..Len(Graph(g).nodes) : NodeRows[i].row = Graph(g).nodes[k]
      BY NodeRowsAre
    <2> PICK k \in 1..Len(Graph(g).nodes) : NodeRows[i].row = Graph(g).nodes[k]
      BY <2>2
    <2>3. k \in NodesOf(ref, s, g)
      BY <2>1, <2>2 DEF NodesOf
    <2> HIDE DEF g
    <2>4. QED
      BY <2>2, <2>3 DEF Leads
  <1>3. QED
    BY <1>1, <1>2

\* An endpoint is found exactly when a graph holds its node, and it is the index
\* of such a node.
LEMMA EndpointIs ==
  ASSUME Begun, NodesInv, PositionInv, FirstInv, stage = "edges",
         NEW ref, ref.local \in BOOLEAN, NEW s
  PROVE  /\ Endpoint(ref, s) # None <=> Leads(ref, s)
         /\ Endpoint(ref, s) # None =>
                Reaches(NodeRows, Len(nodes), Endpoint(ref, s), ref, s)
  <1>1. Len(nodes) = Len(NodeRows)
    BY DEF NodesInv, Later
  <1>2. Leads(ref, s) <=> Held(ref, s)
    BY LeadsIsHeld DEF Begun
  <1>3. \A i \in 1..Len(nodes) : i - 1 # None
    BY DEF None
  <1>4. CASE ref.local
    <2> DEFINE key == <<s, ref.id>>
    <2>1. ASSUME key \in DOMAIN position
          PROVE  /\ Endpoint(ref, s) # None /\ Held(ref, s)
                 /\ Reaches(NodeRows, Len(nodes), Endpoint(ref, s), ref, s)
      <3>1. PICK i \in 1..Len(nodes) : key = KeyOf(NodeRows[i]) /\ position[key] = i - 1
        BY <2>1, PositionIs
      <3>2. NodeRows[i].source = s /\ NodeRows[i].row.id = ref.id
        BY <3>1 DEF KeyOf
      <3>3. Endpoint(ref, s) = i - 1
        BY <1>4, <2>1, <3>1 DEF Endpoint
      <3>4. QED
        BY <1>1, <1>3, <3>2, <3>3 DEF Held, Reaches
    <2>2. ASSUME key \notin DOMAIN position
          PROVE  Endpoint(ref, s) = None /\ ~Held(ref, s)
      <3>1. Endpoint(ref, s) = None
        BY <1>4, <2>2 DEF Endpoint
      <3>2. ASSUME Held(ref, s) PROVE FALSE
        <4>1. PICK i \in 1..Len(nodes) : NodeRows[i].row.id = ref.id /\ NodeRows[i].source = s
          BY <1>1, <1>4, <3>2 DEF Held
        <4>2. KeyOf(NodeRows[i]) \in DOMAIN position
          BY DEF PositionInv
        <4>3. QED
          BY <2>2, <4>1, <4>2 DEF KeyOf
      <3>3. QED
        BY <3>1, <3>2
    <2> HIDE DEF key
    <2>3. QED
      BY <1>2, <2>1, <2>2
  <1>5. CASE ~ref.local
    <2>1. ASSUME ref.id \in DOMAIN first
          PROVE  /\ Endpoint(ref, s) # None /\ Held(ref, s)
                 /\ Reaches(NodeRows, Len(nodes), Endpoint(ref, s), ref, s)
      <3>1. PICK i \in 1..Len(nodes) : NodeRows[i].row.id = ref.id /\ first[ref.id] = i - 1
        BY <2>1 DEF FirstInv
      <3>2. Endpoint(ref, s) = i - 1
        BY <1>5, <2>1, <3>1 DEF Endpoint
      <3>3. QED
        BY <1>1, <1>3, <1>5, <3>1, <3>2 DEF Held, Reaches
    <2>2. ASSUME ref.id \notin DOMAIN first
          PROVE  Endpoint(ref, s) = None /\ ~Held(ref, s)
      <3>1. Endpoint(ref, s) = None
        BY <1>5, <2>2 DEF Endpoint
      <3>2. ASSUME Held(ref, s) PROVE FALSE
        <4>1. PICK i \in 1..Len(nodes) : NodeRows[i].row.id = ref.id
          BY <1>1, <3>2 DEF Held
        <4>2. NodeRows[i].row.id \in DOMAIN first
          BY DEF FirstInv, Later
        <4>3. QED
          BY <2>2, <4>1, <4>2
      <3>3. QED
        BY <3>1, <3>2
    <2>3. QED
      BY <1>2, <2>1, <2>2
  <1>6. QED
    BY <1>4, <1>5

\* The edge of the row, its ends and the list of whole edges with it.
LEMMA DeclaredIs ==
  ASSUME Begun, NodesInv, PositionInv, FirstInv, stage = "edges", at < Len(EdgeRows)
  PROVE  /\ at + 1 \in 1..Len(EdgeRows) /\ at \in 0..Len(EdgeRows)
         /\ WholeUpto[at] \in Seq(Rows(Edge)) /\ Declared \in Rows(Edge)
         /\ WholeUpto[at + 1] = IF From # None /\ To # None
                                THEN Append(WholeUpto[at], Declared) ELSE WholeUpto[at]
         /\ From # None => Reaches(NodeRows, Len(nodes), From, Declared.row.from, Declared.source)
         /\ To # None => Reaches(NodeRows, Len(nodes), To, Declared.row.to, Declared.source)
  <1>1. EdgeRows \in Seq(Rows(Edge)) /\ Len(EdgeRows) \in Nat
    BY EdgeRowsAre DEF Begun
  <1>2. at + 1 \in 1..Len(EdgeRows) /\ at \in 0..Len(EdgeRows) /\ (at + 1) - 1 = at
    BY <1>1 DEF Begun
  <1>3. Declared \in Rows(Edge) /\ Declared = EdgeRows[at + 1]
    BY <1>1, <1>2 DEF Declared
  <1>4. /\ WholeUpto \in [0..Len(EdgeRows) -> Seq(Rows(Edge))]
        /\ \A i \in 1..Len(EdgeRows) : WholeUpto[i] = Kept(WholeUpto[i - 1], EdgeRows[i])
    BY <1>1, WholeUptoIs
  <1>5. WholeUpto[at] \in Seq(Rows(Edge))
    BY <1>2, <1>4
  <1>6. WholeUpto[at + 1] = Kept(WholeUpto[at], Declared)
    BY <1>2, <1>3, <1>4
  <1>7. Declared.row.from.local \in BOOLEAN /\ Declared.row.to.local \in BOOLEAN
    <2>1. Declared.row.from \in Ref /\ Declared.row.to \in Ref
      BY <1>3 DEF Rows, Edge
    <2>2. QED
      BY <2>1 DEF Ref
  <1>8. /\ From # None <=> Leads(Declared.row.from, Declared.source)
        /\ From # None => Reaches(NodeRows, Len(nodes), From, Declared.row.from, Declared.source)
    BY <1>7, EndpointIs DEF From
  <1>9. /\ To # None <=> Leads(Declared.row.to, Declared.source)
        /\ To # None => Reaches(NodeRows, Len(nodes), To, Declared.row.to, Declared.source)
    BY <1>7, EndpointIs DEF To
  <1>10. QED
    BY <1>2, <1>3, <1>5, <1>6, <1>8, <1>9 DEF Kept

LEMMA EdgesStage ==
  ASSUME [Next]_vars, ~WriteEdge, ~DropEdge, ~NodesPlaced, ~EdgesWritten
  PROVE  /\ stage' = "nodes" => stage = "nodes"
         /\ stage' = "edges" => stage = "edges" /\ at' = at
         /\ stage' \in Later \ {"edges"} => stage \in Later \ {"edges"}
         /\ stage = "edges" => nodes' = nodes
  BY DEF Later, Next, vars, rows, PlaceNode, TooManyNodes, TooManyEdges,
         WriteSource, SourcesWritten, WriteEvidence, EvidenceWritten, Assemble,
         DoesNotFit, Refuse, Step, Finished, Doing, Carried

LEMMA EdgeStays ==
  ASSUME Begun, NodesInv, [Next]_vars
  PROVE  \A edge, e : EdgeIs(NodeRows, Len(nodes), U32_MAX, strings, edge, e)
             => EdgeIs(NodeRows, Len(nodes), U32_MAX, strings', edge, e)
  BY AtStays DEF EdgeIs

LEMMA WriteEdgeStep ==
  ASSUME Begun, NodesInv, PositionInv, FirstInv, EdgesInv, WriteEdge
  PROVE  EdgesInv'
  <1>1. /\ stage = "edges" /\ stage' = "edges" /\ at' = at + 1 /\ at < Len(EdgeRows)
        /\ nodes' = nodes /\ From # None /\ To # None /\ Len(edges) + 1 <= U32_MAX
    BY DEF WriteEdge, Carried, Doing, Step, Fits
  <1>2. [Next]_vars
    BY DEF Next
  <1>3. PICK whole : whole = WholeUpto[at]
    OBVIOUS
  <1>4. /\ whole \in Seq(Rows(Edge)) /\ Declared \in Rows(Edge)
        /\ WholeUpto[at + 1] = Append(whole, Declared) /\ at + 1 \in 0..Len(EdgeRows)
        /\ Reaches(NodeRows, Len(nodes), From, Declared.row.from, Declared.source)
        /\ Reaches(NodeRows, Len(nodes), To, Declared.row.to, Declared.source)
    <2>1. at + 1 \in 1..Len(EdgeRows) => at + 1 \in 0..Len(EdgeRows)
      OBVIOUS
    <2>2. QED
      BY <1>1, <1>3, <2>1, DeclaredIs
  <1>5. /\ edges \in Seq([from : U32, to : U32, relation : U32]) /\ Len(edges) \in Nat
        /\ Len(edges) = Len(whole)
        /\ \A i \in 1..Len(edges) :
               EdgeIs(NodeRows, Len(nodes), U32_MAX, strings, edges[i], whole[i])
    BY <1>1, <1>3 DEF EdgesInv, Matches
  <1>6. PICK new \in Seq(Texts), r \in U32 :
            /\ strings' = new
            /\ edges' = Append(edges, [from |-> From, to |-> To, relation |-> r])
            /\ At(U32_MAX, new, r, Declared.row.relation)
    BY WritesEdge
  <1>7. PICK edge : edge = [from |-> From, to |-> To, relation |-> r]
    OBVIOUS
  <1>8. edge.from = From /\ edge.to = To /\ edge.relation = r
    BY <1>7
  <1>9. U32_MAX \in Nat /\ Len(nodes) \in Nat /\ Len(nodes) <= U32_MAX
    BY Written DEF Begun, NodesInv, U32
  <1>10. From \in U32 /\ To \in U32
    BY <1>4, <1>9 DEF Reaches, U32
  <1>11. edge \in [from : U32, to : U32, relation : U32]
    BY <1>6, <1>7, <1>10
  <1>12. EdgeIs(NodeRows, Len(nodes), U32_MAX, strings', edge, Declared)
    BY <1>4, <1>6, <1>8 DEF EdgeIs
  <1>13. \A i \in 1..Len(edges) :
             EdgeIs(NodeRows, Len(nodes), U32_MAX, strings', edges[i], whole[i])
    BY <1>2, <1>5, EdgeStays
  <1>14. /\ edges' \in Seq([from : U32, to : U32, relation : U32])
         /\ Len(edges') = Len(edges) + 1
         /\ \A i \in 1..Len(edges) : edges'[i] = edges[i]
         /\ edges'[Len(edges) + 1] = edge
    BY <1>5, <1>6, <1>7, <1>11, AppendProperties
  <1>15. PICK longer : longer = Append(whole, Declared)
    OBVIOUS
  <1>16. /\ Len(longer) = Len(whole) + 1
         /\ \A i \in 1..Len(whole) : longer[i] = whole[i]
         /\ longer[Len(whole) + 1] = Declared
    BY <1>4, <1>15, AppendProperties
  <1>17. \A i \in 1..Len(edges') : i \in 1..Len(edges) \/ i = Len(edges) + 1
    BY <1>5, <1>14
  <1>18. \A i \in 1..Len(edges') :
             EdgeIs(NodeRows, Len(nodes), U32_MAX, strings', edges'[i], longer[i])
    BY <1>5, <1>12, <1>13, <1>14, <1>16, <1>17
  <1>19. Len(edges') \in U32 /\ Len(edges') = Len(longer)
    BY <1>1, <1>5, <1>9, <1>14, <1>16 DEF U32
  <1>20. stage' # "nodes" /\ stage' \notin Later \ {"edges"}
    BY <1>1
  <1>21. longer = WholeUpto[at']
    BY <1>1, <1>4, <1>15
  <1>22. QED
    BY <1>1, <1>2, <1>4, <1>14, <1>18, <1>19, <1>20, <1>21, Same DEF EdgesInv, Matches

LEMMA EdgesStep ==
  ASSUME Begun, NodesInv, PositionInv, FirstInv, EdgesInv, [Next]_vars
  PROVE  EdgesInv'
  <1>1. /\ edges \in Seq([from : U32, to : U32, relation : U32]) /\ Len(edges) \in U32
        /\ stage = "nodes" => edges = <<>>
    BY DEF EdgesInv
  <1>2. CASE WriteEdge
    BY <1>2, WriteEdgeStep
  <1>3. CASE ~WriteEdge
    <2>1. edges' = edges
      BY <1>3, WhoWrites
    <2>2. ASSUME NEW whole, Matches(whole), nodes' = nodes
          PROVE  /\ Len(edges) = Len(whole)
                 /\ \A i \in 1..Len(edges) :
                        EdgeIs(NodeRows, Len(nodes), U32_MAX, strings', edges[i], whole[i])
      BY <2>2, EdgeStays DEF Matches
    <2>3. CASE NodesPlaced
      <3>1. stage = "nodes" /\ stage' = "edges" /\ at' = 0 /\ nodes' = nodes
        BY <2>3 DEF NodesPlaced, Finished, rows
      <3>2. edges = <<>> /\ Len(edges) = 0
        BY <1>1, <3>1
      <3>3. EdgeRows \in Seq(Rows(Edge)) /\ Len(EdgeRows) \in Nat
        BY EdgeRowsAre DEF Begun
      <3>4. WholeUpto[0] = <<>> /\ 0 \in 0..Len(EdgeRows)
        BY <3>3, WholeUptoIs
      <3>5. stage' # "nodes" /\ stage' \notin Later \ {"edges"}
        BY <3>1
      <3>6. PICK whole : whole = WholeUpto[0]
        OBVIOUS
      <3>7. Len(whole) = 0
        BY <3>4, <3>6
      <3>8. whole = WholeUpto[at']
        BY <3>1, <3>6
      <3>9. \A i \in 1..Len(edges) :
                EdgeIs(NodeRows, Len(nodes), U32_MAX, strings', edges[i], whole[i])
        BY <3>2
      <3>10. Len(edges) = Len(whole)
        BY <3>2, <3>7
      <3>11. QED
        BY <1>1, <2>1, <3>1, <3>4, <3>5, <3>8, <3>9, <3>10, Same DEF EdgesInv, Matches
    <2>4. CASE DropEdge
      <3>1. /\ stage = "edges" /\ stage' = "edges" /\ at' = at + 1 /\ at < Len(EdgeRows)
            /\ nodes' = nodes /\ ~(From # None /\ To # None)
        BY <2>4 DEF DropEdge, Doing, Step, rows
      <3>2. WholeUpto[at + 1] = WholeUpto[at] /\ at + 1 \in 0..Len(EdgeRows)
        <4>1. at + 1 \in 1..Len(EdgeRows) => at + 1 \in 0..Len(EdgeRows)
          OBVIOUS
        <4>2. QED
          BY <3>1, <4>1, DeclaredIs
      <3>3. PICK whole : whole = WholeUpto[at]
        OBVIOUS
      <3>4. Matches(whole)
        BY <3>1, <3>3 DEF EdgesInv
      <3>5. whole = WholeUpto[at']
        BY <3>1, <3>2, <3>3
      <3>6. stage' # "nodes" /\ stage' \notin Later \ {"edges"}
        BY <3>1
      <3>7. QED
        BY <1>1, <2>1, <2>2, <3>1, <3>2, <3>4, <3>5, <3>6, Same DEF EdgesInv, Matches
    <2>5. CASE EdgesWritten
      <3>1. /\ stage = "edges" /\ stage' = "sources" /\ at = Len(EdgeRows) /\ nodes' = nodes
        BY <2>5 DEF EdgesWritten, Finished, rows
      <3>2. Matches(Whole)
        BY <3>1 DEF EdgesInv, Whole
      <3>3. stage' # "nodes" /\ stage' # "edges"
        BY <3>1
      <3>4. QED
        BY <1>1, <2>1, <2>2, <3>1, <3>2, <3>3, Same DEF EdgesInv, Matches
    <2>6. CASE ~NodesPlaced /\ ~DropEdge /\ ~EdgesWritten
      <3>1. /\ stage' = "nodes" => stage = "nodes"
            /\ stage' = "edges" => stage = "edges" /\ at' = at
            /\ stage' \in Later \ {"edges"} => stage \in Later \ {"edges"}
        BY <1>3, <2>6, EdgesStage
      <3>2. CASE nodes' = nodes
        <4>1. stage' = "edges" => at \in 0..Len(EdgeRows) /\ Matches(WholeUpto[at])
          BY <3>1 DEF EdgesInv
        <4>2. stage' \in Later \ {"edges"} => Matches(Whole)
          BY <3>1 DEF EdgesInv
        <4>3. PICK whole, all : whole = WholeUpto[at] /\ all = Whole
          OBVIOUS
        <4>4. QED
          BY <1>1, <2>1, <2>2, <3>1, <3>2, <4>1, <4>2, <4>3, Same DEF EdgesInv, Matches
      <3>3. CASE nodes' # nodes
        <4>1. PlaceNode
          BY <3>3, WhoWrites
        <4>2. stage = "nodes" /\ stage' = "nodes"
          BY <4>1 DEF PlaceNode, Doing, Step
        <4>3. stage' # "edges" /\ stage' \notin Later
          BY <4>2 DEF Later
        <4>4. QED
          BY <1>1, <2>1, <4>2, <4>3, Same DEF EdgesInv
      <3>4. QED
        BY <3>2, <3>3
    <2>7. QED
      BY <2>3, <2>4, <2>5, <2>6
  <1>4. QED
    BY <1>2, <1>3

-----------------------------------------------------------------------------
(* Sources and evidence.                                                   *)

LEMMA SourcesStage ==
  ASSUME [Next]_vars, ~WriteSource
  PROVE  /\ stage' \in {"nodes", "edges"} => stage \in {"nodes", "edges"}
         /\ stage' = "sources" => (stage = "sources" /\ at' = at) \/ (stage = "edges" /\ at' = 0)
         /\ stage' \in {"evidence", "layout", "done"} =>
                \/ stage \in {"evidence", "layout", "done"}
                \/ stage = "sources" /\ at = Len(SourceRows)
  BY DEF Next, vars, rows, PlaceNode, TooManyNodes, NodesPlaced, WriteEdge, TooManyEdges, DropEdge,
         EdgesWritten, SourcesWritten, WriteEvidence, EvidenceWritten, Assemble,
         DoesNotFit, Refuse, Step, Finished, Doing, Carried

LEMMA SourcesStep ==
  ASSUME Begun, SourcesInv, [Next]_vars
  PROVE  SourcesInv'
  <1> DEFINE Form == [locator : U32, alias : U32, kind : 0..2, status : 0..1]
  <1>1. /\ sources \in Seq(Form) /\ Len(sources) \in Nat /\ Len(sources) <= Len(SourceRows)
        /\ stage \in {"nodes", "edges"} => sources = <<>>
        /\ stage = "sources" => at = Len(sources)
        /\ stage \in {"evidence", "layout", "done"} => Len(sources) = Len(SourceRows)
    BY DEF SourcesInv
  <1>2. \A i \in 1..Len(sources) : SourceIs(U32_MAX, strings', sources[i], SourceRows[i])
    <2>1. \A written, s : SourceIs(U32_MAX, strings, written, s)
              => SourceIs(U32_MAX, strings', written, s)
      BY AtStays DEF SourceIs
    <2>2. QED
      BY <2>1 DEF SourcesInv
  <1>3. CASE WriteSource
    <2>1. /\ stage = "sources" /\ stage' = "sources" /\ at' = at + 1 /\ at < Len(SourceRows)
      BY <1>3 DEF WriteSource, Doing, Step
    <2>2. at = Len(sources)
      BY <1>1, <2>1
    <2>3. PICK new \in Seq(Texts), r \in Form :
              /\ strings' = new /\ sources' = Append(sources, r)
              /\ At(U32_MAX, new, r.locator, SourceRows[at + 1].locator)
              /\ IF SourceRows[at + 1].alias = NoText THEN r.alias = 0
                 ELSE At(U32_MAX, new, r.alias, SourceRows[at + 1].alias)
              /\ r.status = SourceRows[at + 1].status
      BY <1>3, WritesSource
    <2> HIDE DEF Form
    <2>4. /\ sources' \in Seq(Form) /\ Len(sources') = Len(sources) + 1
          /\ \A i \in 1..Len(sources) : sources'[i] = sources[i]
          /\ sources'[Len(sources) + 1] = r
      BY <1>1, <2>3, AppendProperties
    <2>5. SourceIs(U32_MAX, strings', r, SourceRows[at + 1])
      BY <2>3 DEF SourceIs
    <2>6. \A i \in 1..Len(sources') : i \in 1..Len(sources) \/ i = Len(sources) + 1
      BY <1>1, <2>4
    <2>7. \A i \in 1..Len(sources') : SourceIs(U32_MAX, strings', sources'[i], SourceRows[i])
      BY <1>2, <2>2, <2>4, <2>5, <2>6
    <2>8. Len(sources') <= Len(SourceRows) /\ at' = Len(sources')
      <3>1. Len(SourceRows) \in Nat
        BY SourceRowsAre DEF Begun
      <3>2. QED
        BY <1>1, <2>1, <2>2, <2>4, <3>1
    <2>9. stage' \notin {"nodes", "edges"} /\ stage' \notin {"evidence", "layout", "done"}
      BY <2>1
    <2>10. QED
      BY <2>4, <2>7, <2>8, <2>9, Same DEF SourcesInv, Form
  <1>4. CASE ~WriteSource
    <2>1. sources' = sources
      BY <1>4, WhoWrites
    <2>2. stage' \in {"nodes", "edges"} => sources = <<>>
      BY <1>1, <1>4, SourcesStage
    <2>3. stage' = "sources" => at' = Len(sources)
      <3>1. CASE stage = "sources" /\ at' = at
        BY <1>1, <3>1
      <3>2. CASE stage = "edges" /\ at' = 0
        BY <1>1, <3>2
      <3>3. QED
        BY <1>4, <3>1, <3>2, SourcesStage
    <2>4. stage' \in {"evidence", "layout", "done"} => Len(sources) = Len(SourceRows)
      <3>1. CASE stage \in {"evidence", "layout", "done"}
        BY <1>1, <3>1
      <3>2. CASE stage = "sources" /\ at = Len(SourceRows)
        BY <1>1, <3>2
      <3>3. QED
        BY <1>4, <3>1, <3>2, SourcesStage
    <2>5. QED
      BY <1>1, <1>2, <2>1, <2>2, <2>3, <2>4, Same DEF SourcesInv
  <1>5. QED
    BY <1>3, <1>4

LEMMA EvidenceStage ==
  ASSUME [Next]_vars, ~WriteEvidence
  PROVE  /\ stage' \in {"nodes", "edges", "sources"} => stage \in {"nodes", "edges", "sources"}
         /\ stage' = "evidence" =>
                (stage = "evidence" /\ at' = at) \/ (stage = "sources" /\ at' = 0)
         /\ stage' \in {"layout", "done"} =>
                \/ stage \in {"layout", "done"}
                \/ stage = "evidence" /\ at = Len(NodeRows)
  BY DEF Next, vars, rows, PlaceNode, TooManyNodes, NodesPlaced, WriteEdge, TooManyEdges, DropEdge,
         EdgesWritten, WriteSource, SourcesWritten, EvidenceWritten, Assemble,
         DoesNotFit, Refuse, Step, Finished, Doing, Carried

LEMMA EvidenceStays ==
  ASSUME Begun, EvidenceInv, [Next]_vars
  PROVE  \A i \in 1..Len(evidence) : EvidenceIs(NodeRows, U32_MAX, strings', evidence[i])
  <1>1. \A r : EvidenceIs(NodeRows, U32_MAX, strings, r)
            => EvidenceIs(NodeRows, U32_MAX, strings', r)
    BY AtStays DEF EvidenceIs
  <1>2. QED
    BY <1>1 DEF EvidenceInv

\* A node without a path is passed over.
LEMMA PassesOver ==
  ASSUME Begun, EvidenceInv, WriteEvidence, WithPath(Row) = {}
  PROVE  EvidenceInv'
  <1>1. /\ stage = "evidence" /\ stage' = "evidence" /\ at' = at + 1 /\ at < Len(NodeRows)
        /\ [Next]_vars
    BY DEF WriteEvidence, Doing, Step, Next
  <1>2. evidence' = evidence
    BY WritesEvidence
  <1>3. at + 1 \in 1..Len(NodeRows) /\ Row = NodeRows[at + 1].row /\ at \in Nat
    BY <1>1, RowIs DEF Begun
  <1>4. evidence \in Seq([node : U32, path : U32, line : Nat])
    BY DEF EvidenceInv
  <1>5. \A i \in 1..Len(evidence) : evidence[i].node < at + 1
    <2>1. SUFFICES ASSUME NEW i \in 1..Len(evidence) PROVE evidence[i].node < at + 1
      OBVIOUS
    <2>2. evidence[i].node < at
      BY <1>1 DEF EvidenceInv
    <2>3. evidence[i] \in [node : U32, path : U32, line : Nat]
      BY <1>4, ElementOfSeq
    <2>4. evidence[i].node \in Int
      BY <2>3 DEF U32
    <2>5. QED
      BY <1>3, <2>2, <2>4
  <1>6. \A n \in 1..(at + 1) : WithPath(NodeRows[n].row) # {} => Listed(evidence, n)
    <2>1. \A n \in 1..at : WithPath(NodeRows[n].row) # {} => Listed(evidence, n)
      BY <1>1 DEF EvidenceInv
    <2>2. \A n \in 1..(at + 1) : n \in 1..at \/ n = at + 1
      BY <1>3
    <2>3. QED
      BY <1>3, <2>1, <2>2
  <1>7. \A i \in 2..Len(evidence) : evidence[i - 1].node < evidence[i].node
    BY DEF EvidenceInv
  <1>8. at + 1 <= Len(NodeRows)
    BY <1>3, NodeRowsAre DEF Begun
  <1>9. stage' \notin {"nodes", "edges", "sources"} /\ stage' \notin {"layout", "done"}
    BY <1>1
  <1>10. QED
    BY <1>1, <1>2, <1>4, <1>5, <1>6, <1>7, <1>8, <1>9, Same, EvidenceStays DEF EvidenceInv

\* The first place of a node with a path is listed, behind those of the nodes before.
LEMMA Lists ==
  ASSUME Begun, NodesInv, PositionInv, EvidenceInv, WriteEvidence, WithPath(Row) # {}
  PROVE  EvidenceInv'
  <1> DEFINE Form == [node : U32, path : U32, line : Nat]
  <1>1. /\ stage = "evidence" /\ stage' = "evidence" /\ at' = at + 1 /\ at < Len(NodeRows)
        /\ [Next]_vars
    BY DEF WriteEvidence, Doing, Step, Next
  <1>2. /\ at + 1 \in 1..Len(NodeRows) /\ Row = NodeRows[at + 1].row
        /\ Source = NodeRows[at + 1].source /\ Row \in Node /\ at \in Nat
    BY <1>1, RowIs DEF Begun
  <1>3. NodeIndex(Source, Row.id) = at
    <2>1. Len(nodes) = Len(NodeRows)
      BY <1>1 DEF NodesInv, Later
    <2>2. position[KeyOf(NodeRows[at + 1])] = (at + 1) - 1
      BY <1>2, <2>1 DEF PositionInv
    <2>3. KeyOf(NodeRows[at + 1]) = <<Source, Row.id>>
      BY <1>2 DEF KeyOf
    <2>4. QED
      BY <1>2, <2>2, <2>3 DEF NodeIndex
  <1>4. PICK new \in Seq(Texts), p \in U32 :
            /\ strings' = new
            /\ At(U32_MAX, new, p, PlaceOf(Row).path)
            /\ evidence' = Append(evidence, [node |-> NodeIndex(Source, Row.id),
                                             path |-> p, line |-> PlaceOf(Row).line])
    BY WritesEvidence
  <1>5. PICK r : r = [node |-> at, path |-> p, line |-> PlaceOf(Row).line]
    OBVIOUS
  <1>6. r.node = at /\ r.path = p /\ r.line = PlaceOf(Row).line /\ evidence' = Append(evidence, r)
    BY <1>3, <1>4, <1>5
  <1>7. at \in U32
    <2>1. Len(nodes) = Len(NodeRows) /\ Len(nodes) \in U32
      BY <1>1 DEF NodesInv, Later
    <2>2. U32_MAX \in Nat
      BY Written DEF Begun
    <2>3. QED
      BY <1>2, <2>1, <2>2 DEF U32
  <1>8. PlaceOf(Row).line \in Nat
    <2>1. PICK row : row = Row
      OBVIOUS
    <2>2. row \in Node /\ WithPath(row) # {}
      BY <1>2, <2>1
    <2>3. QED
      BY <2>1, <2>2, PlaceIs
  <1>9. r \in Form
    BY <1>4, <1>5, <1>7, <1>8
  <1>10. evidence \in Seq(Form) /\ Len(evidence) \in Nat
    BY DEF EvidenceInv
  <1>11. \A i \in 1..Len(evidence) : evidence[i].node < at /\ evidence[i].node \in Nat
    <2>1. \A i \in 1..Len(evidence) : evidence[i] \in Form
      <3> HIDE DEF Form
      <3>1. QED
        BY <1>10, ElementOfSeq
    <2>2. \A i \in 1..Len(evidence) : evidence[i].node \in Nat
      BY <2>1 DEF U32
    <2>3. QED
      BY <1>1, <2>2 DEF EvidenceInv
  <1>12. EvidenceIs(NodeRows, U32_MAX, strings', r)
    BY <1>2, <1>4, <1>6 DEF EvidenceIs
  <1> HIDE DEF Form
  <1>13. /\ evidence' \in Seq(Form) /\ Len(evidence') = Len(evidence) + 1
         /\ \A i \in 1..Len(evidence) : evidence'[i] = evidence[i]
         /\ evidence'[Len(evidence) + 1] = r
    BY <1>6, <1>9, <1>10, AppendProperties
  <1>14. \A i \in 1..Len(evidence') : i \in 1..Len(evidence) \/ i = Len(evidence) + 1
    BY <1>10, <1>13
  <1>15. \A i \in 1..Len(evidence') : EvidenceIs(NodeRows, U32_MAX, strings', evidence'[i])
    BY <1>1, <1>12, <1>13, <1>14, EvidenceStays
  <1>16. \A i \in 2..Len(evidence') : evidence'[i - 1].node < evidence'[i].node
    <2>1. SUFFICES ASSUME NEW i \in 2..Len(evidence')
                   PROVE  evidence'[i - 1].node < evidence'[i].node
      OBVIOUS
    <2>2. CASE i \in 2..Len(evidence)
      <3>1. i - 1 \in 1..Len(evidence) /\ i \in 1..Len(evidence)
        BY <1>10, <2>2
      <3>2. evidence[i - 1].node < evidence[i].node
        BY <2>2 DEF EvidenceInv
      <3>3. QED
        BY <1>13, <3>1, <3>2
    <2>3. CASE i \notin 2..Len(evidence)
      <3>1. i = Len(evidence) + 1 /\ i - 1 \in 1..Len(evidence)
        BY <1>10, <1>13, <2>3
      <3>2. evidence'[i].node = at /\ evidence'[i - 1] = evidence[i - 1]
        BY <1>6, <1>13, <3>1
      <3>3. QED
        BY <1>11, <3>1, <3>2
    <2>4. QED
      BY <2>2, <2>3
  <1>17. \A i \in 1..Len(evidence') : evidence'[i].node < at + 1
    <2>1. SUFFICES ASSUME NEW i \in 1..Len(evidence') PROVE evidence'[i].node < at + 1
      OBVIOUS
    <2>2. CASE i \in 1..Len(evidence)
      <3>1. evidence'[i].node < at /\ evidence'[i].node \in Nat
        BY <1>11, <1>13, <2>2
      <3>2. QED
        BY <1>2, <3>1
    <2>3. CASE i = Len(evidence) + 1
      <3>1. evidence'[i].node = at
        BY <1>6, <1>13, <2>3
      <3>2. QED
        BY <1>2, <3>1
    <2>4. QED
      BY <1>14, <2>2, <2>3
  <1>18. \A n \in 1..(at + 1) : WithPath(NodeRows[n].row) # {} => Listed(evidence', n)
    <2>1. SUFFICES ASSUME NEW n \in 1..(at + 1), WithPath(NodeRows[n].row) # {}
                   PROVE  Listed(evidence', n)
      OBVIOUS
    <2>2. CASE n \in 1..at
      <3>1. Listed(evidence, n)
        BY <1>1, <2>1, <2>2 DEF EvidenceInv
      <3>2. PICK i \in 1..Len(evidence) : evidence[i].node = n - 1
        BY <3>1 DEF Listed
      <3>3. i \in 1..Len(evidence') /\ evidence'[i].node = n - 1
        BY <1>10, <1>13, <3>2
      <3>4. QED
        BY <3>3 DEF Listed
    <2>3. CASE n = at + 1
      <3>1. Len(evidence) + 1 \in 1..Len(evidence') /\ n - 1 = at
        BY <1>2, <1>10, <1>13, <2>3
      <3>2. evidence'[Len(evidence) + 1].node = n - 1
        BY <1>6, <1>13, <3>1
      <3>3. QED
        BY <3>1, <3>2 DEF Listed
    <2>4. n \in 1..at \/ n = at + 1
      BY <1>2
    <2>5. QED
      BY <2>2, <2>3, <2>4
  <1>19. at + 1 <= Len(NodeRows)
    BY <1>2, NodeRowsAre DEF Begun
  <1>20. stage' \notin {"nodes", "edges", "sources"} /\ stage' \notin {"layout", "done"}
    BY <1>1
  <1>21. QED
    BY <1>1, <1>13, <1>15, <1>16, <1>17, <1>18, <1>19, <1>20, Same DEF EvidenceInv, Form

LEMMA EvidenceStep ==
  ASSUME Begun, NodesInv, PositionInv, EvidenceInv, [Next]_vars
  PROVE  EvidenceInv'
  <1>1. CASE WriteEvidence
    BY <1>1, PassesOver, Lists
  <1>2. CASE ~WriteEvidence
    <2>1. evidence' = evidence
      BY <1>2, WhoWrites
    <2>2. /\ evidence \in Seq([node : U32, path : U32, line : Nat])
          /\ \A i \in 2..Len(evidence) : evidence[i - 1].node < evidence[i].node
      BY DEF EvidenceInv
    <2>3. stage' \in {"nodes", "edges", "sources"} => evidence = <<>>
      BY <1>2, EvidenceStage DEF EvidenceInv
    <2>4. stage' = "evidence" =>
              /\ at' <= Len(NodeRows)
              /\ \A i \in 1..Len(evidence) : evidence[i].node < at'
              /\ \A n \in 1..at' : WithPath(NodeRows[n].row) # {} => Listed(evidence, n)
      <3>1. CASE stage = "evidence" /\ at' = at
        BY <3>1 DEF EvidenceInv
      <3>2. CASE stage = "sources" /\ at' = 0
        <4>1. evidence = <<>> /\ Len(NodeRows) \in Nat
          BY <3>2, NodeRowsAre DEF EvidenceInv, Begun
        <4>2. QED
          BY <3>2, <4>1
      <3>3. QED
        BY <1>2, <3>1, <3>2, EvidenceStage
    <2>5. stage' \in {"layout", "done"} =>
              \A n \in 1..Len(NodeRows) : WithPath(NodeRows[n].row) # {} => Listed(evidence, n)
      <3>1. CASE stage \in {"layout", "done"}
        BY <3>1 DEF EvidenceInv
      <3>2. CASE stage = "evidence" /\ at = Len(NodeRows)
        BY <3>2 DEF EvidenceInv
      <3>3. QED
        BY <1>2, <3>1, <3>2, EvidenceStage
    <2>6. QED
      BY <2>1, <2>2, <2>3, <2>4, <2>5, Same, EvidenceStays DEF EvidenceInv
  <1>3. QED
    BY <1>1, <1>2

-----------------------------------------------------------------------------
(* The layout.                                                             *)

Kinds == {"Strings", "NodeIds", "NodeLabels", "NodeSources", "EdgeEndpoints", "EdgeRelations",
          "Sources", "Evidence"}
Entry == [kind : Kinds, offset : Nat, length : Nat]
Layer == [refused : BOOLEAN, end : Nat, table : Seq(Entry)]
Payload == [kind : Kinds, length : Nat]

LEMMA LaidTyped ==
  ASSUME federation \in Federations, NEW before \in Layer, NEW section \in Payload
  PROVE  Laid(before, section) \in Layer
  <1>1. /\ before.end \in Nat /\ before.table \in Seq(Entry) /\ before.refused \in BOOLEAN
        /\ section.kind \in Kinds /\ section.length \in Nat
    BY DEF Layer, Payload
  <1>2. CASE before.refused \/ ~Fits(section.length) \/ ~Fits(before.end + section.length)
    <2>1. Laid(before, section) = [before EXCEPT !.refused = TRUE]
      BY <1>2 DEF Laid
    <2>2. QED
      BY <2>1 DEF Layer
  <1>3. CASE ~(before.refused \/ ~Fits(section.length) \/ ~Fits(before.end + section.length))
    <2>1. PICK entry : entry = [kind |-> section.kind, offset |-> before.end,
                                length |-> section.length]
      OBVIOUS
    <2>2. entry \in Entry
      BY <1>1, <2>1 DEF Entry
    <2>3. Append(before.table, entry) \in Seq(Entry)
      BY <1>1, <2>2
    <2>4. before.end + section.length \in Nat
      BY <1>1
    <2>5. Laid(before, section) = [refused |-> FALSE, end |-> before.end + section.length,
                                   table |-> Append(before.table, entry)]
      BY <1>3, <2>1 DEF Laid
    <2>6. QED
      BY <2>3, <2>4, <2>5 DEF Layer
  <1>4. QED
    BY <1>2, <1>3

\* The sections, one behind the other.
LEMMA LaidUptoIs ==
  ASSUME federation \in Federations, NEW start \in Layer, NEW sections \in Seq(Payload)
  PROVE  /\ LaidUpto(start, sections) \in [0..Len(sections) -> Layer]
         /\ LaidUpto(start, sections)[0] = start
         /\ \A i \in 1..Len(sections) : LaidUpto(start, sections)[i] = Laid(LaidUpto(start, sections)[i - 1], sections[i])
  <1> DEFINE n == Len(sections)
             F == [x \in (1..n) \X Layer |-> Laid(x[2], sections[x[1]])]
             Fill(g) == g = [i \in 0..n |-> IF i = 0 THEN start
                                            ELSE Laid(g[i - 1], sections[i])]
  <1>1. n \in Nat
    OBVIOUS
  <1>2. start \in Layer
    OBVIOUS
  <1>3. \A i \in 1..n, s \in Layer : Laid(s, sections[i]) \in Layer
    <2>1. \A i \in 1..n : sections[i] \in Payload
      OBVIOUS
    <2> HIDE DEF n
    <2>2. QED
      BY <2>1, LaidTyped
  <1>4. F \in [(1..n) \X Layer -> Layer]
    BY <1>3
  <1>5. PICK g \in [0..n -> Layer] : Follows(n, start, F, g)
    <2>1. n \in Nat
      BY <1>1
    <2> HIDE DEF n, F
    <2>2. QED
      BY <1>2, <1>4, <2>1, Recursion
  <1>6. \A i \in 1..n : g[i] = Laid(g[i - 1], sections[i])
    <2>1. SUFFICES ASSUME NEW i \in 1..n
                   PROVE  g[i] = Laid(g[i - 1], sections[i])
      OBVIOUS
    <2>2. <<i, g[i - 1]>> \in (1..n) \X Layer
      <3>1. i - 1 \in 0..n
        BY <1>1
      <3>2. g[i - 1] \in Layer
        BY <1>5, <3>1
      <3>3. QED
        BY <3>2
    <2>3. F[<<i, g[i - 1]>>] = Laid(g[i - 1], sections[i])
      BY <2>2
    <2>4. QED
      BY <1>5, <2>3 DEF Follows
  <1>7. Fill(g)
    <2>1. g = [i \in 0..n |-> g[i]]
      BY <1>5
    <2>2. \A i \in 0..n : g[i] = IF i = 0 THEN start ELSE Laid(g[i - 1], sections[i])
      <3>1. g[0] = start /\ \A i \in 0..n : i = 0 \/ i \in 1..n
        BY <1>1, <1>5 DEF Follows
      <3> HIDE DEF n
      <3>2. QED
        BY <1>1, <1>6, <3>1
    <2>3. QED
      BY <2>1, <2>2
  <1>8. Fill(LaidUpto(start, sections))
    BY <1>7 DEF LaidUpto
  <1>9. /\ \A i \in 0..n : LaidUpto(start, sections)[i] = IF i = 0 THEN start
                                        ELSE Laid(LaidUpto(start, sections)[i - 1], sections[i])
        /\ LaidUpto(start, sections) = [i \in 0..n |-> LaidUpto(start, sections)[i]]
    BY <1>8
  <1> HIDE DEF F, Fill
  <1>10. /\ LaidUpto(start, sections)[0] = start
         /\ \A i \in 1..n : LaidUpto(start, sections)[i] = Laid(LaidUpto(start, sections)[i - 1], sections[i])
    <2>1. 0 \in 0..n /\ \A i \in 1..n : i \in 0..n /\ i # 0
      BY <1>1
    <2>2. QED
      BY <1>9, <2>1
  <1>11. \A i \in 0..n : LaidUpto(start, sections)[i] \in Layer
    <2>1. n \in Nat
      BY <1>1
    <2> HIDE DEF n
    <2>2. QED
      BY <1>2, <1>3, <1>10, <2>1, Stays
  <1>12. QED
    BY <1>9, <1>10, <1>11

\* What was laid out is in one piece from the base to the end, and within the limit.
Laying(l, base, sections, n, limit) ==
    /\ Len(l.table) = n /\ l.end \in 0..limit
    /\ \A i \in 1..n :
           /\ l.table[i].offset \in 0..limit /\ l.table[i].length \in 0..limit
           /\ l.table[i].length = sections[i].length
    /\ IF n = 0 THEN l.end = base ELSE l.table[1].offset = base
    /\ \A i \in 1..n :
           l.table[i].offset + l.table[i].length = IF i = n THEN l.end ELSE l.table[i + 1].offset

LEMMA LaysOne ==
  ASSUME NEW limit \in Nat, NEW n \in Nat \ {0}, NEW base, NEW sections,
         NEW l, l.table \in Seq(Entry), Laying(l, base, sections, n - 1, limit),
         sections[n] \in Payload, sections[n].length <= limit,
         l.end + sections[n].length <= limit,
         NEW next, next.end = l.end + sections[n].length,
         next.table = Append(l.table, [kind |-> sections[n].kind, offset |-> l.end,
                                       length |-> sections[n].length])
  PROVE  Laying(next, base, sections, n, limit)
  <1>1. l.end \in 0..limit /\ sections[n].length \in Nat /\ sections[n].kind \in Kinds
    BY DEF Laying, Payload
  <1>2. PICK e : e = [kind |-> sections[n].kind, offset |-> l.end, length |-> sections[n].length]
    OBVIOUS
  <1>3. e \in Entry /\ e.offset = l.end /\ e.length = sections[n].length
    BY <1>1, <1>2 DEF Entry
  <1>4. Len(l.table) = n - 1
    BY DEF Laying
  <1>5. /\ Len(next.table) = n
        /\ \A i \in 1..(n - 1) : next.table[i] = l.table[i]
        /\ next.table[n] = e
    <2>1. next.table = Append(l.table, e)
      BY <1>2
    <2>2. /\ Len(Append(l.table, e)) = Len(l.table) + 1
          /\ \A i \in 1..Len(l.table) : Append(l.table, e)[i] = l.table[i]
          /\ Append(l.table, e)[Len(l.table) + 1] = e
      BY <1>3, AppendProperties
    <2>3. (n - 1) + 1 = n
      OBVIOUS
    <2>4. QED
      BY <1>4, <2>1, <2>2, <2>3
  <1>6. next.end \in 0..limit
    BY <1>1
  <1>7. \A i \in 1..n : i \in 1..(n - 1) \/ i = n
    OBVIOUS
  <1>8. \A i \in 1..n : /\ next.table[i].offset \in 0..limit /\ next.table[i].length \in 0..limit
                        /\ next.table[i].length = sections[i].length
    <2>1. \A i \in 1..(n - 1) : /\ l.table[i].offset \in 0..limit /\ l.table[i].length \in 0..limit
                                /\ l.table[i].length = sections[i].length
      BY DEF Laying
    <2>2. sections[n].length \in 0..limit
      BY <1>1
    <2>3. QED
      BY <1>1, <1>3, <1>5, <1>7, <2>1, <2>2
  <1>9. next.table[1].offset = base
    <2>1. CASE n = 1
      BY <1>3, <1>5, <2>1 DEF Laying
    <2>2. CASE n # 1
      <3>1. 1 \in 1..(n - 1) /\ n - 1 # 0
        BY <2>2
      <3>2. l.table[1].offset = base
        BY <3>1 DEF Laying
      <3>3. QED
        BY <1>5, <3>1, <3>2
    <2>3. QED
      BY <2>1, <2>2
  <1>10. ASSUME NEW i \in 1..n
         PROVE  next.table[i].offset + next.table[i].length
                    = IF i = n THEN next.end ELSE next.table[i + 1].offset
    <2>1. CASE i = n
      BY <1>3, <1>5, <2>1
    <2>2. CASE i # n /\ i = n - 1
      <3>1. i \in 1..(n - 1) /\ i + 1 = n
        BY <2>2
      <3>2. l.table[i].offset + l.table[i].length = l.end
        BY <2>2, <3>1 DEF Laying
      <3>3. QED
        BY <1>3, <1>5, <2>2, <3>1, <3>2
    <2>3. CASE i # n /\ i # n - 1
      <3>1. i \in 1..(n - 1) /\ i + 1 \in 1..(n - 1)
        BY <2>3
      <3>2. l.table[i].offset + l.table[i].length = l.table[i + 1].offset
        BY <2>3, <3>1 DEF Laying
      <3>3. QED
        BY <1>5, <2>3, <3>1, <3>2
    <2>4. QED
      BY <2>1, <2>2, <2>3
  <1>11. n # 0
    OBVIOUS
  <1>12. QED
    BY <1>5, <1>6, <1>8, <1>9, <1>10, <1>11 DEF Laying

LEMMA LaidOut ==
  ASSUME federation \in Federations, NEW start \in Layer, NEW sections \in Seq(Payload),
         start.table = <<>>, ~start.refused => start.end <= U32_MAX
  PROVE  ~LaidUpto(start, sections)[Len(sections)].refused
             => Laying(LaidUpto(start, sections)[Len(sections)], start.end, sections,
                       Len(sections), U32_MAX)
  <1> DEFINE n == Len(sections)
             L == LaidUpto(start, sections)
             S == {k \in 0..n : ~L[k].refused => Laying(L[k], start.end, sections, k, U32_MAX)}
  <1>1. n \in Nat /\ U32_MAX \in Nat
    BY Written
  <1>2. /\ L \in [0..n -> Layer] /\ L[0] = start
        /\ \A k \in 1..n : L[k] = Laid(L[k - 1], sections[k])
    BY LaidUptoIs
  <1>3. 0 \in S
    <2>1. start.end \in Nat
      BY DEF Layer
    <2>2. ASSUME ~start.refused
          PROVE  Laying(start, start.end, sections, 0, U32_MAX)
      <3>1. start.end \in 0..U32_MAX /\ Len(start.table) = 0
        BY <1>1, <2>1, <2>2
      <3>2. QED
        BY <3>1 DEF Laying
    <2>3. 0 \in 0..n
      BY <1>1
    <2>4. QED
      BY <1>2, <2>2, <2>3
  <1>4. \A k \in 1..n : k - 1 \in S => k \in S
    <2>1. SUFFICES ASSUME NEW k \in 1..n, k - 1 \in S, ~L[k].refused
                   PROVE  Laying(L[k], start.end, sections, k, U32_MAX)
      BY <1>1
    <2>2. PICK l, next : l = L[k - 1] /\ next = L[k]
      OBVIOUS
    <2>3. l \in Layer /\ k \in Nat \ {0} /\ sections[k] \in Payload
      <3>1. k - 1 \in 0..n /\ k \in Nat \ {0} /\ sections[k] \in Payload
        BY <1>1
      <3> HIDE DEF n
      <3>2. QED
        BY <1>2, <2>2, <3>1
    <2>4. next = Laid(l, sections[k])
      BY <1>2, <2>2
    <2>5. ~l.refused /\ Fits(sections[k].length) /\ Fits(l.end + sections[k].length)
      <3>1. CASE l.refused \/ ~Fits(sections[k].length) \/ ~Fits(l.end + sections[k].length)
        <4>1. next = [l EXCEPT !.refused = TRUE]
          BY <2>4, <3>1 DEF Laid
        <4>2. next.refused = TRUE
          BY <2>3, <4>1 DEF Layer
        <4>3. QED
          BY <2>1, <2>2, <4>2
      <3>2. QED
        BY <3>1
    <2>6. next = [refused |-> FALSE, end |-> l.end + sections[k].length,
                  table |-> Append(l.table, [kind |-> sections[k].kind, offset |-> l.end,
                                             length |-> sections[k].length])]
      BY <2>4, <2>5 DEF Laid
    <2>7. /\ next.end = l.end + sections[k].length
          /\ next.table = Append(l.table, [kind |-> sections[k].kind, offset |-> l.end,
                                           length |-> sections[k].length])
      BY <2>6
    <2>8. Laying(l, start.end, sections, k - 1, U32_MAX)
      BY <2>1, <2>2, <2>5
    <2>9. sections[k].length <= U32_MAX /\ l.end + sections[k].length <= U32_MAX
      BY <2>5 DEF Fits
    <2>10. l.table \in Seq(Entry)
      BY <2>3 DEF Layer
    <2>11. PICK base, limit : base = start.end /\ limit = U32_MAX
      OBVIOUS
    <2>12. limit \in Nat
      BY <1>1, <2>11
    <2>13. Laying(next, base, sections, k, limit)
      BY <2>3, <2>7, <2>8, <2>9, <2>10, <2>11, <2>12, LaysOne
    <2>14. QED
      BY <2>2, <2>11, <2>13
  <1>5. 0..n \subseteq S
    <2>1. n \in Nat
      BY <1>1
    <2> HIDE DEF n, S
    <2>2. QED
      BY <1>3, <1>4, <2>1, IntervalInduct
  <1>6. n \in 0..n
    BY <1>1
  <1>7. QED
    BY <1>5, <1>6

\* The section of the texts has more bytes than there are texts.
LEMMA TextsHaveBytes ==
  ASSUME NEW texts \in Seq(Texts)
  PROVE  /\ BytesUpto(texts)[Len(texts)] \in Nat
         /\ BytesUpto(texts)[Len(texts)] >= Len(texts)
  <1> DEFINE n == Len(texts)
             g == BytesUpto(texts)
             S == {k \in 0..n : g[k] >= k}
  <1>1. n \in Nat
    OBVIOUS
  <1>2. /\ g \in [0..n -> Bytes] /\ g[0] = WORD
        /\ \A k \in 1..n : g[k] = Sized(g[k - 1], texts[k])
    BY BytesUptoIs
  <1>3. 0 \in S
    BY <1>1, <1>2 DEF WORD
  <1>4. \A k \in 1..n : k - 1 \in S => k \in S
    <2>1. SUFFICES ASSUME NEW k \in 1..n, k - 1 \in S PROVE g[k] >= k
      BY <1>1
    <2>2. k - 1 \in 0..n /\ k \in Nat /\ texts[k] \in Texts
      BY <1>1
    <2>3. PICK b \in Bytes : b = g[k - 1]
      <3> HIDE DEF n
      <3>1. QED
        BY <1>2, <2>2
    <2>4. b >= k - 1 /\ b \in Nat
      BY <2>1, <2>3 DEF Bytes
    <2>5. Size[texts[k]] \in Nat
      BY <2>2, ExchangeAssumption
    <2>6. g[k] = b + WORD + Size[texts[k]]
      BY <1>2, <2>3 DEF Sized
    <2>7. b + WORD + Size[texts[k]] >= k
      BY <2>2, <2>4, <2>5 DEF WORD
    <2>8. QED
      BY <2>6, <2>7
  <1>5. 0..n \subseteq S
    <2>1. n \in Nat
      BY <1>1
    <2> HIDE DEF n, S
    <2>2. QED
      BY <1>3, <1>4, <2>1, IntervalInduct
  <1>6. n \in 0..n
    BY <1>1
  <1>7. QED
    BY <1>2, <1>5, <1>6 DEF Bytes

LEMMA RequiredIs ==
  ASSUME StringBytes \in Nat, Len(nodes) \in Nat, Len(edges) \in Nat, Len(sources) \in Nat
  PROVE  /\ Required \in Seq(Payload) /\ Len(Required) = 7
         /\ Required[1].length = StringBytes
  <1>1. \A kind \in Kinds, length \in Nat : Section(kind, length) \in Payload
    BY DEF Section, Payload
  <1>2. /\ WORD * Len(nodes) \in Nat /\ WORD * Len(edges) \in Nat
        /\ 2 * WORD * Len(edges) \in Nat /\ 3 * WORD * Len(sources) \in Nat
    BY DEF WORD
  <1>3. /\ Section("Strings", StringBytes) \in Payload
        /\ Section("NodeIds", WORD * Len(nodes)) \in Payload
        /\ Section("NodeLabels", WORD * Len(nodes)) \in Payload
        /\ Section("NodeSources", WORD * Len(nodes)) \in Payload
        /\ Section("EdgeEndpoints", 2 * WORD * Len(edges)) \in Payload
        /\ Section("EdgeRelations", WORD * Len(edges)) \in Payload
        /\ Section("Sources", 3 * WORD * Len(sources)) \in Payload
    BY <1>1, <1>2 DEF Kinds
  <1>4. Section("Strings", StringBytes).length = StringBytes
    BY DEF Section
  <1>5. QED
    BY <1>3, <1>4 DEF Required

LEMMA SectionsAre ==
  ASSUME StringBytes \in Nat, Len(nodes) \in Nat, Len(edges) \in Nat, Len(sources) \in Nat,
         Len(evidence) \in Nat
  PROVE  /\ Sections \in Seq(Payload) /\ Len(Sections) \in Nat /\ Len(Sections) >= 7
         /\ Sections[1].length = StringBytes
  <1>1. /\ Required \in Seq(Payload) /\ Len(Required) = 7
        /\ Required[1].length = StringBytes
    BY RequiredIs
  <1>2. CASE evidence = <<>>
    <2>1. PICK all : all = Required
      OBVIOUS
    <2>2. Sections = all
      BY <1>2, <2>1 DEF Sections
    <2>3. all \in Seq(Payload) /\ Len(all) = 7 /\ all[1].length = StringBytes
      BY <1>1, <2>1
    <2>4. QED
      BY <2>2, <2>3
  <1>3. CASE evidence # <<>>
    <2>1. PICK last : last = Section("Evidence", WORD + 4 * WORD * Len(evidence))
      OBVIOUS
    <2>2. last \in Payload
      BY <2>1 DEF Section, Payload, WORD, Kinds
    <2>3. Sections = Append(Required, last)
      BY <1>3, <2>1 DEF Sections
    <2>4. /\ Append(Required, last) \in Seq(Payload)
          /\ Len(Append(Required, last)) = Len(Required) + 1
          /\ \A i \in 1..Len(Required) : Append(Required, last)[i] = Required[i]
      <3>1. PICK begin : begin = Required
        OBVIOUS
      <3>2. begin \in Seq(Payload)
        BY <1>1, <3>1
      <3>3. /\ Append(begin, last) \in Seq(Payload)
            /\ Len(Append(begin, last)) = Len(begin) + 1
            /\ \A i \in 1..Len(begin) : Append(begin, last)[i] = begin[i]
        BY <2>2, <3>2, AppendProperties
      <3>4. QED
        BY <3>1, <3>3
    <2>5. 1 \in 1..Len(Required)
      BY <1>1
    <2>6. QED
      BY <1>1, <2>3, <2>4, <2>5
  <1>4. QED
    BY <1>2, <1>3

\* A layout that is not refused is in one piece behind the table, and its sections
\* are all there is.
LEMMA LayoutIs ==
  ASSUME RowsInv, ~Layout.refused
  PROVE  /\ Len(Sections) \in Nat /\ Len(Sections) >= 7
         /\ Layout.table \in Seq(Entry)
         /\ Laying(Layout, HEADER_BYTES + ENTRY_BYTES * Len(Sections), Sections,
                   Len(Sections), U32_MAX)
         /\ Len(strings) <= U32_MAX
  <1> DEFINE end == HEADER_BYTES + ENTRY_BYTES * Len(Sections)
             start == [refused |-> ~(Fits(Len(sources)) /\ Fits(end)), end |-> end,
                       table |-> <<>>]
  <1>1. /\ federation \in Federations /\ strings \in Seq(Texts) /\ U32_MAX \in Nat
        /\ Len(nodes) \in Nat /\ Len(edges) \in Nat
        /\ Len(sources) \in Nat /\ Len(evidence) \in Nat
    <2>1. federation \in Federations /\ strings \in Seq(Texts)
      BY DEF RowsInv, Begun
    <2>2. U32_MAX \in Nat
      BY <2>1, Written
    <2>3. Len(nodes) \in Nat
      BY DEF RowsInv, NodesInv
    <2>4. Len(edges) \in Nat
      BY DEF RowsInv, EdgesInv
    <2>5. Len(sources) \in Nat
      BY DEF RowsInv, SourcesInv
    <2>6. Len(evidence) \in Nat
      BY DEF RowsInv, EvidenceInv
    <2>7. QED
      BY <2>1, <2>2, <2>3, <2>4, <2>5, <2>6
  <1>2. StringBytes \in Nat /\ StringBytes >= Len(strings)
    BY <1>1, TextsHaveBytes DEF StringBytes
  <1>3. /\ Sections \in Seq(Payload) /\ Len(Sections) \in Nat /\ Len(Sections) >= 7
        /\ Sections[1].length = StringBytes
    BY <1>1, <1>2, SectionsAre
  <1>4. end \in Nat
    BY <1>3 DEF HEADER_BYTES, ENTRY_BYTES
  <1>5. Layout = LaidUpto(start, Sections)[Len(Sections)]
    BY DEF Layout
  <1>6. start.table = <<>> /\ start.end = end
    OBVIOUS
  <1>7. ~start.refused => start.end <= U32_MAX
    BY DEF Fits
  <1>8. start \in Layer
    <2>1. (~(Fits(Len(sources)) /\ Fits(end))) \in BOOLEAN
      OBVIOUS
    <2>2. <<>> \in Seq(Entry)
      OBVIOUS
    <2> HIDE DEF end
    <2>3. QED
      BY <1>4, <2>1, <2>2 DEF Layer
  <1>9. PICK begin : begin = start
    OBVIOUS
  <1>10. PICK sections : sections = Sections
    OBVIOUS
  <1> HIDE DEF start
  <1>11. begin \in Layer /\ sections \in Seq(Payload)
    BY <1>3, <1>8, <1>9, <1>10
  <1>12. Laying(Layout, end, Sections, Len(Sections), U32_MAX)
    <2>1. begin.table = <<>> /\ (~begin.refused => begin.end <= U32_MAX) /\ begin.end = end
      BY <1>6, <1>7, <1>9
    <2>2. ~LaidUpto(begin, sections)[Len(sections)].refused
      BY <1>5, <1>9, <1>10
    <2>3. Laying(LaidUpto(begin, sections)[Len(sections)], begin.end, sections,
                 Len(sections), U32_MAX)
      BY <1>1, <1>11, <2>1, <2>2, LaidOut
    <2>4. QED
      BY <1>5, <1>9, <1>10, <2>1, <2>3
  <1>13. Layout.table \in Seq(Entry)
    <2>1. LaidUpto(begin, sections) \in [0..Len(sections) -> Layer]
      BY <1>1, <1>11, LaidUptoIs
    <2>2. Len(sections) \in 0..Len(sections)
      BY <1>3, <1>10
    <2>3. Layout \in Layer
      BY <1>5, <1>9, <1>10, <2>1, <2>2
    <2>4. QED
      BY <2>3 DEF Layer
  <1>14. Len(strings) <= U32_MAX
    <2>1. 1 \in 1..Len(Sections)
      BY <1>3
    <2>2. Layout.table[1].length = StringBytes /\ Layout.table[1].length \in 0..U32_MAX
      BY <1>3, <1>12, <2>1 DEF Laying
    <2>3. Len(strings) \in Nat
      BY <1>1
    <2>4. QED
      BY <1>1, <1>2, <2>2, <2>3
  <1>15. QED
    BY <1>3, <1>12, <1>13, <1>14

LEMMA TableStep ==
  ASSUME TableInv, [Next]_vars
  PROVE  TableInv'
  <1>1. CASE Assemble
    <2>1. /\ stage' = "done" /\ table' = Layout.table /\ ~Layout.refused
      BY <1>1 DEF Assemble, rows
    <2>2. UNCHANGED <<strings, nodes, edges, sources, evidence, federation>>
      BY <1>1 DEF Assemble, rows
    <2>3. Layout' = Layout
      BY <2>2 DEF Layout, Sections, Required, StringBytes, LaidUpto, Laid, Fits, U32_MAX
    <2>4. QED
      BY <2>1, <2>3 DEF TableInv
  <1>2. CASE ~Assemble
    <2>1. table' = table
      BY <1>2, WhoWrites
    <2>2. CASE UNCHANGED vars
      <3>1. UNCHANGED <<strings, nodes, edges, sources, evidence, federation>>
        BY <2>2 DEF vars, rows
      <3>2. Layout' = Layout
        BY <3>1 DEF Layout, Sections, Required, StringBytes, LaidUpto, Laid, Fits, U32_MAX
      <3>3. stage' = stage
        BY <2>2 DEF vars
      <3>4. QED
        BY <2>1, <3>2, <3>3 DEF TableInv
    <2>3. CASE Next
      <3>1. stage # "done" /\ stage' # "done"
        BY <1>2, <2>3 DEF Next, PlaceNode, TooManyNodes, NodesPlaced, WriteEdge, TooManyEdges,
           DropEdge, EdgesWritten, WriteSource, SourcesWritten, WriteEvidence, EvidenceWritten,
           DoesNotFit, Refuse, Step, Finished, Doing, Carried
      <3>2. QED
        BY <2>1, <3>1 DEF TableInv
    <2>4. QED
      BY <2>2, <2>3
  <1>3. QED
    BY <1>1, <1>2

LEMMA Starts ==
  ASSUME Init
  PROVE  RowsInv /\ TableInv
  <1>1. Begun
    <2>1. PICK empty : empty = ""
      OBVIOUS
    <2>2. empty \in Texts
      BY <2>1, ExchangeAssumption
    <2>3. strings = <<empty>>
      BY <2>1 DEF Init
    <2>4. strings \in Seq(Texts) /\ Len(strings) = 1
      BY <2>2, <2>3
    <2>5. federation \in Federations /\ stage = "nodes" /\ at = 0
      BY DEF Init
    <2>6. QED
      BY <2>4, <2>5 DEF Begun, Stages
  <1>2. /\ U32_MAX \in Nat /\ Len(NodeRows) \in Nat /\ Len(SourceRows) \in Nat
    BY <1>1, Written, NodeRowsAre, SourceRowsAre DEF Begun
  <1>3. /\ stage = "nodes" /\ at = 0 /\ nodes = <<>> /\ edges = <<>> /\ sources = <<>>
        /\ evidence = <<>> /\ position = <<>> /\ first = <<>> /\ table = <<>>
    BY DEF Init
  <1>4. Len(nodes) = 0 /\ Len(edges) = 0 /\ Len(sources) = 0 /\ Len(evidence) = 0
    BY <1>3
  <1>5. NodesInv
    BY <1>2, <1>3, <1>4 DEF NodesInv, U32, Later
  <1>6. PositionInv
    BY <1>3, <1>4 DEF PositionInv
  <1>7. FirstInv
    BY <1>3 DEF FirstInv, Later
  <1>8. EdgesInv
    BY <1>2, <1>3, <1>4 DEF EdgesInv, U32, Later
  <1>9. SourcesInv
    BY <1>2, <1>3, <1>4 DEF SourcesInv
  <1>10. EvidenceInv
    BY <1>3, <1>4 DEF EvidenceInv
  <1>11. TableInv
    BY <1>3 DEF TableInv
  <1>12. QED
    BY <1>1, <1>5, <1>6, <1>7, <1>8, <1>9, <1>10, <1>11 DEF RowsInv

\* Every step keeps the invariant.
LEMMA Steps ==
  ASSUME RowsInv, TableInv, [Next]_vars
  PROVE  RowsInv' /\ TableInv'
  <1>1. Begun /\ NodesInv /\ PositionInv /\ FirstInv /\ EdgesInv /\ SourcesInv /\ EvidenceInv
    BY DEF RowsInv
  <1>2. Begun' /\ NodesInv' /\ PositionInv' /\ FirstInv' /\ EdgesInv'
    BY <1>1, BegunStep, NodesStep, PositionStep, FirstStep, EdgesStep
  <1>3. SourcesInv' /\ EvidenceInv' /\ TableInv'
    BY <1>1, SourcesStep, EvidenceStep, TableStep
  <1>4. QED
    BY <1>2, <1>3 DEF RowsInv

LEMMA Always == Spec => [](RowsInv /\ TableInv)
  <1>1. Init => RowsInv /\ TableInv
    BY Starts
  <1>2. RowsInv /\ TableInv /\ [Next]_vars => (RowsInv /\ TableInv)'
    BY Steps
  <1>3. QED
    BY <1>1, <1>2, PTL DEF Spec

-----------------------------------------------------------------------------
(* What the invariant says of a container.                                 *)

LEMMA TypedThen ==
  ASSUME RowsInv, TableInv
  PROVE  TypeOK
  <1>1. /\ federation \in Federations /\ stage \in Stages /\ at \in Nat /\ strings \in Seq(Texts)
    BY DEF RowsInv, Begun
  <1>2. U32_MAX \in Nat
    BY <1>1, Written
  <1>3. /\ nodes \in Seq([id : U32, label : U32, source : U32]) /\ Len(nodes) \in U32
        /\ Len(nodes) \in Nat /\ Len(nodes) <= U32_MAX /\ Len(nodes) <= Len(NodeRows)
    BY <1>2 DEF RowsInv, NodesInv, U32
  <1>4. \A i \in 1..Len(nodes) : i - 1 \in U32 /\ i \in 1..Len(NodeRows)
    BY <1>1, <1>2, <1>3, NodeRowsAre DEF U32
  <1>5. \A k \in DOMAIN position : k \in Graphs \X Texts /\ position[k] \in U32
    <2>1. SUFFICES ASSUME NEW k \in DOMAIN position
                   PROVE  k \in Graphs \X Texts /\ position[k] \in U32
      OBVIOUS
    <2>2. PICK i \in 1..Len(nodes) : k = KeyOf(NodeRows[i]) /\ position[k] = i - 1
      BY PositionIs DEF RowsInv
    <2>3. i \in 1..Len(NodeRows) /\ i - 1 \in U32
      BY <1>4
    <2>4. NodeRows[i].source \in Graphs /\ NodeRows[i].row \in Node
      BY <1>1, <2>3, NodeRowsAre
    <2>5. NodeRows[i].row.id \in Texts
      BY <2>4 DEF Node
    <2>6. k \in Graphs \X Texts
      BY <2>2, <2>4, <2>5 DEF KeyOf
    <2>7. QED
      BY <2>2, <2>3, <2>6
  <1>6. \A id \in DOMAIN first : first[id] \in U32
    BY <1>4 DEF RowsInv, FirstInv
  <1>7. /\ edges \in Seq([from : U32, to : U32, relation : U32]) /\ Len(edges) \in U32
    BY DEF RowsInv, EdgesInv
  <1>8. sources \in Seq([locator : U32, alias : U32, kind : 0..2, status : 0..1])
    BY DEF RowsInv, SourcesInv
  <1>9. evidence \in Seq([node : U32, path : U32, line : Nat])
    BY DEF RowsInv, EvidenceInv
  <1>10. \A i \in DOMAIN table : table[i].offset \in U32 /\ table[i].length \in U32
    <2>1. CASE stage = "done"
      <3>1. table = Layout.table /\ ~Layout.refused
        BY <2>1 DEF TableInv
      <3>2. /\ Layout.table \in Seq(Entry) /\ Len(Sections) \in Nat
            /\ Laying(Layout, HEADER_BYTES + ENTRY_BYTES * Len(Sections), Sections,
                      Len(Sections), U32_MAX)
        BY <3>1, LayoutIs
      <3>3. DOMAIN table = 1..Len(Sections)
        BY <3>1, <3>2 DEF Laying
      <3>4. QED
        BY <3>1, <3>2, <3>3 DEF Laying, U32
    <2>2. CASE stage # "done"
      BY <2>2 DEF TableInv
    <2>3. QED
      BY <2>1, <2>2
  <1>11. QED
    BY <1>1, <1>3, <1>5, <1>6, <1>7, <1>8, <1>9, <1>10 DEF TypeOK

\* In a container no index is clipped: what is at it is read back.
LEMMA AllRead ==
  ASSUME RowsInv, TableInv, stage = "done"
  PROVE  /\ \A n, text : At(U32_MAX, strings, n, text) =>
                n \in 0..(Len(strings) - 1) /\ strings[n + 1] = text
         /\ federation \in Federations
         /\ Len(nodes) = Len(NodeRows) /\ Len(nodes) \in Nat
         /\ Len(sources) = Len(SourceRows) /\ Len(sources) \in Nat
         /\ Matches(Whole)
  <1>1. ~Layout.refused
    BY DEF TableInv
  <1>2. U32_MAX \in Nat /\ strings \in Seq(Texts) /\ federation \in Federations
    BY Written DEF RowsInv, Begun
  <1>3. PICK texts, limit : texts = strings /\ limit = U32_MAX
    OBVIOUS
  <1>4. texts \in Seq(Texts) /\ limit \in Nat /\ Len(texts) <= limit
    BY <1>1, <1>2, <1>3, LayoutIs
  <1>5. \A n, text : At(limit, texts, n, text) =>
            n \in 0..(Len(texts) - 1) /\ texts[n + 1] = text
    BY <1>4, AtReads
  <1>6. Len(nodes) = Len(NodeRows)
    BY DEF RowsInv, NodesInv, Later
  <1>7. Len(nodes) \in Nat
    BY DEF RowsInv, NodesInv
  <1>8. Len(sources) = Len(SourceRows)
    BY DEF RowsInv, SourcesInv
  <1>9. Len(sources) \in Nat
    BY DEF RowsInv, SourcesInv
  <1>10. Matches(Whole)
    BY DEF RowsInv, EdgesInv, Later
  <1>11. QED
    BY <1>2, <1>3, <1>5, <1>6, <1>7, <1>8, <1>9, <1>10

LEMMA InsideThen ==
  ASSUME RowsInv, TableInv
  PROVE  IndicesInside
  <1>1. SUFFICES ASSUME stage = "done" PROVE IndicesInside
    BY DEF IndicesInside
  <1> DEFINE InTexts == 0..(Len(strings) - 1)
             InNodes == 0..(Len(nodes) - 1)
  <1>2. \A n, text : At(U32_MAX, strings, n, text) => n \in InTexts
    BY <1>1, AllRead
  <1>3. /\ federation \in Federations /\ Len(nodes) = Len(NodeRows) /\ Len(nodes) \in Nat
        /\ Len(sources) = Len(SourceRows) /\ Len(sources) \in Nat /\ Matches(Whole)
    BY <1>1, AllRead
  <1>4. ASSUME NEW i \in 1..Len(nodes)
        PROVE  /\ nodes[i].id \in InTexts /\ nodes[i].label \in InTexts
               /\ nodes[i].source \in 0..(Len(sources) - 1)
    <2>1. /\ At(U32_MAX, strings, nodes[i].id, NodeRows[i].row.id)
          /\ At(U32_MAX, strings, nodes[i].label, NodeRows[i].row.label)
          /\ nodes[i].source = NodeRows[i].source - 1
      BY DEF RowsInv, NodesInv
    <2>2. NodeRows[i].source \in Graphs
      BY <1>3, NodeRowsAre
    <2>3. /\ Graphs = 1..Len(federation.sources) /\ Len(federation.sources) \in Nat
          /\ Len(SourceRows) >= Len(federation.sources)
      BY <1>3, Written, SourceRowsAre
    <2>4. NodeRows[i].source - 1 \in 0..(Len(sources) - 1)
      BY <1>3, <2>2, <2>3
    <2>5. QED
      BY <1>2, <2>1, <2>4
  <1>5. ASSUME NEW i \in 1..Len(edges)
        PROVE  /\ edges[i].from \in InNodes /\ edges[i].to \in InNodes
               /\ edges[i].relation \in InTexts
    <2>1. EdgeIs(NodeRows, Len(nodes), U32_MAX, strings, edges[i], Whole[i])
      BY <1>3 DEF Matches
    <2>2. edges[i].from \in InNodes
      BY <1>3, <2>1 DEF EdgeIs, Reaches
    <2>3. edges[i].to \in InNodes
      BY <1>3, <2>1 DEF EdgeIs, Reaches
    <2>4. edges[i].relation \in InTexts
      BY <1>2, <2>1 DEF EdgeIs
    <2>5. QED
      BY <2>2, <2>3, <2>4
  <1>6. ASSUME NEW i \in 1..Len(sources)
        PROVE  sources[i].locator \in InTexts /\ sources[i].alias \in InTexts
    <2>1. SourceIs(U32_MAX, strings, sources[i], SourceRows[i])
      BY DEF RowsInv, SourcesInv
    <2>2. 0 \in InTexts
      BY DEF RowsInv, Begun
    <2>3. QED
      BY <1>2, <2>1, <2>2 DEF SourceIs
  <1>7. ASSUME NEW i \in 1..Len(evidence)
        PROVE  evidence[i].node \in InNodes /\ evidence[i].path \in InTexts
    <2>1. EvidenceIs(NodeRows, U32_MAX, strings, evidence[i])
      BY DEF RowsInv, EvidenceInv
    <2>2. evidence[i].path \in InTexts
      BY <1>2, <2>1 DEF EvidenceIs
    <2>3. evidence[i].node \in Nat
      <3>1. evidence \in Seq([node : U32, path : U32, line : Nat])
        BY DEF RowsInv, EvidenceInv
      <3>2. evidence[i] \in [node : U32, path : U32, line : Nat]
        BY <3>1, ElementOfSeq
      <3>3. QED
        BY <3>2 DEF U32
    <2>4. evidence[i].node + 1 \in 1..Len(nodes)
      BY <1>3, <2>1 DEF EvidenceIs
    <2>5. QED
      BY <1>3, <2>2, <2>3, <2>4
  <1> HIDE DEF InTexts, InNodes
  <1>8. /\ table = Layout.table /\ Len(Sections) \in Nat /\ Len(Sections) >= 7
        /\ Laying(Layout, HEADER_BYTES + ENTRY_BYTES * Len(Sections), Sections,
                  Len(Sections), U32_MAX)
    BY <1>1, LayoutIs DEF TableInv
  <1>9. table[1].offset = HEADER_BYTES + ENTRY_BYTES * Len(table) /\ Len(table) = Len(Sections)
    BY <1>8 DEF Laying
  <1>10. ASSUME NEW i \in 1..Len(table)
         PROVE  LET end == table[i].offset + table[i].length
                IN  IF i = Len(table) THEN end \in U32 ELSE end = table[i + 1].offset
    BY <1>8, <1>9 DEF Laying, U32
  <1>11. QED
    BY <1>4, <1>5, <1>6, <1>7, <1>9, <1>10 DEF IndicesInside, InTexts, InNodes

\* What a reader sees at the index of a row is the node of the row.
LEMMA SeenIs ==
  ASSUME RowsInv, TableInv, stage = "done", NEW i \in 1..Len(nodes)
  PROVE  Seen(i - 1) = Of(NodeRows[i].source, NodeRows[i].row)
  <1>1. \A n, text : At(U32_MAX, strings, n, text) => strings[n + 1] = text
    BY AllRead
  <1>2. /\ federation \in Federations /\ Len(nodes) = Len(NodeRows) /\ Len(nodes) \in Nat
        /\ Len(sources) = Len(SourceRows) /\ Len(sources) \in Nat
    BY AllRead
  <1>3. PICK n, r : n = nodes[i] /\ r = NodeRows[i]
    OBVIOUS
  <1>4. (i - 1) + 1 = i
    OBVIOUS
  <1>5. strings[n.id + 1] = r.row.id /\ strings[n.label + 1] = r.row.label
    BY <1>1, <1>3 DEF RowsInv, NodesInv
  <1>6. r.source \in Graphs /\ n.source + 1 = r.source
    <2>1. r.source \in Graphs
      BY <1>2, <1>3, NodeRowsAre
    <2>2. n.source = r.source - 1
      BY <1>3 DEF RowsInv, NodesInv
    <2>3. r.source \in Nat
      BY <1>2, <2>1, Written
    <2>4. QED
      BY <2>1, <2>2, <2>3
  <1>7. /\ SourceRows[r.source].locator = Graph(r.source).locator
        /\ SourceRows[r.source].status = 0
    BY <1>2, <1>6, SourceRowsAre
  <1>8. r.source \in 1..Len(sources)
    <2>1. /\ Graphs = 1..Len(federation.sources) /\ Len(federation.sources) \in Nat
          /\ Len(SourceRows) >= Len(federation.sources)
      BY <1>2, Written, SourceRowsAre
    <2>2. QED
      BY <1>2, <1>6, <2>1
  <1>9. SourceIs(U32_MAX, strings, sources[r.source], SourceRows[r.source])
    BY <1>8 DEF RowsInv, SourcesInv
  <1>10. /\ strings[sources[r.source].locator + 1] = Graph(r.source).locator
         /\ sources[r.source].status = 0
    BY <1>1, <1>7, <1>9 DEF SourceIs
  <1>11. Seen(i - 1) = [id |-> strings[n.id + 1], label |-> strings[n.label + 1],
                        locator |-> strings[sources[n.source + 1].locator + 1],
                        read |-> sources[n.source + 1].status = 0]
    BY <1>3, <1>4 DEF Seen
  <1>12. (sources[n.source + 1].status = 0) = TRUE
    BY <1>6, <1>10
  <1>13. Of(r.source, r.row) = [id |-> r.row.id, label |-> r.row.label,
                                locator |-> Graph(r.source).locator, read |-> TRUE]
    BY DEF Of
  <1>14. QED
    BY <1>3, <1>5, <1>6, <1>10, <1>11, <1>12, <1>13

LEMMA EndIs ==
  ASSUME RowsInv, TableInv, stage = "done", NEW n, NEW ref, NEW s,
         Reaches(NodeRows, Len(nodes), n, ref, s)
  PROVE  LeadsTo(ref, s, Seen(n))
  <1>1. PICK i \in 1..Len(nodes) :
            n = i - 1 /\ NodeRows[i].row.id = ref.id /\ (ref.local => NodeRows[i].source = s)
    BY DEF Reaches
  <1>2. federation \in Federations /\ i \in 1..Len(NodeRows)
    BY AllRead
  <1>3. PICK g : g = NodeRows[i].source
    OBVIOUS
  <1>4. g \in Graphs /\ \E k \in 1..Len(Graph(g).nodes) : NodeRows[i].row = Graph(g).nodes[k]
    BY <1>2, <1>3, NodeRowsAre
  <1>5. PICK k \in 1..Len(Graph(g).nodes) : NodeRows[i].row = Graph(g).nodes[k]
    BY <1>4
  <1>6. k \in NodesOf(ref, s, g)
    BY <1>1, <1>3, <1>5 DEF NodesOf
  <1>7. Seen(n) = Of(g, Graph(g).nodes[k])
    BY <1>1, <1>3, <1>5, SeenIs
  <1>8. QED
    BY <1>4, <1>6, <1>7 DEF LeadsTo

LEMMA ReadThen ==
  ASSUME RowsInv, TableInv
  PROVE  ReadsBack
  <1>1. SUFFICES ASSUME stage = "done" PROVE ReadsBack
    BY DEF ReadsBack
  <1>2. \A n, text : At(U32_MAX, strings, n, text) => strings[n + 1] = text
    BY <1>1, AllRead
  <1>3. /\ federation \in Federations /\ Len(nodes) = Len(NodeRows)
        /\ Len(sources) = Len(SourceRows) /\ Matches(Whole)
    BY <1>1, AllRead
  <1>4. Len(edges) = Len(Whole)
    BY <1>3 DEF Matches
  <1>5. \A i \in 1..Len(nodes) : Seen(i - 1) = Of(NodeRows[i].source, NodeRows[i].row)
    BY <1>1, SeenIs
  <1>6. ASSUME NEW i \in 1..Len(edges)
        PROVE  /\ LeadsTo(Whole[i].row.from, Whole[i].source, Seen(edges[i].from))
               /\ LeadsTo(Whole[i].row.to, Whole[i].source, Seen(edges[i].to))
               /\ strings[edges[i].relation + 1] = Whole[i].row.relation
    <2>1. PICK e, w : e = edges[i] /\ w = Whole[i]
      OBVIOUS
    <2>2. EdgeIs(NodeRows, Len(nodes), U32_MAX, strings, e, w)
      BY <1>3, <2>1 DEF Matches
    <2>3. LeadsTo(w.row.from, w.source, Seen(e.from))
      BY <1>1, <2>2, EndIs DEF EdgeIs
    <2>4. LeadsTo(w.row.to, w.source, Seen(e.to))
      BY <1>1, <2>2, EndIs DEF EdgeIs
    <2>5. strings[e.relation + 1] = w.row.relation
      BY <1>2, <2>2 DEF EdgeIs
    <2>6. QED
      BY <2>1, <2>3, <2>4, <2>5
  <1>7. ASSUME NEW n \in 1..Len(federation.statuses), ~federation.statuses[n].available
        PROVE  \E i \in 1..Len(sources) :
                   /\ sources[i].status = 1
                   /\ strings[sources[i].locator + 1] = federation.statuses[n].locator
    <2>1. PICK i \in 1..Len(SourceRows) :
              /\ SourceRows[i].status = 1
              /\ SourceRows[i].locator = federation.statuses[n].locator
      BY <1>3, <1>7, SourceRowsAre
    <2>2. SourceIs(U32_MAX, strings, sources[i], SourceRows[i])
      BY <1>3 DEF RowsInv, SourcesInv
    <2>3. QED
      BY <1>2, <1>3, <2>1, <2>2 DEF SourceIs
  <1>8. QED
    BY <1>3, <1>4, <1>5, <1>6, <1>7 DEF ReadsBack

LEMMA SearchableThen ==
  ASSUME RowsInv, TableInv
  PROVE  EvidenceSearchable
  <1>1. \A i \in 2..Len(evidence) : evidence[i - 1].node < evidence[i].node
    BY DEF RowsInv, EvidenceInv
  <1>2. ASSUME stage = "done"
        PROVE  /\ \A n \in 1..Len(nodes) :
                      WithPath(NodeRows[n].row) # {}
                          <=> \E i \in 1..Len(evidence) : evidence[i].node = n - 1
               /\ \A i \in 1..Len(evidence) :
                      LET place == PlaceOf(NodeRows[evidence[i].node + 1].row)
                      IN  /\ strings[evidence[i].path + 1] = place.path
                          /\ evidence[i].line = place.line
    <2>1. \A n, text : At(U32_MAX, strings, n, text) => strings[n + 1] = text
      BY <1>2, AllRead
    <2>2. Len(nodes) = Len(NodeRows)
      BY <1>2, AllRead
    <2>3. \A i \in 1..Len(evidence) : EvidenceIs(NodeRows, U32_MAX, strings, evidence[i])
      BY DEF RowsInv, EvidenceInv
    <2>4. \A n \in 1..Len(NodeRows) : WithPath(NodeRows[n].row) # {} => Listed(evidence, n)
      BY <1>2 DEF RowsInv, EvidenceInv
    <2>5. ASSUME NEW n \in 1..Len(nodes), NEW i \in 1..Len(evidence), evidence[i].node = n - 1
          PROVE  WithPath(NodeRows[n].row) # {}
      <3>1. WithPath(NodeRows[evidence[i].node + 1].row) # {}
        BY <2>3 DEF EvidenceIs
      <3>2. evidence[i].node + 1 = n
        BY <2>5
      <3>3. QED
        BY <3>1, <3>2
    <2>6. \A i \in 1..Len(evidence) :
              LET place == PlaceOf(NodeRows[evidence[i].node + 1].row)
              IN  strings[evidence[i].path + 1] = place.path /\ evidence[i].line = place.line
      BY <2>1, <2>3 DEF EvidenceIs
    <2>7. QED
      BY <2>2, <2>4, <2>5, <2>6 DEF Listed
  <1>3. QED
    BY <1>1, <1>2 DEF EvidenceSearchable

-----------------------------------------------------------------------------
(* The theorems.                                                           *)

\* Every number written is a u32 of the size met, however large the federation is:
\* counts and offsets are refused before they wrap, and indices are clipped.
THEOREM ExchangeTyped == Spec => []TypeOK
  <1>1. RowsInv /\ TableInv => TypeOK
    BY TypedThen
  <1>2. QED
    BY <1>1, Always, PTL

\* Every index of a container that was returned is inside what it indexes, and the
\* sections are in one piece behind the table: that an index was clipped shows in the
\* length of the texts, and such a container is refused.
THEOREM ReaderStaysInside == Spec => []IndicesInside
  <1>1. RowsInv /\ TableInv => IndicesInside
    BY InsideThen
  <1>2. QED
    BY <1>1, Always, PTL

\* A container that was returned reads back as the federation it was written from.
THEOREM ContainerReadsBack == Spec => []ReadsBack
  <1>1. RowsInv /\ TableInv => ReadsBack
    BY ReadThen
  <1>2. QED
    BY <1>1, Always, PTL

\* Evidence is in the order of the nodes, and is that of the nodes with a path.
THEOREM EvidenceIsFound == Spec => []EvidenceSearchable
  <1>1. RowsInv /\ TableInv => EvidenceSearchable
    BY SearchableThen
  <1>2. QED
    BY <1>1, Always, PTL

=============================================================================
