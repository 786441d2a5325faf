----------------------------- MODULE ReplProofs -----------------------------
(***************************************************************************)
(* Proofs about Repl for any lines, statements, faults and other processes *)
(* and for sessions of any length.                                         *)
(***************************************************************************)
EXTENDS Repl, Inductions, SequenceTheorems

-----------------------------------------------------------------------------
(* Texts.                                                                  *)

\* The least and the greatest of some places of a text.
LEMMA Places ==
  ASSUME NEW t \in Text, NEW S, S \subseteq 1..Len(t), S # {}
  PROVE  /\ (CHOOSE i \in S : \A j \in S : i <= j) \in S
         /\ \A k \in S : (CHOOSE i \in S : \A j \in S : i <= j) <= k
         /\ (CHOOSE i \in S : \A j \in S : i >= j) \in S
         /\ \A k \in S : (CHOOSE i \in S : \A j \in S : i >= j) >= k
  <1>1. Len(t) \in Nat
    BY DEF Text
  <1>2. S \subseteq Nat /\ S \subseteq 0..Len(t)
    BY <1>1
  <1>3. \E i \in S : \A j \in S : i <= j
    BY <1>2, Least
  <1>4. \E i \in S : \A j \in S : j <= i
    BY <1>1, <1>2, Greatest
  <1>5. \E i \in S : \A j \in S : i >= j
    BY <1>2, <1>4
  <1>6. QED
    BY <1>3, <1>5

LEMMA TrimTyped ==
  ASSUME NEW t \in Text
  PROVE  Trim(t) \in Text
  <1> DEFINE ink == {i \in 1..Len(t) : t[i] # Blank}
             a == CHOOSE i \in ink : \A j \in ink : i <= j
             b == CHOOSE i \in ink : \A j \in ink : i >= j
  <1>1. CASE ink = {}
    BY <1>1 DEF Trim, Text
  <1>2. CASE ink # {}
    <2>1. a \in 1..Len(t) /\ b \in 1..Len(t)
      <3>1. ink \subseteq 1..Len(t)
        OBVIOUS
      <3> HIDE DEF ink
      <3>2. QED
        BY <1>2, <3>1, Places
    <2>2. Trim(t) = SubSeq(t, a, b)
      BY <1>2 DEF Trim
    <2> HIDE DEF a, b
    <2>3. QED
      BY <2>1, <2>2 DEF Text
  <1>3. QED
    BY <1>1, <1>2

\* A text that begins with no blank begins the same when it is trimmed.
LEMMA TrimBegins ==
  ASSUME NEW t \in Text, t # <<>>, t[1] # Blank
  PROVE  Trim(t) # <<>> /\ Trim(t)[1] = t[1]
  <1> DEFINE ink == {i \in 1..Len(t) : t[i] # Blank}
             a == CHOOSE i \in ink : \A j \in ink : i <= j
             b == CHOOSE i \in ink : \A j \in ink : i >= j
  <1>1. Len(t) \in Nat /\ 1 \in ink
    BY DEF Text
  <1>2. a = 1 /\ b \in 1..Len(t)
    <2>1. ink \subseteq 1..Len(t) /\ ink # {}
      BY <1>1
    <2>2. a \in ink /\ b \in ink /\ \A k \in ink : a <= k
      <3> HIDE DEF ink
      <3>1. QED
        BY <2>1, Places
    <2>3. QED
      BY <1>1, <2>1, <2>2
  <1>3. Trim(t) = SubSeq(t, 1, b)
    BY <1>1, <1>2 DEF Trim
  <1> HIDE DEF a, b
  <1>4. QED
    BY <1>2, <1>3 DEF Text

LEMMA CommandTrimmed ==
  ASSUME NEW t \in Text, IsCommand(t)
  PROVE  IsCommand(Trim(t))
  <1>1. Trim(t) \in Text /\ Trim(t) # <<>> /\ Trim(t)[1] = ":"
    BY TrimTyped DEF IsCommand
  <1>2. QED
    BY <1>1, TrimBegins DEF IsCommand, Blank

LEMMA SemicolonPlaced ==
  ASSUME NEW t \in Text, NEW S, S \subseteq 1..Len(t)
  PROVE  FirstSemicolon(t, S) \in 0..Len(t)
  <1> DEFINE found == {i \in S : t[i] = ";"}
             least == CHOOSE i \in found : \A j \in found : i <= j
  <1>1. Len(t) \in Nat
    BY DEF Text
  <1>2. found \subseteq 1..Len(t)
    OBVIOUS
  <1>3. FirstSemicolon(t, S) = IF found = {} THEN 0 ELSE least
    BY DEF FirstSemicolon
  <1>4. found # {} => least \in found
    <2> HIDE DEF found
    <2>1. QED
      BY <1>2, Places
  <1> HIDE DEF found, least
  <1>5. CASE found = {}
    <2>1. FirstSemicolon(t, S) = 0
      BY <1>3, <1>5
    <2>2. QED
      BY <1>1, <2>1
  <1>6. CASE found # {}
    <2>1. FirstSemicolon(t, S) = least
      BY <1>3, <1>6
    <2>2. least \in 1..Len(t)
      BY <1>2, <1>4, <1>6
    <2>3. QED
      BY <1>1, <2>1, <2>2
  <1>7. QED
    BY <1>5, <1>6

-----------------------------------------------------------------------------
(* The functions that are defined by recursion.                            *)

Reader == [quoted : BOOLEAN, escaped : BOOLEAN]
ReaderInKind == [quote : {"", "\"", "'"}, escaped : BOOLEAN]
Told == [text : Text, done : BOOLEAN]
Block == [by : {"me", "other"}, writes : Seq(Text)]
Conclusion == [open : BOOLEAN, pending : Seq(Text), kept : Seq(Seq(Text))]

\* The reader of terminator, character by character.
LEMMA InsideIs ==
  ASSUME NEW t \in Text
  PROVE  /\ Inside(t) \in [0..Len(t) -> Reader]
         /\ Inside(t)[0] = Outside
         /\ \A i \in 1..Len(t) : Inside(t)[i] = After(Inside(t)[i - 1], t[i])
  <1> DEFINE n == Len(t)
             F == [x \in (1..n) \X Reader |-> After(x[2], t[x[1]])]
             Fits(g) == g = [i \in 0..n |-> IF i = 0 THEN Outside
                                            ELSE After(g[i - 1], t[i])]
  <1>1. n \in Nat
    BY DEF Text
  <1>2. Outside \in Reader
    BY DEF Reader, Outside
  <1>3. \A i \in 1..n, s \in Reader : After(s, t[i]) \in Reader
    <2>1. \A i \in 1..n : t[i] \in Chars
      BY <1>1 DEF Text
    <2> HIDE DEF n
    <2>2. QED
      BY <2>1 DEF After, Reader
  <1>4. F \in [(1..n) \X Reader -> Reader]
    BY <1>3
  <1>5. PICK g \in [0..n -> Reader] : Follows(n, Outside, F, g)
    <2>1. n \in Nat
      BY <1>1
    <2> HIDE DEF n, F
    <2>2. QED
      BY <1>2, <1>4, <2>1, Recursion
  <1>6. \A i \in 1..n : g[i] = After(g[i - 1], t[i])
    <2>1. SUFFICES ASSUME NEW i \in 1..n
                   PROVE  g[i] = After(g[i - 1], t[i])
      OBVIOUS
    <2>2. <<i, g[i - 1]>> \in (1..n) \X Reader
      <3>1. i - 1 \in 0..n
        BY <1>1
      <3>2. g[i - 1] \in Reader
        BY <1>5, <3>1
      <3>3. QED
        BY <3>2
    <2>3. F[<<i, g[i - 1]>>] = After(g[i - 1], t[i])
      BY <2>2
    <2>4. QED
      BY <1>5, <2>3 DEF Follows
  <1>7. Fits(g)
    <2>1. g = [i \in 0..n |-> g[i]]
      BY <1>5
    <2>2. \A i \in 0..n : g[i] = IF i = 0 THEN Outside ELSE After(g[i - 1], t[i])
      BY <1>1, <1>5, <1>6 DEF Follows
    <2>3. QED
      BY <2>1, <2>2
  <1>8. Fits(Inside(t))
    BY <1>7 DEF Inside
  <1>9. /\ \A i \in 0..n : Inside(t)[i] = IF i = 0 THEN Outside
                                            ELSE After(Inside(t)[i - 1], t[i])
        /\ Inside(t) = [i \in 0..n |-> Inside(t)[i]]
    BY <1>8
  <1> HIDE DEF F, Fits
  <1>10. /\ Inside(t)[0] = Outside
        /\ \A i \in 1..n : Inside(t)[i] = After(Inside(t)[i - 1], t[i])
    <2>1. 0 \in 0..n /\ \A i \in 1..n : i \in 0..n /\ i # 0
      BY <1>1
    <2>2. QED
      BY <1>9, <2>1
  <1>11. \A i \in 0..n : Inside(t)[i] \in Reader
    <2>1. n \in Nat
      BY <1>1
    <2> HIDE DEF n
    <2>2. QED
      BY <1>2, <1>3, <1>10, <2>1, Stays
  <1>12. QED
    BY <1>9, <1>10, <1>11

\* The reader that matches quotes in kind, character by character.
LEMMA LiteralIs ==
  ASSUME NEW t \in Text
  PROVE  /\ Literal(t) \in [0..Len(t) -> ReaderInKind]
         /\ Literal(t)[0] = NoLiteral
         /\ \A i \in 1..Len(t) : Literal(t)[i] = AfterInKind(Literal(t)[i - 1], t[i])
  <1> DEFINE n == Len(t)
             F == [x \in (1..n) \X ReaderInKind |-> AfterInKind(x[2], t[x[1]])]
             Fits(g) == g = [i \in 0..n |-> IF i = 0 THEN NoLiteral
                                            ELSE AfterInKind(g[i - 1], t[i])]
  <1>1. n \in Nat
    BY DEF Text
  <1>2. NoLiteral \in ReaderInKind
    BY DEF ReaderInKind, NoLiteral
  <1>3. \A i \in 1..n, s \in ReaderInKind : AfterInKind(s, t[i]) \in ReaderInKind
    <2>1. \A i \in 1..n : t[i] \in Chars
      BY <1>1 DEF Text
    <2> HIDE DEF n
    <2>2. QED
      BY <2>1 DEF AfterInKind, ReaderInKind
  <1>4. F \in [(1..n) \X ReaderInKind -> ReaderInKind]
    BY <1>3
  <1>5. PICK g \in [0..n -> ReaderInKind] : Follows(n, NoLiteral, F, g)
    <2>1. n \in Nat
      BY <1>1
    <2> HIDE DEF n, F
    <2>2. QED
      BY <1>2, <1>4, <2>1, Recursion
  <1>6. \A i \in 1..n : g[i] = AfterInKind(g[i - 1], t[i])
    <2>1. SUFFICES ASSUME NEW i \in 1..n
                   PROVE  g[i] = AfterInKind(g[i - 1], t[i])
      OBVIOUS
    <2>2. <<i, g[i - 1]>> \in (1..n) \X ReaderInKind
      <3>1. i - 1 \in 0..n
        BY <1>1
      <3>2. g[i - 1] \in ReaderInKind
        BY <1>5, <3>1
      <3>3. QED
        BY <3>2
    <2>3. F[<<i, g[i - 1]>>] = AfterInKind(g[i - 1], t[i])
      BY <2>2
    <2>4. QED
      BY <1>5, <2>3 DEF Follows
  <1>7. Fits(g)
    <2>1. g = [i \in 0..n |-> g[i]]
      BY <1>5
    <2>2. \A i \in 0..n : g[i] = IF i = 0 THEN NoLiteral ELSE AfterInKind(g[i - 1], t[i])
      BY <1>1, <1>5, <1>6 DEF Follows
    <2>3. QED
      BY <2>1, <2>2
  <1>8. Fits(Literal(t))
    BY <1>7 DEF Literal
  <1>9. /\ \A i \in 0..n : Literal(t)[i] = IF i = 0 THEN NoLiteral
                                            ELSE AfterInKind(Literal(t)[i - 1], t[i])
        /\ Literal(t) = [i \in 0..n |-> Literal(t)[i]]
    BY <1>8
  <1> HIDE DEF F, Fits
  <1>10. /\ Literal(t)[0] = NoLiteral
        /\ \A i \in 1..n : Literal(t)[i] = AfterInKind(Literal(t)[i - 1], t[i])
    <2>1. 0 \in 0..n /\ \A i \in 1..n : i \in 0..n /\ i # 0
      BY <1>1
    <2>2. QED
      BY <1>9, <2>1
  <1>11. \A i \in 0..n : Literal(t)[i] \in ReaderInKind
    <2>1. n \in Nat
      BY <1>1
    <2> HIDE DEF n
    <2>2. QED
      BY <1>2, <1>3, <1>10, <2>1, Stays
  <1>12. QED
    BY <1>9, <1>10, <1>11

LEMMA ConcludeTyped ==
  ASSUME NEW so \in Conclusion, NEW entry \in Told
  PROVE  Conclude(so, entry) \in Conclusion
  <1> DEFINE said == IF entry.done THEN entry.text ELSE <<>>
             after == Conclude(so, entry)
  <1>1. /\ so.open \in BOOLEAN /\ so.pending \in Seq(Text) /\ so.kept \in Seq(Seq(Text))
        /\ said \in Text
    <2>1. <<>> \in Text
      BY DEF Text
    <2>2. QED
      BY <2>1 DEF Conclusion, Told
  <1>2. after.open \in BOOLEAN
    BY <1>1 DEF Conclude
  <1>3. after.pending \in Seq(Text)
    BY <1>1 DEF Conclude, NoWrites
  <1>4. after.kept \in Seq(Seq(Text))
    BY <1>1 DEF Conclude
  <1>5. after = [open |-> after.open, pending |-> after.pending, kept |-> after.kept]
    BY DEF Conclude
  <1>6. QED
    BY <1>2, <1>3, <1>4, <1>5 DEF Conclusion

\* What follows from what was told, one thing after the other.
LEMMA ConclusionsAre ==
  ASSUME NEW entries \in Seq(Told)
  PROVE  /\ Conclusions(entries) \in [0..Len(entries) -> Conclusion]
         /\ Conclusions(entries)[0] = NothingTold
         /\ \A i \in 1..Len(entries) : Conclusions(entries)[i] = Conclude(Conclusions(entries)[i - 1], entries[i])
  <1> DEFINE n == Len(entries)
             F == [x \in (1..n) \X Conclusion |-> Conclude(x[2], entries[x[1]])]
             Fits(g) == g = [i \in 0..n |-> IF i = 0 THEN NothingTold
                                            ELSE Conclude(g[i - 1], entries[i])]
  <1>1. n \in Nat
    BY DEF Text
  <1>2. NothingTold \in Conclusion
    BY DEF Conclusion, NothingTold, NoWrites
  <1>3. \A i \in 1..n, s \in Conclusion : Conclude(s, entries[i]) \in Conclusion
    <2>1. \A i \in 1..n : entries[i] \in Told
      BY <1>1 DEF Text
    <2> HIDE DEF n
    <2>2. QED
      BY <2>1, ConcludeTyped
  <1>4. F \in [(1..n) \X Conclusion -> Conclusion]
    BY <1>3
  <1>5. PICK g \in [0..n -> Conclusion] : Follows(n, NothingTold, F, g)
    <2>1. n \in Nat
      BY <1>1
    <2> HIDE DEF n, F
    <2>2. QED
      BY <1>2, <1>4, <2>1, Recursion
  <1>6. \A i \in 1..n : g[i] = Conclude(g[i - 1], entries[i])
    <2>1. SUFFICES ASSUME NEW i \in 1..n
                   PROVE  g[i] = Conclude(g[i - 1], entries[i])
      OBVIOUS
    <2>2. <<i, g[i - 1]>> \in (1..n) \X Conclusion
      <3>1. i - 1 \in 0..n
        BY <1>1
      <3>2. g[i - 1] \in Conclusion
        BY <1>5, <3>1
      <3>3. QED
        BY <3>2
    <2>3. F[<<i, g[i - 1]>>] = Conclude(g[i - 1], entries[i])
      BY <2>2
    <2>4. QED
      BY <1>5, <2>3 DEF Follows
  <1>7. Fits(g)
    <2>1. g = [i \in 0..n |-> g[i]]
      BY <1>5
    <2>2. \A i \in 0..n : g[i] = IF i = 0 THEN NothingTold ELSE Conclude(g[i - 1], entries[i])
      BY <1>1, <1>5, <1>6 DEF Follows
    <2>3. QED
      BY <2>1, <2>2
  <1>8. Fits(Conclusions(entries))
    BY <1>7 DEF Conclusions
  <1>9. /\ \A i \in 0..n : Conclusions(entries)[i] = IF i = 0 THEN NothingTold
                                            ELSE Conclude(Conclusions(entries)[i - 1], entries[i])
        /\ Conclusions(entries) = [i \in 0..n |-> Conclusions(entries)[i]]
    BY <1>8
  <1> HIDE DEF F, Fits
  <1>10. /\ Conclusions(entries)[0] = NothingTold
        /\ \A i \in 1..n : Conclusions(entries)[i] = Conclude(Conclusions(entries)[i - 1], entries[i])
    <2>1. 0 \in 0..n /\ \A i \in 1..n : i \in 0..n /\ i # 0
      BY <1>1
    <2>2. QED
      BY <1>9, <2>1
  <1>11. \A i \in 0..n : Conclusions(entries)[i] \in Conclusion
    <2>1. n \in Nat
      BY <1>1
    <2> HIDE DEF n
    <2>2. QED
      BY <1>2, <1>3, <1>10, <2>1, Stays
  <1>12. QED
    BY <1>9, <1>10, <1>11

\* The blocks of this command, one after the other.
LEMMA OwnBlocksAre ==
  ASSUME NEW blocks \in Seq(Block)
  PROVE  /\ OwnBlocks(blocks) \in [0..Len(blocks) -> Seq(Seq(Text))]
         /\ OwnBlocks(blocks)[0] = <<>>
         /\ \A i \in 1..Len(blocks) : OwnBlocks(blocks)[i] = Own(OwnBlocks(blocks)[i - 1], blocks[i])
  <1> DEFINE n == Len(blocks)
             F == [x \in (1..n) \X Seq(Seq(Text)) |-> Own(x[2], blocks[x[1]])]
             Fits(g) == g = [i \in 0..n |-> IF i = 0 THEN <<>>
                                            ELSE Own(g[i - 1], blocks[i])]
  <1>1. n \in Nat
    BY DEF Text
  <1>2. <<>> \in Seq(Seq(Text))
    OBVIOUS
  <1>3. \A i \in 1..n, s \in Seq(Seq(Text)) : Own(s, blocks[i]) \in Seq(Seq(Text))
    <2>1. \A i \in 1..n : blocks[i] \in Block
      BY <1>1 DEF Text
    <2> HIDE DEF n
    <2>2. QED
      BY <2>1 DEF Own, Block
  <1>4. F \in [(1..n) \X Seq(Seq(Text)) -> Seq(Seq(Text))]
    BY <1>3
  <1>5. PICK g \in [0..n -> Seq(Seq(Text))] : Follows(n, <<>>, F, g)
    <2>1. n \in Nat
      BY <1>1
    <2> HIDE DEF n, F
    <2>2. QED
      BY <1>2, <1>4, <2>1, Recursion
  <1>6. \A i \in 1..n : g[i] = Own(g[i - 1], blocks[i])
    <2>1. SUFFICES ASSUME NEW i \in 1..n
                   PROVE  g[i] = Own(g[i - 1], blocks[i])
      OBVIOUS
    <2>2. <<i, g[i - 1]>> \in (1..n) \X Seq(Seq(Text))
      <3>1. i - 1 \in 0..n
        BY <1>1
      <3>2. g[i - 1] \in Seq(Seq(Text))
        BY <1>5, <3>1
      <3>3. QED
        BY <3>2
    <2>3. F[<<i, g[i - 1]>>] = Own(g[i - 1], blocks[i])
      BY <2>2
    <2>4. QED
      BY <1>5, <2>3 DEF Follows
  <1>7. Fits(g)
    <2>1. g = [i \in 0..n |-> g[i]]
      BY <1>5
    <2>2. \A i \in 0..n : g[i] = IF i = 0 THEN <<>> ELSE Own(g[i - 1], blocks[i])
      BY <1>1, <1>5, <1>6 DEF Follows
    <2>3. QED
      BY <2>1, <2>2
  <1>8. Fits(OwnBlocks(blocks))
    BY <1>7 DEF OwnBlocks
  <1>9. /\ \A i \in 0..n : OwnBlocks(blocks)[i] = IF i = 0 THEN <<>>
                                            ELSE Own(OwnBlocks(blocks)[i - 1], blocks[i])
        /\ OwnBlocks(blocks) = [i \in 0..n |-> OwnBlocks(blocks)[i]]
    BY <1>8
  <1> HIDE DEF F, Fits
  <1>10. /\ OwnBlocks(blocks)[0] = <<>>
        /\ \A i \in 1..n : OwnBlocks(blocks)[i] = Own(OwnBlocks(blocks)[i - 1], blocks[i])
    <2>1. 0 \in 0..n /\ \A i \in 1..n : i \in 0..n /\ i # 0
      BY <1>1
    <2>2. QED
      BY <1>9, <2>1
  <1>11. \A i \in 0..n : OwnBlocks(blocks)[i] \in Seq(Seq(Text))
    <2>1. n \in Nat
      BY <1>1
    <2> HIDE DEF n
    <2>2. QED
      BY <1>2, <1>3, <1>10, <2>1, Stays
  <1>12. QED
    BY <1>9, <1>10, <1>11

\* What follows from one thing more.
LEMMA OneMoreTold ==
  ASSUME NEW entries \in Seq(Told), NEW entry \in Told
  PROVE  Conclusions(Append(entries, entry))[Len(entries) + 1] = Conclude(Conclusions(entries)[Len(entries)], entry)
  <1> DEFINE n == Len(entries)
             more == Append(entries, entry)
  <1>1. /\ n \in Nat /\ more \in Seq(Told) /\ Len(more) = n + 1
        /\ \A i \in 1..n : more[i] = entries[i]
        /\ more[n + 1] = entry
    OBVIOUS
  <1> HIDE DEF more
  <1>2. /\ Conclusions(more)[0] = Conclusions(entries)[0]
        /\ \A i \in 1..n : Conclusions(entries)[i] = Conclude(Conclusions(entries)[i - 1], entries[i])
        /\ \A i \in 1..(n + 1) : Conclusions(more)[i] = Conclude(Conclusions(more)[i - 1], more[i])
    BY <1>1, ConclusionsAre
  <1>3. \A i \in 1..n : i \in 1..(n + 1)
    BY <1>1
  <1>4. \A i \in 1..n : Conclusions(more)[i - 1] = Conclusions(entries)[i - 1]
                         => Conclusions(more)[i] = Conclusions(entries)[i]
    BY <1>1, <1>2, <1>3
  <1>5. \A i \in 0..n : Conclusions(more)[i] = Conclusions(entries)[i]
    <2>1. n \in Nat
      BY <1>1
    <2> DEFINE same == {i \in 0..n : Conclusions(more)[i] = Conclusions(entries)[i]}
    <2>2. 0 \in same
      BY <1>2, <2>1
    <2>3. \A i \in 1..n : i - 1 \in same => i \in same
      BY <1>4, <2>1
    <2> HIDE DEF n, same
    <2>4. 0..n \subseteq same
      BY <2>1, <2>2, <2>3, IntervalInduct
    <2>5. QED
      BY <2>4 DEF same
  <1>6. Conclusions(more)[n + 1] = Conclude(Conclusions(more)[(n + 1) - 1], more[n + 1])
    BY <1>1, <1>2
  <1>7. (n + 1) - 1 = n /\ n \in 0..n
    BY <1>1
  <1>8. QED
    BY <1>1, <1>5, <1>6, <1>7 DEF more

\* The blocks of this command when a block is added.
LEMMA OneMoreBlock ==
  ASSUME NEW blocks \in Seq(Block), NEW block \in Block
  PROVE  OwnBlocks(Append(blocks, block))[Len(blocks) + 1] = Own(OwnBlocks(blocks)[Len(blocks)], block)
  <1> DEFINE n == Len(blocks)
             more == Append(blocks, block)
  <1>1. /\ n \in Nat /\ more \in Seq(Block) /\ Len(more) = n + 1
        /\ \A i \in 1..n : more[i] = blocks[i]
        /\ more[n + 1] = block
    OBVIOUS
  <1> HIDE DEF more
  <1>2. /\ OwnBlocks(more)[0] = OwnBlocks(blocks)[0]
        /\ \A i \in 1..n : OwnBlocks(blocks)[i] = Own(OwnBlocks(blocks)[i - 1], blocks[i])
        /\ \A i \in 1..(n + 1) : OwnBlocks(more)[i] = Own(OwnBlocks(more)[i - 1], more[i])
    BY <1>1, OwnBlocksAre
  <1>3. \A i \in 1..n : i \in 1..(n + 1)
    BY <1>1
  <1>4. \A i \in 1..n : OwnBlocks(more)[i - 1] = OwnBlocks(blocks)[i - 1]
                         => OwnBlocks(more)[i] = OwnBlocks(blocks)[i]
    BY <1>1, <1>2, <1>3
  <1>5. \A i \in 0..n : OwnBlocks(more)[i] = OwnBlocks(blocks)[i]
    <2>1. n \in Nat
      BY <1>1
    <2> DEFINE same == {i \in 0..n : OwnBlocks(more)[i] = OwnBlocks(blocks)[i]}
    <2>2. 0 \in same
      BY <1>2, <2>1
    <2>3. \A i \in 1..n : i - 1 \in same => i \in same
      BY <1>4, <2>1
    <2> HIDE DEF n, same
    <2>4. 0..n \subseteq same
      BY <2>1, <2>2, <2>3, IntervalInduct
    <2>5. QED
      BY <2>4 DEF same
  <1>6. OwnBlocks(more)[n + 1] = Own(OwnBlocks(more)[(n + 1) - 1], more[n + 1])
    BY <1>1, <1>2
  <1>7. (n + 1) - 1 = n /\ n \in 0..n
    BY <1>1
  <1>8. QED
    BY <1>1, <1>5, <1>6, <1>7 DEF more

-----------------------------------------------------------------------------
(* The kinds of the variables.                                             *)

\* The variables as one step finds them.
LEMMA Kinds ==
  ASSUME TypeOK
  PROVE  /\ statement \in Text /\ buffer \in Text /\ told \in Seq(Told)
         /\ log \in Seq(Block) /\ Len(log) \in Nat
         /\ known \in Nat /\ known <= Len(log)
         /\ tx # Nothing => /\ tx \in [base : Nat, writes : Seq(Text)]
                            /\ tx.base \in known..Len(log)
  <1>1. log \in Seq(Block)
    BY DEF TypeOK, Block
  <1>2. Len(log) \in Nat
    BY <1>1
  <1>3. known \in 0..Len(log)
    BY DEF TypeOK, Generation
  <1>4. known \in Nat /\ known <= Len(log)
    BY <1>2, <1>3
  <1>5. ASSUME tx # Nothing
        PROVE  tx \in [base : Nat, writes : Seq(Text)] /\ tx.base \in known..Len(log)
    <2>1. tx \in [base : known..Len(log), writes : Seq(Text)]
      BY <1>5 DEF TypeOK, Generation, Bases
    <2>2. known..Len(log) \subseteq Nat
      BY <1>2, <1>4
    <2>3. QED
      BY <2>1, <2>2
  <1>6. told \in Seq(Told) /\ statement \in Text /\ buffer \in Text
    BY DEF TypeOK, Told
  <1>7. QED
    BY <1>1, <1>2, <1>4, <1>5, <1>6

\* A transaction stays of its kind as long as nothing is known that is later
\* than where it began.
LEMMA TransactionKept ==
  ASSUME TypeOK, known' = known, log' \in Seq(Block), Len(log') >= Len(log),
         \/ tx' = tx
         \/ tx' = Nothing
         \/ tx # Nothing /\ \E w \in Seq(Text) : tx' = [tx EXCEPT !.writes = w]
  PROVE  known' \in 0..Generation' /\ tx' \in {Nothing} \cup [base : Bases', writes : Seq(Text)]
  <1>1. /\ known \in Nat /\ known <= Len(log) /\ Len(log) \in Nat /\ Len(log') \in Nat
        /\ tx # Nothing => /\ tx \in [base : Nat, writes : Seq(Text)]
                           /\ tx.base \in known..Len(log)
    BY Kinds
  <1>2. known' \in 0..Generation' /\ known..Len(log) \subseteq Bases'
    BY <1>1 DEF Generation, Bases
  <1>3. ASSUME tx # Nothing, NEW w \in Seq(Text), tx' = [tx EXCEPT !.writes = w]
        PROVE  tx' \in [base : Bases', writes : Seq(Text)]
    BY <1>1, <1>2, <1>3
  <1>4. ASSUME tx # Nothing, tx' = tx
        PROVE  tx' \in [base : Bases', writes : Seq(Text)]
    BY <1>1, <1>2, <1>4
  <1>5. QED
    BY <1>2, <1>3, <1>4

LEMMA LoggedTyped ==
  ASSUME TypeOK, NEW w \in Seq(Text)
  PROVE  /\ Logged(w) \in Seq(Block) /\ Len(Logged(w)) >= Len(log)
         /\ Len(Logged(w)) \in Nat
  <1>1. log \in Seq(Block) /\ [by |-> "me", writes |-> w] \in Block
    BY Kinds DEF Block
  <1>2. QED
    BY <1>1 DEF Logged

LEMMA EffectTyped ==
  ASSUME NEW t \in Text
  PROVE  Effect(t) \in Seq(Text)
  BY DEF Effect, NoWrites

LEMMA Parsed_ == Parsed \subseteq Text /\ Given \subseteq Text /\ Lines \subseteq Text
  BY ReplAssumption

\* The parts of TypeOK that say where a command is.
Progress ==
  /\ pc \in {"parse", "open", "read", "dispatch", "ended"}
  /\ mode \in {"immediate", "session"}
  /\ lines \in 0..MaxLines
  /\ class \in {"", "success", "query", "project", "io", "conflict"}
  /\ class = "" <=> pc # "ended"
  /\ mode = "immediate" => pc # "read"
  /\ tx # Nothing => mode = "session" /\ pc \in {"read", "dispatch"}

LEMMA TypeParts ==
  TypeOK <=> /\ Progress
             /\ buffer \in Text /\ statement \in Text
             /\ told \in Seq(Told) /\ log \in Seq(Block)
             /\ known \in 0..Generation
             /\ tx \in {Nothing} \cup [base : Bases, writes : Seq(Text)]
  BY DEF TypeOK, Progress, Told, Block

LEMMA ProgressStep ==
  ASSUME TypeOK, [Next]_vars
  PROVE  Progress'
  <1> USE DEF TypeOK, Progress
  <1>1. CASE UNCHANGED vars
    BY <1>1 DEF vars
  <1>2. CASE ParseGiven \/ Open \/ OpenFails
    BY <1>2 DEF ParseGiven, Open, OpenFails, End
  <1>3. ASSUME NEW line \in Lines, ReadLine(line)
        PROVE  Progress'
    <2>1. lines' \in 0..MaxLines
      <3>1. lines \in 0..MaxLines /\ lines < MaxLines /\ lines' = lines + 1
        BY <1>3 DEF ReadLine
      <3>2. MaxLines \in Nat
        BY ReplAssumption
      <3> HIDE DEF TypeOK, Progress
      <3>3. lines + 1 \in 0..MaxLines
        BY <3>1, <3>2
      <3>4. QED
        BY <3>1, <3>3
    <2>2. pc' \in {"read", "dispatch"} /\ pc = "read" /\ UNCHANGED <<mode, tx, class>>
      BY <1>3 DEF ReadLine
    <2>3. QED
      BY <2>1, <2>2
  <1>4. CASE EndOfInput \/ ReadFails
    BY <1>4 DEF EndOfInput, ReadFails, Leave, End
  <1>5. CASE DiscardOrQuit \/ Refuse
    BY <1>5 DEF DiscardOrQuit, Refuse, Leave, End, Loop, Reading, Dispatch
  <1>6. CASE RunOne \/ RunOneFails
    BY <1>6 DEF RunOne, RunOneFails, GoOn, Fail, End, Loop, Reading
  <1>7. CASE Begin \/ BeginFails
    BY <1>7 DEF Begin, BeginFails, End, Loop, Reading, Dispatch
  <1>8. CASE RunInside \/ RunInsideFails \/ RollBack
    BY <1>8 DEF RunInside, RunInsideFails, RollBack, End, Loop, Reading, Dispatch
  <1>9. CASE CommitAll \/ CommitFails
    BY <1>9 DEF CommitAll, CommitFails, End, Loop, Reading, Dispatch
  <1>10. CASE Foreign
    BY <1>10 DEF Foreign
  <1>11. QED
    BY <1>1, <1>2, <1>3, <1>4, <1>5, <1>6, <1>7, <1>8, <1>9, <1>10 DEF Next

\* Only ReadLine and EndOfInput change what has been read.
LEMMA ReadingStep ==
  ASSUME TypeOK, [Next]_vars
  PROVE  buffer' \in Text /\ statement' \in Text
  <1>1. <<>> \in Text
    BY DEF Text
  <1>2. buffer \in Text /\ statement \in Text
    BY Kinds
  <1>3. ASSUME NEW line \in Lines, ReadLine(line)
        PROVE  buffer' \in Text /\ statement' \in Text
    <2> DEFINE read == buffer \o WithEnd(line)
               end == Terminator(read)
    <2>1. line \in Text
      BY Parsed_
    <2>2. read \in Text
      <3>1. line \in Seq(Chars) /\ buffer \in Seq(Chars) /\ Blank \in Chars
        BY <1>2, <2>1, ReplAssumption DEF Text
      <3>2. Append(line, Blank) \in Seq(Chars)
        BY <3>1
      <3>3. buffer \o Append(line, Blank) \in Seq(Chars)
        BY <3>1, <3>2
      <3>4. QED
        BY <3>3 DEF WithEnd, Text
    <2>3. end \in 0..Len(read)
      <3> HIDE DEF read
      <3> DEFINE open == {i \in 1..Len(read) : ~Inside(read)[i - 1].quoted}
      <3>1. end = FirstSemicolon(read, open) /\ open \subseteq 1..Len(read)
        BY DEF Terminator
      <3> HIDE DEF open
      <3>2. QED
        BY <2>2, <3>1, SemicolonPlaced
    <2>4. end # 0 => SubSeq(read, 1, end - 1) \in Text
      <3> HIDE DEF read, end
      <3>1. read \in Seq(Chars) /\ Len(read) \in Nat
        BY <2>2 DEF Text
      <3>2. end # 0 => SubSeq(read, 1, end - 1) \in Seq(Chars)
        BY <2>3, <3>1
      <3>3. QED
        BY <3>2 DEF Text
    <2>5. CASE buffer = <<>> /\ IsCommand(line)
      BY <1>2, <1>3, <2>1, <2>5, TrimTyped DEF ReadLine
    <2>6. CASE ~(buffer = <<>> /\ IsCommand(line))
      <3>1. /\ buffer' = read
            /\ end = 0 => statement' = statement
            /\ end # 0 => statement' = Trim(SubSeq(read, 1, end - 1))
        BY <1>3, <2>6 DEF ReadLine
      <3> HIDE DEF read, end
      <3>2. QED
        BY <1>2, <2>2, <2>4, <3>1, TrimTyped
    <2>7. QED
      BY <2>5, <2>6
  <1>4. CASE ~(\E line \in Lines : ReadLine(line))
    BY <1>1, <1>2, <1>4 DEF Next, vars, ParseGiven, Open, OpenFails, EndOfInput, ReadFails,
       DiscardOrQuit, Refuse, RunOne, RunOneFails, Begin, BeginFails, RunInside, RunInsideFails,
       RollBack, CommitAll, CommitFails, Foreign, Leave, Loop, GoOn, Fail, End, Reading
  <1>5. QED
    BY <1>3, <1>4

\* What is told is told of the statement that was read.
LEMMA ToldStep ==
  ASSUME TypeOK, [Next]_vars
  PROVE  \/ told' = told
         \/ \E done \in BOOLEAN : Tell(done)
  BY DEF Next, vars, ParseGiven, Open, OpenFails, ReadLine, EndOfInput, ReadFails,
     DiscardOrQuit, Refuse, RunOne, RunOneFails, Begin, BeginFails, RunInside, RunInsideFails,
     RollBack, CommitAll, CommitFails, Foreign

\* What a step may do to the database and to the transaction.
LEMMA DatabaseStep ==
  ASSUME TypeOK, [Next]_vars
  PROVE  /\ log' \in Seq(Block) /\ known' \in 0..Generation'
         /\ tx' \in {Nothing} \cup [base : Bases', writes : Seq(Text)]
  <1>1. /\ log \in Seq(Block) /\ Len(log) \in Nat /\ known \in Nat /\ known <= Len(log)
        /\ statement \in Text
        /\ tx # Nothing => tx \in [base : Nat, writes : Seq(Text)]
    BY Kinds
  <1>2. CASE (RunOne \/ CommitAll) /\ ~UNCHANGED <<log, known>>
    <2>1. PICK w \in Seq(Text) : log' = Logged(w) /\ known' = Len(log') /\ tx' = Nothing
      <3>1. CASE RunOne
        BY <1>1, <1>2, <3>1, EffectTyped DEF RunOne
      <3>2. CASE CommitAll
        BY <1>1, <1>2, <3>2 DEF CommitAll
      <3>3. QED
        BY <1>2, <3>1, <3>2
    <2>2. log' \in Seq(Block) /\ Len(log') \in Nat
      BY <2>1, LoggedTyped
    <2>3. QED
      BY <2>1, <2>2 DEF Generation
  <1>3. CASE Begin
    <2>1. PICK base \in Bases : tx' = [base |-> base, writes |-> NoWrites] /\ known' = base
      BY <1>3 DEF Begin
    <2>2. log' = log /\ base \in known..Len(log) /\ NoWrites \in Seq(Text)
      BY <1>3, <2>1 DEF Begin, Bases, Generation, NoWrites
    <2>3. known' \in 0..Generation' /\ base \in Bases'
      BY <1>1, <2>1, <2>2 DEF Generation, Bases
    <2>4. QED
      BY <1>1, <2>1, <2>2, <2>3
  <1>4. CASE Foreign
    <2>1. [by |-> "other", writes |-> NoWrites] \in Block
      BY DEF Block, NoWrites
    <2>2. /\ log' \in Seq(Block) /\ Len(log') >= Len(log) /\ known' = known /\ tx' = tx
      BY <1>1, <1>4, <2>1 DEF Foreign
    <2>3. QED
      BY <2>2, TransactionKept
  <1>5. CASE Open
    <2>1. log' = log /\ known' = Len(log) /\ tx' = Nothing
      BY <1>5 DEF Open, TypeOK, Generation
    <2>2. known' \in 0..Generation'
      BY <1>1, <2>1 DEF Generation
    <2>3. QED
      BY <1>1, <2>1, <2>2
  <1>6. CASE RunInside
    <2> DEFINE w == tx.writes \o Effect(statement)
    <2>1. /\ log' = log /\ known' = known /\ tx # Nothing
          /\ tx' = [tx EXCEPT !.writes = w]
      BY <1>6 DEF RunInside
    <2>2. w \in Seq(Text)
      <3>1. tx.writes \in Seq(Text) /\ Effect(statement) \in Seq(Text)
        BY <1>1, <2>1, EffectTyped
      <3>2. QED
        BY <3>1
    <2> HIDE DEF w
    <2>3. log' \in Seq(Block) /\ Len(log') >= Len(log)
      BY <1>1, <2>1
    <2>4. known' \in 0..Generation' /\ tx' \in {Nothing} \cup [base : Bases', writes : Seq(Text)]
      BY <2>1, <2>2, <2>3, TransactionKept
    <2>5. QED
      BY <2>3, <2>4
  <1>7. CASE UNCHANGED <<log, known>> /\ tx' \in {tx, Nothing}
    <2>1. log' \in Seq(Block) /\ Len(log') >= Len(log)
      BY <1>1, <1>7
    <2>2. QED
      BY <1>7, <2>1, TransactionKept
  <1>8. CASE (RunOne \/ CommitAll) /\ UNCHANGED <<log, known>>
    <2>1. tx' \in {tx, Nothing}
      BY <1>8 DEF RunOne, CommitAll
    <2>2. QED
      BY <1>7, <1>8, <2>1
  <1>9. CASE \/ UNCHANGED vars \/ ParseGiven \/ OpenFails \/ (\E line \in Lines : ReadLine(line))
             \/ EndOfInput \/ ReadFails \/ DiscardOrQuit \/ Refuse \/ RunOneFails \/ BeginFails
             \/ RunInsideFails \/ RollBack \/ CommitFails
    <2>1. UNCHANGED <<log, known>> /\ tx' \in {tx, Nothing}
      BY <1>9 DEF vars, ParseGiven, OpenFails, ReadLine, EndOfInput, ReadFails, DiscardOrQuit,
         Refuse, RunOneFails, BeginFails, RunInsideFails, RollBack, CommitFails, Leave
    <2>2. QED
      BY <1>7, <2>1
  <1>10. CASE RunOne \/ CommitAll
    BY <1>2, <1>8, <1>10
  <1>11. QED
    BY <1>3, <1>4, <1>5, <1>6, <1>9, <1>10 DEF Next

\* Every variable has a value of its kind, and no transaction outlives the
\* command, whatever is typed, given or fails.
THEOREM ReplTyped == Spec => []TypeOK
  <1>1. Init => TypeOK
    <2>1. ASSUME Init
          PROVE  TypeOK
      <3>1. <<>> \in Text /\ <<>> \in Seq(Told) /\ <<>> \in Seq(Block)
        BY DEF Text
      <3>2. MaxLines \in Nat
        BY ReplAssumption
      <3>3. lines \in 0..MaxLines
        <4>1. lines = 0
          BY <2>1 DEF Init
        <4>2. QED
          BY <3>2, <4>1
      <3>4. Progress /\ tx = Nothing
        BY <2>1, <3>3 DEF Init, Progress
      <3>5. log = <<>> /\ known = 0 /\ Len(<<>>) = 0
        BY <2>1 DEF Init
      <3>6. known \in 0..Generation
        BY <3>5 DEF Generation
      <3>7. statement \in Text
        BY <2>1, <3>1, Parsed_ DEF Init
      <3>8. QED
        BY <2>1, <3>1, <3>3, <3>4, <3>6, <3>7, TypeParts DEF Init
    <2>2. QED
      BY <2>1
  <1>2. ASSUME TypeOK, [Next]_vars
        PROVE  TypeOK'
    <2>1. told' \in Seq(Told)
      <3>1. told \in Seq(Told) /\ statement \in Text
        BY <1>2, Kinds
      <3>2. ASSUME NEW done \in BOOLEAN
            PROVE  [text |-> statement, done |-> done] \in Told
        BY <3>1 DEF Told
      <3>3. CASE told' = told
        BY <3>1, <3>3
      <3>4. ASSUME NEW done \in BOOLEAN, Tell(done)
            PROVE  told' \in Seq(Told)
        <4>1. told' = Append(told, [text |-> statement, done |-> done])
          BY <3>4 DEF Tell
        <4>2. QED
          BY <3>1, <3>2, <4>1, AppendProperties
      <3>5. QED
        BY <1>2, <3>3, <3>4, ToldStep
    <2>2. Progress' /\ buffer' \in Text /\ statement' \in Text
      BY <1>2, ProgressStep, ReadingStep
    <2>3. /\ log' \in Seq(Block) /\ known' \in 0..Generation'
          /\ tx' \in {Nothing} \cup [base : Bases', writes : Seq(Text)]
      BY <1>2, DatabaseStep
    <2>4. QED
      BY <2>1, <2>2, <2>3 DEF TypeOK, Progress, Told, Block
  <1>3. QED
    BY <1>1, <1>2, PTL DEF Spec

-----------------------------------------------------------------------------
(* What the user is told is what is committed.                             *)

LEMMA CommandsApart ==
  /\ Commands.begin # Commands.commit /\ Commands.begin # Commands.rollback
  /\ Commands.commit # Commands.rollback
  /\ \A t \in Parsed : t # <<>> /\ t \notin {Commands.begin, Commands.commit, Commands.rollback}
  /\ <<>> \notin {Commands.begin, Commands.commit, Commands.rollback}
  /\ Writes \subseteq Parsed
  <1>1. \A t \in Parsed : t # <<>> /\ t[1] # ":"
    BY ReplAssumption
  <1>2. /\ Commands.begin = <<":", "b">> /\ Commands.commit = <<":", "c">>
        /\ Commands.rollback = <<":", "r">>
    BY DEF Commands
  <1>3. /\ Commands.begin[1] = ":" /\ Commands.commit[1] = ":" /\ Commands.rollback[1] = ":"
        /\ Commands.begin[2] = "b" /\ Commands.commit[2] = "c" /\ Commands.rollback[2] = "r"
        /\ Commands.begin # <<>> /\ Commands.commit # <<>> /\ Commands.rollback # <<>>
    BY <1>2
  <1>4. "b" # "c" /\ "b" # "r" /\ "c" # "r"
    OBVIOUS
  <1>5. Writes \subseteq Parsed
    BY DEF Parsed
  <1>6. QED
    BY <1>1, <1>3, <1>4, <1>5

\* Nothing follows from what was not done.
LEMMA NotDone ==
  ASSUME NEW so \in Conclusion, NEW entry \in Told, ~entry.done
  PROVE  Conclude(so, entry) = so
  <1> DEFINE said == IF entry.done THEN entry.text ELSE <<>>
             after == Conclude(so, entry)
  <1>1. said = <<>> /\ <<>> \notin Writes
    BY CommandsApart
  <1>2. after.open = so.open /\ after.pending = so.pending /\ after.kept = so.kept
    <2>1. /\ said # Commands.begin /\ said \notin {Commands.commit, Commands.rollback}
          /\ said \notin Writes
      BY <1>1, CommandsApart
    <2>2. so.open \in BOOLEAN
      BY DEF Conclusion
    <2>3. /\ after.open = (\/ said = Commands.begin
                           \/ so.open /\ said \notin {Commands.commit, Commands.rollback})
          /\ after.pending = IF said = Commands.begin THEN NoWrites
                             ELSE IF so.open /\ said \in Writes THEN Append(so.pending, said)
                             ELSE so.pending
          /\ after.kept = IF said = Commands.commit /\ so.pending # NoWrites
                          THEN Append(so.kept, so.pending)
                          ELSE IF ~so.open /\ said \in Writes THEN Append(so.kept, <<said>>)
                          ELSE so.kept
      BY DEF Conclude
    <2> HIDE DEF said, after
    <2>4. QED
      BY <2>1, <2>2, <2>3
  <1>3. after = [open |-> after.open, pending |-> after.pending, kept |-> after.kept]
    BY DEF Conclude
  <1>4. so = [open |-> so.open, pending |-> so.pending, kept |-> so.kept]
    BY DEF Conclusion
  <1> HIDE DEF after
  <1>5. after = so
    BY <1>2, <1>3, <1>4
  <1>6. QED
    BY <1>5 DEF after

\* What follows from what was done.
LEMMA Done ==
  ASSUME NEW so \in Conclusion, NEW text
  PROVE  LET after == Conclude(so, [text |-> text, done |-> TRUE])
         IN  /\ text = Commands.begin =>
                  after.open /\ after.pending = NoWrites /\ after.kept = so.kept
             /\ text = Commands.rollback =>
                  ~after.open /\ after.kept = so.kept
             /\ text = Commands.commit =>
                  /\ ~after.open
                  /\ after.kept = IF so.pending = NoWrites THEN so.kept
                                  ELSE Append(so.kept, so.pending)
             /\ text \in Parsed =>
                  /\ after.open <=> so.open
                  /\ after.pending = IF so.open /\ text \in Writes THEN Append(so.pending, text)
                                     ELSE so.pending
                  /\ after.kept = IF ~so.open /\ text \in Writes THEN Append(so.kept, <<text>>)
                                  ELSE so.kept
  <1> DEFINE after == Conclude(so, [text |-> text, done |-> TRUE])
  <1>1. /\ after.open = (\/ text = Commands.begin
                         \/ so.open /\ text \notin {Commands.commit, Commands.rollback})
        /\ after.pending = IF text = Commands.begin THEN NoWrites
                           ELSE IF so.open /\ text \in Writes THEN Append(so.pending, text)
                           ELSE so.pending
        /\ after.kept = IF text = Commands.commit /\ so.pending # NoWrites
                        THEN Append(so.kept, so.pending)
                        ELSE IF ~so.open /\ text \in Writes THEN Append(so.kept, <<text>>)
                        ELSE so.kept
    BY DEF Conclude
  <1>2. so.open \in BOOLEAN
    BY DEF Conclusion
  <1> HIDE DEF after
  <1>3. CASE text = Commands.begin
    BY <1>1, <1>3, CommandsApart DEF after
  <1>4. CASE text = Commands.rollback
    BY <1>1, <1>4, CommandsApart DEF after
  <1>5. CASE text = Commands.commit
    BY <1>1, <1>5, CommandsApart DEF after
  <1>6. CASE text \in Parsed
    BY <1>1, <1>2, <1>6, CommandsApart DEF after
  <1>7. QED
    BY <1>3, <1>4, <1>5, <1>6

LEMMA ConcludedTyped ==
  ASSUME TypeOK
  PROVE  Concluded \in Conclusion
  <1>1. told \in Seq(Told) /\ Len(told) \in 0..Len(told)
    BY Kinds
  <1>2. Conclusions(told) \in [0..Len(told) -> Conclusion]
    BY <1>1, ConclusionsAre
  <1>3. QED
    BY <1>1, <1>2 DEF Concluded

\* What follows when the session tells one more thing.
LEMMA Telling ==
  ASSUME TypeOK, NEW done \in BOOLEAN, Tell(done)
  PROVE  /\ Concluded' = Conclude(Concluded, [text |-> statement, done |-> done])
         /\ told' # <<>>
         /\ told = <<>> => told'[1].done = done
  <1> DEFINE entry == [text |-> statement, done |-> done]
  <1>1. told \in Seq(Told) /\ statement \in Text
    BY Kinds
  <1>2. entry \in Told
    BY <1>1 DEF Told
  <1>3. told' = Append(told, entry)
    BY DEF Tell
  <1>4. entry.done = done
    OBVIOUS
  <1> HIDE DEF entry
  <1>5. /\ Len(told') = Len(told) + 1 /\ told' # <<>>
        /\ told = <<>> => told'[1] = entry
    BY <1>1, <1>2, <1>3
  <1>6. Conclusions(Append(told, entry))[Len(told) + 1] = Conclude(Conclusions(told)[Len(told)], entry)
    BY <1>1, <1>2, OneMoreTold
  <1>7. QED
    BY <1>3, <1>4, <1>5, <1>6 DEF Concluded, entry

\* The blocks of this command when the log grows.
LEMMA Growing ==
  ASSUME TypeOK, NEW block \in Block, log' = Append(log, block)
  PROVE  Mine' = Own(Mine, block)
  <1>1. log \in Seq(Block)
    BY Kinds
  <1>2. Len(log') = Len(log) + 1
    BY <1>1
  <1>3. OwnBlocks(Append(log, block))[Len(log) + 1] = Own(OwnBlocks(log)[Len(log)], block)
    BY <1>1, OneMoreBlock
  <1>4. QED
    BY <1>2, <1>3 DEF Mine

LEMMA Keeping ==
  ASSUME TypeOK, NEW w \in Seq(Text), log' = Logged(w)
  PROVE  Mine' = IF w = NoWrites THEN Mine ELSE Append(Mine, w)
  <1>1. CASE w = NoWrites
    BY <1>1 DEF Logged, Mine
  <1>2. CASE w # NoWrites
    <2> DEFINE block == [by |-> "me", writes |-> w]
    <2>1. block \in Block
      BY DEF Block
    <2>2. log' = Append(log, block)
      BY <1>2 DEF Logged
    <2>3. Own(Mine, block) = Append(Mine, w)
      BY DEF Own
    <2> HIDE DEF block
    <2>4. Mine' = Own(Mine, block)
      BY <2>1, <2>2, Growing
    <2>5. QED
      BY <1>2, <2>3, <2>4
  <1>3. QED
    BY <1>1, <1>2

\* What has been committed is exactly what the user has been told is committed,
\* whatever is typed, whatever fails and whatever other processes commit.
THEOREM ToldIsCommitted == Spec => []CommittedAsTold
  <1>1. ASSUME Init
        PROVE  CommittedAsTold
    <2>1. told = <<>> /\ log = <<>> /\ tx = Nothing /\ pc # "ended"
      BY <1>1 DEF Init
    <2>2. <<>> \in Seq(Told) /\ <<>> \in Seq(Block) /\ Len(<<>>) = 0
      OBVIOUS
    <2>3. Conclusions(<<>>)[0] = NothingTold /\ OwnBlocks(<<>>)[0] = <<>>
      BY <2>2, ConclusionsAre, OwnBlocksAre
    <2>4. Concluded = NothingTold /\ Mine = <<>>
      BY <2>1, <2>2, <2>3 DEF Concluded, Mine
    <2>5. QED
      BY <2>1, <2>4 DEF CommittedAsTold, NothingTold
  <1>2. ASSUME TypeOK, TypeOK', CommittedAsTold, [Next]_vars
        PROVE  CommittedAsTold'
    <2> DEFINE c == Concluded
    <2>1. /\ Mine = c.kept
          /\ pc # "ended" => (c.open <=> tx # Nothing)
          /\ pc # "ended" /\ tx # Nothing => tx.writes = c.pending
          /\ mode = "immediate" /\ pc # "ended" => told = <<>>
          /\ mode = "immediate" /\ pc = "ended" => (class = "success" <=> told # <<>> /\ told[1].done)
      BY <1>2 DEF CommittedAsTold
    <2>2. /\ c \in Conclusion /\ c.open \in BOOLEAN /\ c.pending \in Seq(Text)
          /\ statement \in Text
      BY <1>2, ConcludedTyped, Kinds DEF Conclusion
    <2>3. tx # Nothing => /\ mode # "immediate" /\ pc # "ended"
                          /\ tx \in [base : Nat, writes : Seq(Text)]
      BY <1>2, Kinds DEF TypeOK
    <2>4. ASSUME UNCHANGED <<told, log>>, pc' # "ended" => UNCHANGED tx /\ pc # "ended",
                 mode' = mode, mode = "immediate" /\ pc' = "ended" => told = <<>> /\ class' # "success"
          PROVE  CommittedAsTold'
      <3>1. Concluded' = c /\ Mine' = Mine
        BY <2>4 DEF Concluded, Mine
      <3> HIDE DEF c
      <3>2. QED
        BY <2>1, <2>4, <3>1 DEF CommittedAsTold
    <2>5. ASSUME Tell(FALSE), UNCHANGED <<log, mode>>, pc # "ended", pc' # "ended" => UNCHANGED tx,
                 mode = "immediate" => pc' = "ended" /\ class' # "success"
          PROVE  CommittedAsTold'
      <3>1. Mine' = Mine
        BY <2>5 DEF Mine
      <3>2. [text |-> statement, done |-> FALSE] \in Told
        BY <2>2 DEF Told
      <3>3. Conclude(c, [text |-> statement, done |-> FALSE]) = c
        BY <2>2, <3>2, NotDone
      <3>4. Concluded' = c /\ (told = <<>> => ~told'[1].done)
        BY <1>2, <2>5, <3>3, Telling
      <3> HIDE DEF c
      <3>5. QED
        BY <2>1, <2>5, <3>1, <3>4 DEF CommittedAsTold
    <2>6. CASE UNCHANGED vars
      BY <2>1, <2>4, <2>6, <1>2 DEF vars, CommittedAsTold, Mine, Concluded
    <2>7. CASE ParseGiven \/ Open \/ OpenFails
      BY <2>1, <2>4, <2>7 DEF ParseGiven, Open, OpenFails, End
    <2>8. CASE \E line \in Lines : ReadLine(line)
      BY <1>2, <2>4, <2>8 DEF ReadLine, TypeOK
    <2>9. CASE EndOfInput \/ ReadFails \/ DiscardOrQuit
      BY <1>2, <2>4, <2>9 DEF EndOfInput, ReadFails, DiscardOrQuit, Leave, End, Reading, Dispatch, TypeOK
    <2>10. CASE Refuse \/ RunInsideFails
      BY <2>3, <2>5, <2>10 DEF Refuse, RunInsideFails, Reading, Loop
    <2>11. CASE RunOneFails
      BY <2>5, <2>11 DEF RunOneFails, Fail, End, Reading, Loop
    <2>12. CASE BeginFails \/ CommitFails
      BY <2>3, <2>5, <2>12 DEF BeginFails, CommitFails, End, Reading, Dispatch
    <2>13. CASE RunOne
      <3>1. /\ statement \in Parsed /\ tx = Nothing /\ tx' = tx /\ mode' = mode /\ pc = "dispatch"
        BY <2>13 DEF RunOne, Reading
      <3>2. CASE log' = Logged(Effect(statement)) /\ Tell(TRUE) /\ GoOn
        <4> DEFINE more == Conclude(c, [text |-> statement, done |-> TRUE])
        <4>1. ~c.open
          BY <2>1, <3>1
        <4>2. Concluded' = more /\ (told = <<>> => told' # <<>> /\ told'[1].done)
          BY <1>2, <3>2, Telling
        <4>3. /\ ~more.open
              /\ more.kept = IF statement \in Writes THEN Append(c.kept, <<statement>>) ELSE c.kept
          <5> HIDE DEF c
          <5>1. QED
            BY <2>2, <3>1, <4>1, Done
        <4>4. Mine' = IF statement \in Writes THEN Append(Mine, <<statement>>) ELSE Mine
          <5>1. /\ Effect(statement) \in Seq(Text)
                /\ Effect(statement) = IF statement \in Writes THEN <<statement>> ELSE NoWrites
            BY <2>2, EffectTyped DEF Effect
          <5>2. <<statement>> # NoWrites
            BY DEF NoWrites
          <5>3. QED
            BY <1>2, <3>2, <5>1, <5>2, Keeping
        <4>5. mode = "immediate" => pc' = "ended" /\ class' = "success"
          BY <1>2, <3>2 DEF GoOn, End
        <4> HIDE DEF c, more
        <4>6. QED
          BY <2>1, <3>1, <4>2, <4>3, <4>4, <4>5 DEF CommittedAsTold
      <3>3. CASE Tell(FALSE) /\ Fail("conflict") /\ UNCHANGED <<log, known>>
        BY <2>5, <3>1, <3>3 DEF Fail, End
      <3>4. QED
        BY <2>13, <3>2, <3>3 DEF RunOne
    <2>14. CASE Begin
      <3> DEFINE more == Conclude(c, [text |-> statement, done |-> TRUE])
      <3>1. /\ statement = Commands.begin /\ log' = log /\ mode' = mode /\ mode = "session"
            /\ Tell(TRUE)
        BY <2>14 DEF Begin, Dispatch, Reading
      <3>2. tx' # Nothing /\ tx'.writes = NoWrites
        <4>1. PICK base \in Bases : tx' = [base |-> base, writes |-> NoWrites]
          BY <2>14 DEF Begin
        <4>2. base \in Nat /\ NoWrites \in Seq(Text)
          <5>1. known \in Nat /\ Len(log) \in Nat
            BY <1>2, Kinds
          <5>2. QED
            BY <4>1, <5>1 DEF Bases, Generation, NoWrites
        <4>3. QED
          BY <4>1, <4>2, ReplAssumption
      <3>3. Concluded' = more
        BY <1>2, <3>1, Telling
      <3>4. more.open /\ more.pending = NoWrites /\ more.kept = c.kept
        <4> HIDE DEF c
        <4>1. QED
          BY <2>2, <3>1, Done
      <3>5. Mine' = Mine
        BY <3>1 DEF Mine
      <3> HIDE DEF c, more
      <3>6. QED
        BY <2>1, <3>1, <3>2, <3>3, <3>4, <3>5 DEF CommittedAsTold
    <2>15. CASE RunInside
      <3> DEFINE more == Conclude(c, [text |-> statement, done |-> TRUE])
      <3>1. /\ statement \in Parsed /\ tx # Nothing /\ log' = log /\ mode' = mode
            /\ Tell(TRUE) /\ tx' = [tx EXCEPT !.writes = @ \o Effect(statement)]
        BY <2>15 DEF RunInside, Reading
      <3>2. /\ tx \in [base : Nat, writes : Seq(Text)] /\ mode = "session" /\ c.open
            /\ tx.writes = c.pending
        BY <1>2, <2>1, <2>3, <3>1 DEF TypeOK
      <3>3. /\ tx' # Nothing
            /\ tx'.writes = IF statement \in Writes THEN Append(tx.writes, statement) ELSE tx.writes
        <4> DEFINE w == tx.writes \o Effect(statement)
        <4>1. /\ tx.writes \in Seq(Text) /\ Effect(statement) \in Seq(Text)
              /\ Effect(statement) = IF statement \in Writes THEN <<statement>> ELSE <<>>
          BY <2>2, <3>2, EffectTyped DEF Effect, NoWrites
        <4>2. w \in Seq(Text)
          BY <4>1
        <4>3. w = IF statement \in Writes THEN Append(tx.writes, statement) ELSE tx.writes
          <5>1. tx.writes \o <<statement>> = Append(tx.writes, statement)
            BY <2>2, <4>1, AppendIsConcat
          <5>2. tx.writes \o <<>> = tx.writes
            BY <4>1, ConcatEmptySeq
          <5>3. QED
            BY <4>1, <5>1, <5>2
        <4> HIDE DEF w
        <4>4. tx' \in [base : Nat, writes : Seq(Text)] /\ tx'.writes = w
          BY <3>1, <3>2, <4>2 DEF w
        <4>5. QED
          BY <4>3, <4>4, ReplAssumption
      <3>4. Concluded' = more
        BY <1>2, <3>1, Telling
      <3>5. /\ more.open /\ more.kept = c.kept
            /\ more.pending = IF statement \in Writes THEN Append(c.pending, statement) ELSE c.pending
        <4> HIDE DEF c
        <4>1. QED
          BY <2>2, <3>1, <3>2, Done
      <3>6. Mine' = Mine
        BY <3>1 DEF Mine
      <3> HIDE DEF c, more
      <3>7. QED
        BY <2>1, <3>1, <3>2, <3>3, <3>4, <3>5, <3>6 DEF CommittedAsTold
    <2>16. CASE RollBack
      <3> DEFINE more == Conclude(c, [text |-> statement, done |-> TRUE])
      <3>1. /\ statement = Commands.rollback /\ tx # Nothing /\ log' = log /\ mode' = mode
            /\ Tell(TRUE) /\ tx' = Nothing
        BY <2>16 DEF RollBack, Dispatch, Reading
      <3>2. Concluded' = more /\ Mine' = Mine
        BY <1>2, <3>1, Telling DEF Mine
      <3>3. ~more.open /\ more.kept = c.kept
        <4> HIDE DEF c
        <4>1. QED
          BY <2>2, <3>1, Done
      <3> HIDE DEF c, more
      <3>4. QED
        BY <2>1, <2>3, <3>1, <3>2, <3>3 DEF CommittedAsTold
    <2>17. CASE CommitAll
      <3>1. /\ statement = Commands.commit /\ tx # Nothing /\ mode' = mode /\ tx' = Nothing
            /\ pc = "dispatch" /\ tx.writes \in Seq(Text) /\ tx.writes = c.pending
        BY <2>1, <2>3, <2>17 DEF CommitAll, Dispatch, Reading
      <3>2. CASE log' = Logged(tx.writes) /\ Tell(TRUE)
        <4> DEFINE more == Conclude(c, [text |-> statement, done |-> TRUE])
        <4>1. Concluded' = more
          BY <1>2, <3>2, Telling
        <4>2. ~more.open /\ more.kept = IF c.pending = NoWrites THEN c.kept
                                        ELSE Append(c.kept, c.pending)
          <5> HIDE DEF c
          <5>1. QED
            BY <2>2, <3>1, Done
        <4>3. Mine' = IF tx.writes = NoWrites THEN Mine ELSE Append(Mine, tx.writes)
          BY <1>2, <3>1, <3>2, Keeping
        <4> HIDE DEF c, more
        <4>4. QED
          BY <2>1, <2>3, <3>1, <4>1, <4>2, <4>3 DEF CommittedAsTold
      <3>3. CASE Tell(FALSE) /\ End("conflict") /\ UNCHANGED <<buffer, known, log>>
        BY <2>3, <2>5, <3>1, <3>3 DEF End
      <3>4. QED
        BY <2>17, <3>2, <3>3 DEF CommitAll
    <2>18. CASE Foreign
      <3> DEFINE block == [by |-> "other", writes |-> NoWrites]
      <3>1. block \in Block
        BY DEF Block, NoWrites
      <3>2. log' = Append(log, block) /\ UNCHANGED <<pc, mode, told, tx, class>>
        BY <2>18 DEF Foreign
      <3>3. Own(Mine, block) = Mine
        BY DEF Own
      <3> HIDE DEF block
      <3>4. Mine' = Own(Mine, block)
        BY <1>2, <3>1, <3>2, Growing
      <3>5. Concluded' = c
        BY <3>2 DEF Concluded
      <3> HIDE DEF c
      <3>6. QED
        BY <2>1, <3>2, <3>3, <3>4, <3>5 DEF CommittedAsTold
    <2>19. QED
      BY <1>2, <2>6, <2>7, <2>8, <2>9, <2>10, <2>11, <2>12, <2>13, <2>14, <2>15, <2>16, <2>17, <2>18
      DEF Next
  <1>3. QED
    BY <1>1, <1>2, ReplTyped, PTL DEF Spec

-----------------------------------------------------------------------------
(* Where a statement ends.                                                 *)

\* The two readers agree after the same characters.
Matches(s, k) ==
  /\ s.escaped = k.escaped
  /\ s.quoted = (k.quote # "")
  /\ k.quote # "" => k.quote \in Chars

LEMMA MatchesNext ==
  ASSUME NEW s \in Reader, NEW k \in ReaderInKind, Matches(s, k), NEW c \in Chars,
         k.quote # "" /\ ~k.escaped /\ c \in {"\"", "'"} => c = k.quote
  PROVE  Matches(After(s, c), AfterInKind(k, c))
  <1> DEFINE s1 == After(s, c)
             k1 == AfterInKind(k, c)
  <1>1. /\ s.quoted \in BOOLEAN /\ s.escaped \in BOOLEAN /\ k.escaped \in BOOLEAN
        /\ k.quote \in {"", "\"", "'"}
        /\ s.escaped = k.escaped /\ s.quoted = (k.quote # "")
        /\ k.quote # "" => k.quote \in Chars
    BY DEF Reader, ReaderInKind, Matches
  <1>2. /\ s1.escaped = (~s.escaped /\ s.quoted /\ c = "\\")
        /\ s1.quoted = IF ~s.escaped /\ c \in {"\"", "'"} THEN ~s.quoted ELSE s.quoted
    BY DEF After
  <1>3. /\ k1.escaped = (~k.escaped /\ k.quote # "" /\ c = "\\")
        /\ k1.quote = IF k.escaped \/ c \notin {"\"", "'"} THEN k.quote
                      ELSE IF k.quote = "" THEN c
                      ELSE IF k.quote = c THEN "" ELSE k.quote
    BY DEF AfterInKind
  <1> HIDE DEF s1, k1
  <1>4. c \in {"\"", "'"} /\ k.quote # "" /\ ~k.escaped => k.quote = c
    OBVIOUS
  <1>5. CASE s.escaped \/ c \notin {"\"", "'"}
    <2>1. k1.quote = k.quote /\ s1.quoted = s.quoted /\ s1.escaped = k1.escaped
      BY <1>1, <1>2, <1>3, <1>5
    <2>2. QED
      BY <1>1, <2>1 DEF Matches, s1, k1
  <1>6. CASE ~s.escaped /\ c \in {"\"", "'"}
    <2>1. /\ k1.quote = IF k.quote = "" THEN c ELSE ""
          /\ s1.quoted = ~s.quoted
          /\ ~s1.escaped /\ ~k1.escaped
      BY <1>1, <1>2, <1>3, <1>4, <1>6
    <2>2. /\ s1.escaped = k1.escaped /\ s1.quoted = (k1.quote # "")
          /\ k1.quote # "" => k1.quote \in Chars
      <3>1. s1.escaped \in BOOLEAN /\ k1.escaped \in BOOLEAN /\ c # ""
        BY <1>2, <1>3, <1>6
      <3>2. QED
        BY <1>1, <2>1, <3>1
    <2>3. QED
      BY <2>2 DEF Matches, s1, k1
  <1>7. QED
    BY <1>5, <1>6

\* Where no literal holds a quote of the other kind, terminator finds the first `;` outside a literal.
LEMMA SameEnd ==
  ASSUME NEW t \in Text, Unmixed(t)
  PROVE  Terminator(t) = ProperEnd(t)
  <1> DEFINE n == Len(t)
             same == {i \in 0..n : Matches(Inside(t)[i], Literal(t)[i])}
  <1>1. n \in Nat /\ \A i \in 1..n : t[i] \in Chars
    BY DEF Text
  <1>2. /\ \A i \in 0..n : Inside(t)[i] \in Reader
        /\ Inside(t)[0] = Outside
        /\ \A i \in 1..n : Inside(t)[i] = After(Inside(t)[i - 1], t[i])
    BY InsideIs
  <1>3. /\ \A i \in 0..n : Literal(t)[i] \in ReaderInKind
        /\ Literal(t)[0] = NoLiteral
        /\ \A i \in 1..n : Literal(t)[i] = AfterInKind(Literal(t)[i - 1], t[i])
    BY LiteralIs
  <1>4. 0 \in same
    <2>1. Matches(Outside, NoLiteral)
      BY DEF Matches, Outside, NoLiteral
    <2>2. QED
      BY <1>1, <1>2, <1>3, <2>1
  <1>5. ASSUME NEW i \in 1..n, i - 1 \in same
        PROVE  i \in same
    <2>1. i - 1 \in 0..n /\ i \in 0..n
      BY <1>1
    <2>2. Matches(Inside(t)[i - 1], Literal(t)[i - 1])
      BY <1>5
    <2>3. Matches(After(Inside(t)[i - 1], t[i]), AfterInKind(Literal(t)[i - 1], t[i]))
      <3>1. Inside(t)[i - 1] \in Reader /\ Literal(t)[i - 1] \in ReaderInKind /\ t[i] \in Chars
        BY <1>1, <1>2, <1>3, <2>1
      <3>2. LET k == Literal(t)[i - 1]
            IN  k.quote # "" /\ ~k.escaped /\ t[i] \in {"\"", "'"} => t[i] = k.quote
        BY DEF Unmixed
      <3>3. QED
        BY <2>2, <3>1, <3>2, MatchesNext
    <2>4. QED
      BY <1>2, <1>3, <2>1, <2>3
  <1>6. \A i \in 0..n : Matches(Inside(t)[i], Literal(t)[i])
    <2>1. n \in Nat
      BY <1>1
    <2>2. 0..n \subseteq same
      <3> HIDE DEF n, same
      <3>1. QED
        BY <1>4, <1>5, <2>1, IntervalInduct
    <2>3. QED
      BY <2>2
  <1>7. \A i \in 1..n : (~Inside(t)[i - 1].quoted) = (Literal(t)[i - 1].quote = "")
    <2>1. SUFFICES ASSUME NEW i \in 1..n
                   PROVE  (~Inside(t)[i - 1].quoted) = (Literal(t)[i - 1].quote = "")
      OBVIOUS
    <2>2. i - 1 \in 0..n
      BY <1>1
    <2>3. Inside(t)[i - 1].quoted = (Literal(t)[i - 1].quote # "")
      BY <1>6, <2>2 DEF Matches
    <2>4. QED
      BY <2>3
  <1> DEFINE open == {i \in 1..n : ~Inside(t)[i - 1].quoted}
             openInKind == {i \in 1..n : Literal(t)[i - 1].quote = ""}
  <1>8. open = openInKind
    BY <1>7
  <1>9. Terminator(t) = FirstSemicolon(t, open) /\ ProperEnd(t) = FirstSemicolon(t, openInKind)
    BY DEF Terminator, ProperEnd
  <1> HIDE DEF open, openInKind
  <1>10. QED
    BY <1>8, <1>9

LEMMA NothingEnds == ProperEnd(<<>>) = 0
  <1> DEFINE found == {i \in {j \in 1..Len(<<>>) : Literal(<<>>)[j - 1].quote = ""} : <<>>[i] = ";"}
  <1>1. found = {}
    OBVIOUS
  <1>2. QED
    BY <1>1 DEF ProperEnd, FirstSemicolon

\* Nothing is read before the database is open.
NothingRead == pc \in {"parse", "open"} => buffer = <<>>

\* A session waits for the rest of a statement until the first `;` outside a
\* string literal, and runs what was before it, whenever no literal of what it has
\* read holds a quote of the other kind.
THEOREM EndsProperly == Spec => []UnmixedEndsAtTerminator
  <1>1. Init => NothingRead /\ UnmixedEndsAtTerminator
    BY DEF Init, NothingRead, UnmixedEndsAtTerminator, EndsAtTerminator
  <1>2. ASSUME TypeOK, NothingRead, UnmixedEndsAtTerminator, [Next]_vars
        PROVE  NothingRead' /\ UnmixedEndsAtTerminator'
    <2>1. ASSUME pc' = "ended"
          PROVE  NothingRead' /\ UnmixedEndsAtTerminator'
      BY <2>1 DEF NothingRead, UnmixedEndsAtTerminator, EndsAtTerminator
    <2>2. ASSUME Loop
          PROVE  NothingRead' /\ UnmixedEndsAtTerminator'
      BY <2>2, NothingEnds DEF Loop, NothingRead, UnmixedEndsAtTerminator, EndsAtTerminator
    <2>3. ASSUME UNCHANGED <<pc, mode, buffer, statement>>
          PROVE  NothingRead' /\ UnmixedEndsAtTerminator'
      BY <1>2, <2>3 DEF NothingRead, UnmixedEndsAtTerminator, EndsAtTerminator
    <2>4. CASE UNCHANGED vars \/ Foreign
      BY <2>3, <2>4 DEF vars, Foreign
    <2>5. CASE ParseGiven
      <3>1. CASE pc' = "ended"
        BY <2>1, <3>1
      <3>2. CASE pc' = "open" /\ UNCHANGED class
        BY <1>2, <2>5, <3>2 DEF ParseGiven, NothingRead, UnmixedEndsAtTerminator, EndsAtTerminator
      <3>3. QED
        BY <2>5, <3>1, <3>2 DEF ParseGiven, End
    <2>6. CASE Open
      <3>1. buffer' = <<>> /\ mode' = mode /\ pc' = IF mode = "session" THEN "read" ELSE "dispatch"
        BY <1>2, <2>6 DEF Open, NothingRead
      <3>2. QED
        BY <3>1, NothingEnds DEF NothingRead, UnmixedEndsAtTerminator, EndsAtTerminator
    <2>7. CASE OpenFails \/ ReadFails \/ DiscardOrQuit \/ BeginFails \/ CommitFails
      BY <2>1, <2>7 DEF OpenFails, ReadFails, DiscardOrQuit, BeginFails, CommitFails, Leave, End
    <2>8. CASE Refuse \/ Begin \/ RunInside \/ RunInsideFails \/ RollBack
      BY <2>2, <2>8 DEF Refuse, Begin, RunInside, RunInsideFails, RollBack
    <2>9. CASE RunOne \/ RunOneFails
      BY <2>1, <2>2, <2>9 DEF RunOne, RunOneFails, GoOn, Fail, End
    <2>10. CASE CommitAll
      BY <2>1, <2>2, <2>10 DEF CommitAll, End
    <2>11. CASE EndOfInput
      <3>1. CASE Leave
        BY <2>1, <3>1 DEF Leave, End
      <3>2. CASE pc' = "dispatch" /\ statement' = <<>>
        BY <3>2 DEF NothingRead, UnmixedEndsAtTerminator, EndsAtTerminator
      <3>3. QED
        BY <2>11, <3>1, <3>2 DEF EndOfInput
    <2>12. ASSUME NEW line \in Lines, ReadLine(line)
           PROVE  NothingRead' /\ UnmixedEndsAtTerminator'
      <3>1. line \in Text /\ buffer' \in Text /\ pc = "read" /\ mode' = mode
        BY <1>2, <2>12, Parsed_, ReadingStep DEF ReadLine
      <3>2. CASE buffer = <<>> /\ IsCommand(line)
        <4>1. statement' = Trim(line) /\ pc' = "dispatch"
          BY <2>12, <3>2 DEF ReadLine
        <4>2. IsCommand(Trim(line))
          BY <3>1, <3>2, CommandTrimmed
        <4>3. QED
          BY <4>1, <4>2 DEF NothingRead, UnmixedEndsAtTerminator, EndsAtTerminator
      <3>3. CASE ~(buffer = <<>> /\ IsCommand(line)) /\ Unmixed(buffer')
        <4> DEFINE read == buffer \o WithEnd(line)
                   end == Terminator(read)
        <4>1. /\ buffer' = read
              /\ end = 0 => pc' = pc /\ statement' = statement
              /\ end # 0 => pc' = "dispatch" /\ statement' = Trim(SubSeq(read, 1, end - 1))
          BY <2>12, <3>3 DEF ReadLine
        <4>2. end = ProperEnd(read)
          <5> HIDE DEF read
          <5>1. read \in Text
            BY <3>1, <4>1
          <5>2. Unmixed(read)
            BY <3>3, <4>1
          <5>3. QED
            BY <5>1, <5>2, SameEnd
        <4> HIDE DEF read, end
        <4>3. QED
          BY <3>1, <4>1, <4>2 DEF NothingRead, UnmixedEndsAtTerminator, EndsAtTerminator
      <3>4. CASE ~Unmixed(buffer')
        <4>1. pc' \in {"read", "dispatch"}
          BY <2>12, <3>1 DEF ReadLine
        <4>2. QED
          BY <3>4, <4>1 DEF NothingRead, UnmixedEndsAtTerminator
      <3>5. QED
        BY <3>2, <3>3, <3>4
    <2>13. QED
      BY <1>2, <2>4, <2>5, <2>6, <2>7, <2>8, <2>9, <2>10, <2>11, <2>12 DEF Next
  <1>3. QED
    BY <1>1, <1>2, ReplTyped, PTL DEF Spec

=============================================================================
