---------------------------- MODULE ChunkingProofs ----------------------------
(***************************************************************************)
(* Theorems about Chunking, for texts of any length, any number of pages   *)
(* and every setting the configuration accepts: no word is lost, chunks    *)
(* fit and are new, and the loop moves on.                                 *)
(***************************************************************************)
EXTENDS Chunking, TLAPS, SequenceTheorems, WellFoundedInduction

-----------------------------------------------------------------------------
(* The window *)

(* A set of positions that is not empty and has a bound has a greatest one. *)
LEMMA Greatest ==
  ASSUME NEW S \in SUBSET Nat, S # {}, NEW n \in Nat, \A i \in S : i <= n
  PROVE  Max(S) \in S /\ \A i \in S : i <= Max(S)
<1> DEFINE T == {j \in Nat : n - j \in S}
           R == {ss \in Nat \X Nat : ss[1] < ss[2]}
<1>1. IsWellFoundedOn(R, Nat) BY NatLessThanWellFounded DEF OpToRel
<1>2. T \subseteq Nat OBVIOUS
<1>3. \A i \in S : n - i \in T
  <2> TAKE i \in S
  <2>1. i \in Nat /\ i <= n OBVIOUS
  <2>2. n - i \in Nat /\ n - (n - i) = i BY <2>1
  <2> QED BY <2>2
<1>4. T # {} BY <1>3
<1>5. \E x \in T : \A y \in T : ~ (<<y, x>> \in R)
  <2> HIDE DEF T, R
  <2> QED BY <1>1, <1>2, <1>4, WFMin, Zenon
<1>6. PICK x \in T : \A y \in T : ~ (<<y, x>> \in R) BY <1>5
<1>7. \A y \in T : x <= y
  <2> TAKE y \in T
  <2>1. x \in Nat /\ y \in Nat /\ ~ (<<y, x>> \in R) BY <1>6
  <2>2. ~ (y < x) BY <2>1
  <2> QED BY <2>1, <2>2
<1>8. n - x \in S OBVIOUS
<1>9. \A i \in S : n - x >= i
  <2> TAKE i \in S
  <2>1. x <= n - i BY <1>3, <1>7
  <2>2. x \in Nat /\ i \in Nat OBVIOUS
  <2> QED BY <2>1, <2>2
<1> HIDE DEF T, R
<1>10. \E m \in S : \A i \in S : m >= i BY <1>8, <1>9
<1>11. Max(S) \in S /\ \A i \in S : Max(S) >= i BY <1>10 DEF Max
<1> QED BY <1>11

(* A text of at most MaxLength characters is a sequence of them. *)
LEMMA TextIs ==
  ASSUME NEW text \in Texts
  PROVE  /\ text \in Seq(Characters)
         /\ Len(text) \in 0..MaxLength
         /\ text # <<>> => Len(text) > 0
         /\ Normalized(text)
<1>1. PICK n \in 0..MaxLength : text \in [1..n -> Characters] BY DEF Texts
<1>2. n \in Nat BY BoundsAssumption
<1>3. text \in Seq(Characters) BY <1>1, <1>2, SeqDef
<1>4. Len(text) = n BY <1>1, <1>2, <1>3, LenProperties
<1>5. text # <<>> => Len(text) > 0 BY <1>3
<1>6. Normalized(text) BY DEF Texts
<1> QED BY <1>1, <1>3, <1>4, <1>5, <1>6

(* The page under the window. *)
LEMMA TextHere ==
  ASSUME TypeOK, page <= Len(pages)
  PROVE  Text \in Texts /\ page \in 1..Len(pages) /\ Len(pages) \in 0..MaxPages
<1>1. Len(pages) \in Nat BY LenProperties DEF TypeOK
<1>2. page \in 1..Len(pages) BY <1>1 DEF TypeOK
<1> QED BY <1>1, <1>2, ElementOfSeq, BoundsAssumption DEF TypeOK, Text

(* The window begins where it should, has at most size characters and ends  *)
(* in the page: at its end, when it is full, or before a space in its       *)
(* second half.                                                             *)
LEMMA WindowEnds ==
  ASSUME TypeOK, page <= Len(pages), Len(Text) > 0
  PROVE  /\ start \in Nat /\ End \in Nat /\ start < End /\ End <= Len(Text)
         /\ End <= start + size
         /\ End < Len(Text) => \/ End = start + size
                               \/ End > start + size \div 2 /\ Text[End + 1] = "space"
<1>1. /\ start \in Nat /\ size \in Nat /\ size >= 1 /\ Len(Text) \in Nat /\ start < Len(Text)
  BY TextHere, TextIs, BoundsAssumption DEF TypeOK
<1>2. /\ Full \in Nat /\ start < Full /\ Full <= Len(Text) /\ Full <= start + size
      /\ Full < Len(Text) => Full = start + size
  BY <1>1 DEF Full
<1>3. PICK half \in Nat : half = size \div 2 BY <1>1
<1>4. PICK spaces :
        spaces = {i \in (start + half + 1)..(Full - 1) : Text[i + 1] = "space"}
  OBVIOUS
<1>5. \A i \in spaces : i \in Nat /\ start + half < i /\ i < Full /\ Text[i + 1] = "space"
  <2>1. \A i \in (start + half + 1)..(Full - 1) : i \in Nat /\ start + half < i /\ i < Full
    BY <1>1, <1>2
  <2> QED BY <1>4, <2>1
<1>6. End = IF Full < Len(Text) /\ spaces # {} THEN Max(spaces) ELSE Full
  BY <1>3, <1>4 DEF End
<1>7. CASE Full < Len(Text) /\ spaces # {}
  <2>1. spaces \in SUBSET Nat /\ \A i \in spaces : i <= Full BY <1>2, <1>5
  <2>2. End \in spaces BY <1>2, <1>6, <1>7, <2>1, Greatest
  <2>3. End \in Nat /\ End > start + half /\ End < Full /\ Text[End + 1] = "space"
    BY <1>1, <1>5, <2>2
  <2>4. start < End /\ End <= Len(Text) /\ End <= start + size BY <1>1, <1>2, <2>3
  <2> QED BY <1>1, <1>3, <2>3, <2>4
<1>8. CASE ~ (Full < Len(Text) /\ spaces # {})
  BY <1>1, <1>2, <1>6, <1>8
<1> QED BY <1>7, <1>8

(* The chunk a window makes has every word in it and no space at its ends;  *)
(* a window without a chunk has no word.                                    *)
LEMMA WindowChunk ==
  ASSUME TypeOK, page <= Len(pages), Len(Text) > 0
  PROVE  \/ /\ NewChunks = <<>>
            /\ End < Len(Text) /\ End = start + 1 /\ Text[End] = "space"
         \/ \E from, to \in Nat :
              /\ NewChunks = <<[index |-> Len(chunks), page |-> page, from |-> from, to |-> to]>>
              /\ start < from /\ from <= to /\ to <= End
              /\ Text[from] # "space" /\ Text[to] # "space"
              /\ \A i \in (start + 1)..End : Text[i] # "space" => from <= i /\ i <= to
              /\ to = End \/ (to = End - 1 /\ Text[End] = "space")
<1>1. /\ start \in Nat /\ End \in Nat /\ start < End /\ Len(Text) \in Nat /\ End <= Len(Text)
  BY WindowEnds, TextHere, TextIs, BoundsAssumption
<1>2. Len(Text) \in Nat /\ Normalized(Text) BY TextHere, TextIs, BoundsAssumption
<1>3. \A i \in 1..Len(Text) :
        Text[i] = "space" => i > 1 /\ i < Len(Text) /\ Text[i + 1] # "space"
  BY <1>2 DEF Normalized
<1>4. PICK from \in Nat : from = IF Text[start + 1] = "space" THEN start + 2 ELSE start + 1
  BY <1>1
<1>5. start + 1 \in 1..Len(Text) /\ End \in 1..Len(Text) BY <1>1, <1>2
<1>6. Text[start + 1] = "space" => Text[start + 2] # "space" /\ start + 1 < Len(Text)
  <2>1. (start + 1) + 1 = start + 2 BY <1>1
  <2> QED BY <1>3, <1>5, <2>1
<1>7. Text[End] = "space" => End > 1 /\ End < Len(Text) /\ Text[End - 1] # "space"
  <2>1. ASSUME Text[End] = "space", Text[End - 1] = "space" PROVE FALSE
    <3>1. End > 1 BY <1>3, <1>5, <2>1
    <3>2. End - 1 \in 1..Len(Text) /\ (End - 1) + 1 = End BY <1>1, <1>2, <3>1
    <3> QED BY <1>3, <2>1, <3>2
  <2> QED BY <1>3, <1>5, <2>1
<1>8. PICK to \in Nat : to = IF Text[End] = "space" THEN End - 1 ELSE End BY <1>1, <1>7
<1>9. NewChunks = IF from <= to
        THEN <<[index |-> Len(chunks), page |-> page, from |-> from, to |-> to]>> ELSE <<>>
  BY <1>4, <1>8 DEF NewChunks
<1>10. /\ from = start + 1 \/ (from = start + 2 /\ Text[start + 1] = "space")
       /\ to = End \/ (to = End - 1 /\ Text[End] = "space")
       /\ start < from /\ to <= End
  BY <1>1, <1>4, <1>8
<1>11. Text[from] # "space" /\ Text[to] # "space" BY <1>4, <1>6, <1>7, <1>8
<1>12. \A i \in (start + 1)..End : Text[i] # "space" => from <= i /\ i <= to
  <2> SUFFICES ASSUME NEW i \in (start + 1)..End, Text[i] # "space" PROVE from <= i /\ i <= to
    OBVIOUS
  <2>1. i \in Nat /\ start + 1 <= i /\ i <= End BY <1>1
  <2>2. Text[start + 1] = "space" => i # start + 1 OBVIOUS
  <2>3. Text[End] = "space" => i # End OBVIOUS
  <2> QED BY <1>1, <1>10, <2>1, <2>2, <2>3
<1>13. CASE from <= to
  BY <1>9, <1>10, <1>11, <1>12, <1>13
<1>14. CASE ~ (from <= to)
  <2>1. CASE End = start + 1
    BY <1>1, <1>7, <1>9, <1>10, <1>14, <2>1
  <2>2. CASE End > start + 1
    <3>1. from = start + 2 /\ to = End - 1 /\ End = start + 2 BY <1>1, <1>10, <1>14, <2>2
    <3>2. start + 2 # start + 1 /\ End # End - 1 BY <1>1
    <3>3. Text[start + 1] = "space" /\ Text[End] = "space" BY <1>10, <3>1, <3>2
    <3> QED BY <1>6, <3>1, <3>3
  <2> QED BY <1>1, <2>1, <2>2
<1> QED BY <1>13, <1>14

(* What a window does to the chunks: none, or one after those there are. *)
LEMMA Appended ==
  ASSUME TypeOK, NEW c, c \in Chunk, chunks' = chunks \o <<c>>
  PROVE  /\ chunks' \in Seq(Chunk) /\ Len(chunks) \in Nat /\ Len(chunks') = Len(chunks) + 1
         /\ \A k \in 1..Len(chunks) : chunks'[k] = chunks[k]
         /\ chunks'[Len(chunks) + 1] = c
<1>1. chunks \in Seq(Chunk) /\ Len(chunks) \in Nat BY LenProperties DEF TypeOK
<1> QED BY <1>1

-----------------------------------------------------------------------------
(* The step *)

(* Every chunk so far is of a page that has been begun; those of the page   *)
(* under the window end before it does, and not after the part of it that   *)
(* the next window has in common with them.                                 *)
Behind ==
  \A k \in 1..Len(chunks) :
    /\ chunks[k].page <= page
    /\ chunks[k].page = page =>
         page <= Len(pages) /\ chunks[k].to <= start + overlap /\ chunks[k].to < Len(Text)

IInv == TypeOK /\ Covered /\ ChunksSound /\ EachChunkNew /\ Behind

(* Where a window leaves the loop: on the next page, or further on this one *)
(* but not past what has been read.                                         *)
LEMMA Advance ==
  ASSUME TypeOK, Window
  PROVE  /\ page \in 1..Len(pages) /\ Len(Text) > 0
         /\ pages' = pages /\ size' = size /\ overlap' = overlap
         /\ \/ End = Len(Text) /\ page' = page + 1 /\ start' = 0
            \/ /\ End < Len(Text) /\ page' = page
               /\ start' \in Nat /\ start < start' /\ start' <= End /\ End <= start' + overlap
<1>1. page <= Len(pages) /\ Text # <<>> BY DEF Window
<1>2. page \in 1..Len(pages) /\ Len(Text) > 0 /\ Len(Text) \in Nat
  BY <1>1, TextHere, TextIs, BoundsAssumption
<1>3. start \in Nat /\ End \in Nat /\ start < End /\ End <= Len(Text) BY <1>1, <1>2, WindowEnds
<1>4. overlap \in Nat
  <2>1. size \in Nat /\ overlap \in 0..(size - 1) BY BoundsAssumption DEF TypeOK
  <2> QED BY <2>1
<1>5. CASE End = Len(Text) BY <1>2, <1>5 DEF Window
<1>6. CASE End # Len(Text)
  <2>1. start' = NextStart /\ page' = page BY <1>6 DEF Window
  <2>2. NextStart \in Nat /\ start < NextStart /\ NextStart <= End /\ End <= NextStart + overlap
    BY <1>3, <1>4 DEF NextStart, Larger
  <2> QED BY <1>2, <1>3, <1>6, <2>1, <2>2 DEF Window
<1> QED BY <1>5, <1>6

(* What a window appends has the type of a chunk. *)
LEMMA ChunkType ==
  ASSUME TypeOK, page <= Len(pages), Len(Text) > 0,
         NEW from \in Nat, NEW to \in Nat, start < from, from <= to, to <= End
  PROVE  [index |-> Len(chunks), page |-> page, from |-> from, to |-> to] \in Chunk
<1>1. Len(chunks) \in Nat BY LenProperties DEF TypeOK
<1>2. /\ Len(Text) \in Nat /\ Len(Text) <= MaxLength /\ page \in Nat /\ 1 <= page
      /\ page <= MaxPages /\ MaxLength \in Nat /\ MaxPages \in Nat
  BY TextHere, TextIs, BoundsAssumption
<1>3. start \in Nat /\ End \in Nat /\ End <= Len(Text) BY WindowEnds
<1>4. from \in 1..MaxLength /\ to \in 1..MaxLength /\ page \in 1..MaxPages BY <1>2, <1>3
<1> QED BY <1>1, <1>4 DEF Chunk

(* No step leaves the types. *)
LEMMA TypeStep == TypeOK /\ [Next]_vars => TypeOK'
<1> SUFFICES ASSUME TypeOK, [Next]_vars PROVE TypeOK'
  OBVIOUS
<1>1. CASE UNCHANGED vars BY <1>1 DEF vars, TypeOK, Text
<1>2. CASE SkipPage
  <2>1. page \in 1..Len(pages) /\ Len(pages) \in Nat
    BY <1>2, TextHere, BoundsAssumption DEF SkipPage
  <2>2. start = 0
    <3>1. Text = <<>> /\ page <= Len(pages) BY <1>2 DEF SkipPage
    <3>2. Len(Text) = 0 BY <3>1
    <3>3. start \in Nat /\ (start < Len(Text) \/ start = 0) BY <3>1, BoundsAssumption DEF TypeOK
    <3> QED BY <3>2, <3>3
  <2>3. page' \in 1..(Len(pages) + 1) BY <1>2, <2>1 DEF SkipPage
  <2> QED BY <1>2, <2>2, <2>3 DEF SkipPage, TypeOK
<1>3. CASE Window
  <2>1. /\ page \in 1..Len(pages) /\ Len(pages) \in Nat /\ Len(Text) \in Nat
        /\ Len(Text) <= MaxLength /\ MaxLength \in Nat
    BY <1>3, Advance, TextHere, TextIs, BoundsAssumption
  <2>2. End \in Nat /\ page <= Len(pages) /\ Len(Text) > 0 BY <1>3, Advance, WindowEnds, <2>1
  <2>3. chunks' \in Seq(Chunk)
    <3>1. chunks' = chunks \o NewChunks BY <1>3 DEF Window
    <3>2. CASE NewChunks = <<>> BY <3>1, <3>2 DEF TypeOK
    <3>3. ASSUME NEW from \in Nat, NEW to \in Nat, start < from, from <= to, to <= End,
            NewChunks = <<[index |-> Len(chunks), page |-> page, from |-> from, to |-> to]>>
          PROVE  chunks' \in Seq(Chunk)
      BY <2>2, <3>1, <3>3, ChunkType, Appended
    <3> QED BY <2>2, <3>2, <3>3, WindowChunk
  <2>4. CASE page' = page + 1 /\ start' = 0
    <3>1. page' \in 1..(Len(pages) + 1) BY <2>1, <2>4
    <3>2. start' \in 0..MaxLength BY <2>1, <2>4
    <3> QED BY <1>3, <2>3, <2>4, <3>1, <3>2, Advance DEF TypeOK
  <2>5. CASE page' = page /\ start' \in Nat /\ start' <= End /\ End < Len(Text)
    <3>1. start' \in 0..MaxLength /\ start' < Len(Text) BY <2>1, <2>2, <2>5
    <3>2. pages' = pages /\ size' = size /\ overlap' = overlap BY <1>3, Advance
    <3>3. Text' = Text BY <2>5, <3>2 DEF Text
    <3> QED BY <2>3, <2>5, <3>1, <3>2, <3>3 DEF TypeOK
  <2> QED BY <1>3, <2>4, <2>5, Advance
<1> QED BY <1>1, <1>2, <1>3 DEF Next

(* A window that ends at End appends the chunk with these ends. *)
Adds(from, to) ==
  /\ Len(chunks') = Len(chunks) + 1
  /\ chunks'[Len(chunks) + 1] =
       [index |-> Len(chunks), page |-> page, from |-> from, to |-> to]
  /\ start < from /\ from <= to /\ to <= End
  /\ Text[from] # "space" /\ Text[to] # "space"
  /\ \A i \in (start + 1)..End : Text[i] # "space" => from <= i /\ i <= to
  /\ to = End \/ (to = End - 1 /\ Text[End] = "space")

(* What a window does to the chunks, in terms of the window alone. *)
LEMMA Grown ==
  ASSUME TypeOK, Window
  PROVE  /\ Len(chunks) \in Nat
         /\ \A k \in 1..Len(chunks) : chunks'[k] = chunks[k]
         /\ \/ /\ Len(chunks') = Len(chunks)
               /\ End < Len(Text) /\ End = start + 1 /\ Text[End] = "space"
            \/ \E from, to \in Nat : Adds(from, to)
<1>1. page <= Len(pages) /\ Len(Text) > 0 /\ Len(chunks) \in Nat
  BY Advance, LenProperties DEF TypeOK, Window
<1>2. chunks' = chunks \o NewChunks BY DEF Window
<1>3. CASE NewChunks = <<>> /\ End < Len(Text) /\ End = start + 1 /\ Text[End] = "space"
  <2>1. chunks' = chunks BY <1>2, <1>3 DEF TypeOK
  <2> QED BY <1>1, <1>3, <2>1
<1>4. ASSUME NEW from \in Nat, NEW to \in Nat, start < from, from <= to, to <= End,
        NewChunks = <<[index |-> Len(chunks), page |-> page, from |-> from, to |-> to]>>
      PROVE  /\ Len(chunks') = Len(chunks) + 1
             /\ \A k \in 1..Len(chunks) : chunks'[k] = chunks[k]
             /\ chunks'[Len(chunks) + 1] =
                  [index |-> Len(chunks), page |-> page, from |-> from, to |-> to]
  BY <1>1, <1>2, <1>4, ChunkType, Appended
<1>5. \/ NewChunks = <<>> /\ End < Len(Text) /\ End = start + 1 /\ Text[End] = "space"
      \/ \E from, to \in Nat :
           /\ NewChunks = <<[index |-> Len(chunks), page |-> page, from |-> from, to |-> to]>>
           /\ start < from /\ from <= to /\ to <= End
           /\ Text[from] # "space" /\ Text[to] # "space"
           /\ \A i \in (start + 1)..End : Text[i] # "space" => from <= i /\ i <= to
           /\ to = End \/ (to = End - 1 /\ Text[End] = "space")
  BY <1>1, WindowChunk
<1> QED BY <1>1, <1>3, <1>4, <1>5 DEF Adds

(* No word is lost: a window keeps every word between its ends, and the     *)
(* next one begins where it ended, or before.                               *)
LEMMA CoveredStep ==
  ASSUME TypeOK, Covered, Window
  PROVE  Covered'
<1>1. SUFFICES ASSUME NEW q \in 1..Len(pages), NEW i \in 1..Len(pages[q]),
                      q < page' \/ (q = page' /\ i <= start'), pages[q][i] # "space"
               PROVE  \E k \in 1..Len(chunks') :
                        chunks'[k].page = q /\ chunks'[k].from <= i /\ i <= chunks'[k].to
  BY Advance DEF Covered
<1>2. /\ page \in 1..Len(pages) /\ Len(pages) \in Nat /\ Len(Text) \in Nat
      /\ start \in Nat /\ End \in Nat /\ start < End /\ End <= Len(Text)
  BY Advance, TextHere, TextIs, WindowEnds, BoundsAssumption
<1>3. Len(pages[q]) \in Nat /\ i \in Nat /\ 1 <= i /\ i <= Len(pages[q])
  <2>1. pages[q] \in Texts BY ElementOfSeq DEF TypeOK
  <2> QED BY <2>1, TextIs, BoundsAssumption
<1>4. Len(chunks) \in Nat /\ Len(chunks') \in Nat /\ Len(chunks) <= Len(chunks')
  <2>1. Len(chunks) \in Nat /\ Len(chunks') \in {Len(chunks), Len(chunks) + 1}
    BY Grown DEF Adds
  <2> QED BY <2>1
<1>5. CASE q < page \/ (q = page /\ i <= start)
  <2>1. PICK k \in 1..Len(chunks) :
          chunks[k].page = q /\ chunks[k].from <= i /\ i <= chunks[k].to
    BY <1>1, <1>5 DEF Covered
  <2>2. chunks'[k] = chunks[k] /\ k \in 1..Len(chunks') BY <1>4, Grown
  <2> QED BY <2>1, <2>2
<1>6. CASE q = page /\ start < i
  <2>1. i \in (start + 1)..End /\ Text[i] # "space"
    <3>1. i <= End
      <4>1. Len(pages[q]) = Len(Text) BY <1>6 DEF Text
      <4>2. CASE End = Len(Text) BY <1>3, <4>1, <4>2
      <4>3. CASE page' = page /\ start' \in Nat /\ start' <= End
        BY <1>1, <1>2, <1>3, <1>6, <4>3
      <4> QED BY <4>2, <4>3, Advance
    <3> QED BY <1>1, <1>2, <1>3, <1>6, <3>1 DEF Text
  <2>2. PICK from, to \in Nat : Adds(from, to)
    <3>1. ~ (End = start + 1 /\ Text[End] = "space")
      <4>1. End = start + 1 => i = End BY <1>2, <2>1
      <4> QED BY <2>1, <4>1
    <3> QED BY <3>1, Grown
  <2>3. Len(chunks) + 1 \in 1..Len(chunks') BY <1>4, <2>2 DEF Adds
  <2>4. from <= i /\ i <= to BY <2>1, <2>2 DEF Adds
  <2> QED BY <1>6, <2>2, <2>3, <2>4 DEF Adds
<1>7. q < page \/ q = page
  <2>1. q \in Nat BY <1>2
  <2>2. CASE page' = page BY <1>1, <2>2
  <2>3. CASE page' = page + 1 /\ start' = 0 BY <1>1, <1>2, <1>3, <2>1, <2>3
  <2> QED BY <2>2, <2>3, Advance
<1> QED BY <1>2, <1>3, <1>5, <1>6, <1>7

(* A chunk fits, begins and ends with a word and is numbered in order. *)
LEMMA SoundStep ==
  ASSUME TypeOK, ChunksSound, Window
  PROVE  ChunksSound'
<1> SUFFICES ASSUME NEW k \in 1..Len(chunks')
             PROVE  /\ chunks'[k].index = k - 1
                    /\ chunks'[k].from <= chunks'[k].to
                    /\ chunks'[k].to - chunks'[k].from < size
                    /\ pages[chunks'[k].page][chunks'[k].from] # "space"
                    /\ pages[chunks'[k].page][chunks'[k].to] # "space"
  BY Advance DEF ChunksSound
<1>1. Len(chunks) \in Nat /\ Len(chunks') \in Nat BY Grown
<1>2. CASE k \in 1..Len(chunks) BY <1>2, Grown DEF ChunksSound
<1>3. CASE k \notin 1..Len(chunks)
  <2>1. PICK from, to \in Nat : Adds(from, to) BY <1>1, <1>3, Grown
  <2>2. k = Len(chunks) + 1 BY <1>1, <1>3, <2>1 DEF Adds
  <2>3. /\ start \in Nat /\ End \in Nat /\ End <= start + size /\ size \in Nat
    BY Advance, WindowEnds, BoundsAssumption DEF TypeOK
  <2>4. to - from < size BY <2>1, <2>3 DEF Adds
  <2>5. k - 1 = Len(chunks) BY <1>1, <2>2
  <2> QED BY <2>1, <2>2, <2>4, <2>5 DEF Text, Adds
<1> QED BY <1>2, <1>3

(* A window ends behind the chunks before it on its page: at the end of the *)
(* page it passes them, and the part in common with them, at most half its  *)
(* size, is shorter than what it reads.                                     *)
LEMMA NewStep ==
  ASSUME TypeOK, EachChunkNew, Behind, Window
  PROVE  EachChunkNew'
<1> SUFFICES ASSUME size > 2, overlap <= size \div 2, NEW k \in 2..Len(chunks'),
                    chunks'[k].page = chunks'[k - 1].page
             PROVE  chunks'[k - 1].to < chunks'[k].to
  BY Advance DEF EachChunkNew
<1>1. /\ Len(chunks) \in Nat /\ Len(chunks') \in {Len(chunks), Len(chunks) + 1}
      /\ \A j \in 1..Len(chunks) : chunks'[j] = chunks[j]
  BY Grown DEF Adds
<1>2. k \in Nat /\ k - 1 \in 1..Len(chunks) BY <1>1
<1>3. CASE k \in 1..Len(chunks)
  <2>1. k \in 2..Len(chunks) BY <1>1, <1>2, <1>3
  <2> QED BY <1>1, <1>2, <1>3, <2>1 DEF EachChunkNew
<1>4. CASE k \notin 1..Len(chunks)
  <2>1. k = Len(chunks) + 1 /\ Len(chunks') = Len(chunks) + 1 BY <1>1, <1>2, <1>4
  <2>2. PICK to :
          /\ chunks'[k].page = page /\ chunks'[k].to = to
          /\ to = End \/ (to = End - 1 /\ Text[End] = "space")
    <3>1. PICK from, to \in Nat : Adds(from, to) BY <1>1, <2>1, Grown
    <3> QED BY <2>1, <3>1 DEF Adds
  <2>3. PICK last \in Nat : last = chunks[k - 1].to
    <3>1. chunks[k - 1] \in Chunk BY <1>2, ElementOfSeq DEF TypeOK
    <3>2. chunks[k - 1].to \in Nat BY <3>1, BoundsAssumption DEF Chunk
    <3> QED BY <3>2
  <2>4. last <= start + overlap /\ last < Len(Text)
    <3>1. chunks[k - 1].page = page BY <1>1, <1>2, <2>1, <2>2
    <3> QED BY <1>2, <2>3, <3>1 DEF Behind
  <2>5. /\ start \in Nat /\ End \in Nat /\ start < End /\ End <= Len(Text) /\ Len(Text) \in Nat
        /\ End < Len(Text) => \/ End = start + size
                              \/ End > start + size \div 2 /\ Text[End + 1] = "space"
        /\ \A i \in 1..Len(Text) : Text[i] = "space" => i < Len(Text) /\ Text[i + 1] # "space"
    BY Advance, WindowEnds, TextHere, TextIs, BoundsAssumption DEF Normalized
  <2>6. size \in Nat /\ overlap \in Nat
    <3>1. size \in Nat /\ overlap \in 0..(size - 1) BY BoundsAssumption DEF TypeOK
    <3> QED BY <3>1
  <2>7. End \in 1..Len(Text) BY <2>5
  <2>8. CASE End = Len(Text)
    <3>1. to = End BY <2>2, <2>5, <2>7, <2>8
    <3> QED BY <1>1, <1>2, <2>1, <2>2, <2>3, <2>4, <2>8, <3>1
  <2>9. CASE End = start + size
    <3>1. start + overlap < End - 1 BY <2>5, <2>6, <2>9
    <3>2. last < to BY <2>2, <2>4, <2>5, <2>6, <3>1
    <3> QED BY <1>1, <1>2, <2>1, <2>2, <2>3, <3>2
  <2>10. CASE End < Len(Text) /\ End > start + size \div 2 /\ Text[End + 1] = "space"
    <3>1. Text[End] # "space" BY <2>5, <2>7, <2>10
    <3>2. to = End BY <2>2, <3>1
    <3>3. last < End BY <2>4, <2>5, <2>6, <2>10
    <3> QED BY <1>1, <1>2, <2>1, <2>2, <2>3, <3>2, <3>3
  <2> QED BY <2>5, <2>8, <2>9, <2>10
<1> QED BY <1>3, <1>4

(* Behind holds again for the next window. *)
LEMMA BehindStep ==
  ASSUME TypeOK, Behind, Window
  PROVE  Behind'
<1>1. /\ Len(chunks) \in Nat /\ Len(chunks') \in {Len(chunks), Len(chunks) + 1}
      /\ \A j \in 1..Len(chunks) : chunks'[j] = chunks[j]
  BY Grown DEF Adds
<1>2. /\ page \in 1..Len(pages) /\ Len(pages) \in Nat /\ start \in Nat /\ End \in Nat
      /\ End <= Len(Text) /\ Len(Text) \in Nat
  BY Advance, TextHere, TextIs, WindowEnds, BoundsAssumption
<1>3. overlap \in Nat
  <2>1. size \in Nat /\ overlap \in 0..(size - 1) BY BoundsAssumption DEF TypeOK
  <2> QED BY <2>1
<1> SUFFICES ASSUME NEW k \in 1..Len(chunks')
             PROVE  /\ chunks'[k].page <= page'
                    /\ chunks'[k].page = page' =>
                         /\ page' <= Len(pages) /\ chunks'[k].to <= start' + overlap
                         /\ chunks'[k].to < Len(Text')
  BY Advance DEF Behind
<1>4. PICK p, to \in Nat : /\ chunks'[k].page = p /\ chunks'[k].to = to /\ p <= page
                           /\ (to <= start + overlap /\ to < Len(Text)) \/ to <= End \/ p # page
  <2>1. CASE k \in 1..Len(chunks)
    <3>1. chunks[k] \in Chunk BY <2>1, ElementOfSeq DEF TypeOK
    <3>2. chunks[k].page \in Nat /\ chunks[k].to \in Nat BY <3>1, BoundsAssumption DEF Chunk
    <3>3. /\ chunks[k].page <= page
          /\ chunks[k].page = page => chunks[k].to <= start + overlap /\ chunks[k].to < Len(Text)
      BY <2>1 DEF Behind
    <3> QED BY <1>1, <2>1, <3>2, <3>3
  <2>2. CASE k \notin 1..Len(chunks)
    <3>1. k = Len(chunks) + 1 /\ Len(chunks') = Len(chunks) + 1 BY <1>1, <2>2
    <3>2. PICK from, to \in Nat : Adds(from, to) BY <1>1, <3>1, Grown
    <3> QED BY <1>2, <3>1, <3>2 DEF Adds
  <2> QED BY <2>1, <2>2
<1>5. CASE page' = page + 1 BY <1>2, <1>4, <1>5
<1>6. CASE /\ End < Len(Text) /\ page' = page
           /\ start' \in Nat /\ start < start' /\ End <= start' + overlap
  <2>1. Text' = Text BY <1>6, Advance DEF Text
  <2>2. PICK next \in Nat : next = start' BY <1>6
  <2>3. p = page => to <= start' + overlap
    <3>1. start < next /\ End <= next + overlap BY <1>6, <2>2
    <3>2. p = page => to <= next + overlap BY <1>2, <1>3, <1>4, <3>1
    <3> QED BY <2>2, <3>2
  <2>4. p = page => to < Len(Text) BY <1>2, <1>4, <1>6
  <2> QED BY <1>2, <1>4, <1>6, <2>1, <2>3, <2>4
<1> QED BY <1>5, <1>6, Advance

(* A page without text leaves everything as it is. *)
LEMMA SkipStep ==
  ASSUME IInv, SkipPage
  PROVE  Covered' /\ ChunksSound' /\ EachChunkNew' /\ Behind'
<1>1. /\ page \in 1..Len(pages) /\ Len(pages) \in Nat /\ Len(Text) = 0 /\ page' = page + 1
      /\ pages' = pages /\ size' = size /\ overlap' = overlap /\ chunks' = chunks
  <2>1. Text = <<>> /\ page <= Len(pages) BY DEF SkipPage
  <2>2. page \in 1..Len(pages) /\ Len(pages) \in Nat
    BY <2>1, TextHere, BoundsAssumption DEF IInv
  <2> QED BY <2>1, <2>2 DEF SkipPage
<1>2. start' = 0 /\ start = 0
  <2>1. start \in Nat /\ (start < Len(Text) \/ start = 0)
    BY <1>1, BoundsAssumption DEF IInv, TypeOK
  <2> QED BY <1>1, <2>1 DEF SkipPage
<1>3. ChunksSound' /\ EachChunkNew' BY <1>1 DEF IInv, ChunksSound, EachChunkNew
<1>4. Behind'
  <2>1. ASSUME NEW k \in 1..Len(chunks) PROVE chunks[k].page <= page' /\ chunks[k].page # page'
    <3>1. chunks[k] \in Chunk /\ chunks[k].page <= page
      BY ElementOfSeq DEF IInv, TypeOK, Behind
    <3>2. chunks[k].page \in Nat BY <3>1, BoundsAssumption DEF Chunk
    <3> QED BY <1>1, <3>1, <3>2
  <2> QED BY <1>1, <2>1 DEF Behind
<1>5. Covered'
  <2> SUFFICES ASSUME NEW q \in 1..Len(pages), NEW i \in 1..Len(pages[q]),
                      q < page' \/ (q = page' /\ i <= start'), pages[q][i] # "space"
               PROVE  \E k \in 1..Len(chunks) :
                        chunks[k].page = q /\ chunks[k].from <= i /\ i <= chunks[k].to
    BY <1>1 DEF Covered
  <2>1. i \in Nat /\ 1 <= i /\ Len(pages[q]) \in Nat /\ i <= Len(pages[q])
    <3>1. pages[q] \in Texts BY ElementOfSeq DEF IInv, TypeOK
    <3> QED BY <3>1, TextIs, BoundsAssumption
  <2>2. q # page BY <1>1, <2>1 DEF Text
  <2>3. q < page BY <1>1, <1>2, <2>1, <2>2
  <2> QED BY <2>3 DEF IInv, Covered
<1> QED BY <1>3, <1>4, <1>5

-----------------------------------------------------------------------------
(* The theorems *)

(* The invariant holds at first. *)
LEMMA IInvInit == Init => IInv
<1> SUFFICES ASSUME Init PROVE IInv
  OBVIOUS
<1>1. PICK n \in 0..MaxPages : pages \in [1..n -> Texts] BY DEF Init
<1>2. n \in Nat /\ n <= MaxPages BY BoundsAssumption
<1>3. pages \in Seq(Texts) BY <1>1, <1>2, SeqDef
<1>4. Len(pages) = n BY <1>1, <1>2, <1>3, LenProperties
<1>5. page = 1 /\ start = 0 /\ chunks = <<>> /\ page \in 1..(Len(pages) + 1) /\ start \in 0..MaxLength
  BY <1>2, <1>4, BoundsAssumption DEF Init
<1>6. TypeOK BY <1>2, <1>3, <1>4, <1>5 DEF Init, TypeOK
<1>7. Len(chunks) = 0 BY <1>5
<1>8. ChunksSound /\ EachChunkNew /\ Behind BY <1>7 DEF ChunksSound, EachChunkNew, Behind
<1>9. Covered
  <2>1. \A q \in 1..Len(pages) : \A i \in 1..Len(pages[q]) : ~ (q < page \/ (q = page /\ i <= start))
    <3> SUFFICES ASSUME NEW q \in 1..Len(pages), NEW i \in 1..Len(pages[q])
                 PROVE  ~ (q < 1) /\ ~ (i <= 0)
      BY <1>5
    <3>1. pages[q] \in Texts BY <1>3, ElementOfSeq
    <3>2. Len(pages[q]) \in Nat BY <3>1, TextIs, BoundsAssumption
    <3> QED BY <1>2, <1>4, <3>2
  <2> QED BY <2>1 DEF Covered
<1> QED BY <1>6, <1>8, <1>9 DEF IInv

(* Every step keeps it. *)
LEMMA IInvStep == IInv /\ [Next]_vars => IInv'
<1> SUFFICES ASSUME IInv, [Next]_vars PROVE IInv'
  OBVIOUS
<1>1. TypeOK' BY TypeStep DEF IInv
<1>2. CASE SkipPage BY <1>1, <1>2, SkipStep DEF IInv
<1>3. CASE Window BY <1>1, <1>3, CoveredStep, SoundStep, NewStep, BehindStep DEF IInv
<1>4. CASE UNCHANGED vars
  BY <1>1, <1>4 DEF vars, IInv, Covered, ChunksSound, EachChunkNew, Behind, Text
<1> QED BY <1>2, <1>3, <1>4 DEF Next

(* It holds for ever. *)
LEMMA SpecIInv == Spec => []IInv
BY IInvInit, IInvStep, PTL DEF Spec

(* Every variable keeps its shape, and a window begins inside its page: the *)
(* loop never reads beyond a text.                                          *)
THEOREM SplitTypes == Spec => []TypeOK
<1>1. IInv => TypeOK BY DEF IInv
<1> QED BY <1>1, SpecIInv, PTL

(* split_pages loses no word of any text, with any size and overlap.        *)
THEOREM NoWordLost == Spec => []Covered
<1>1. IInv => Covered BY DEF IInv
<1> QED BY <1>1, SpecIInv, PTL

(* Its chunks fit the size and are numbered in order.                       *)
THEOREM ChunksFit == Spec => []ChunksSound
<1>1. IInv => ChunksSound BY DEF IInv
<1> QED BY <1>1, SpecIInv, PTL

(* With an overlap of at most half the size no chunk lies inside the one    *)
(* before it.                                                               *)
THEOREM ChunksNew == Spec => []EachChunkNew
<1>1. IInv => EachChunkNew BY DEF IInv
<1> QED BY <1>1, SpecIInv, PTL

(* Every iteration moves on, whatever the settings: with texts that end,    *)
(* the loop does.                                                           *)
THEOREM SplitAdvances == Spec => Progress
<1>1. ASSUME IInv, [Next]_vars
      PROVE  [page' > page \/ (page' = page /\ start' > start)]_vars
  <2>1. CASE SkipPage
    <3>1. page \in 1..Len(pages) /\ Len(pages) \in Nat
      BY <1>1, <2>1, TextHere, BoundsAssumption DEF IInv, SkipPage
    <3> QED BY <2>1, <3>1 DEF SkipPage
  <2>2. CASE Window
    <3>1. page \in Nat /\ start \in Nat
      <4>1. page \in 1..Len(pages) /\ Len(pages) \in Nat
        BY <1>1, <2>2, Advance, TextHere, BoundsAssumption DEF IInv
      <4> QED BY <1>1, <4>1, BoundsAssumption DEF IInv, TypeOK
    <3> QED BY <1>1, <2>2, <3>1, Advance DEF IInv
  <2> QED BY <1>1, <2>1, <2>2 DEF Next
<1> QED BY <1>1, SpecIInv, PTL DEF Spec, Progress

-----------------------------------------------------------------------------
(* What Ingestion takes from here (Splits) *)

(* The chunks come in the order of the pages, each from one with a text. *)
Ordered ==
  \A k \in 1..Len(chunks) :
    /\ pages[chunks[k].page] # <<>>
    /\ \A l \in 1..Len(chunks) : k <= l => chunks[k].page <= chunks[l].page

(* A page that has been split has a chunk if, and only if, it has a text.   *)
EachPageSplit ==
  \A q \in 1..Len(pages) :
    q < page => (pages[q] # <<>> <=> \E k \in 1..Len(chunks) : chunks[k].page = q)

LEMMA OrderedStep ==
  ASSUME IInv, Ordered, [Next]_vars
  PROVE  Ordered'
<1>1. CASE SkipPage BY <1>1 DEF SkipPage, Ordered
<1>2. CASE UNCHANGED vars BY <1>2 DEF vars, Ordered
<1>3. CASE Window
  <2>1. TypeOK /\ Behind /\ pages' = pages /\ Len(Text) > 0 BY <1>3, Advance DEF IInv
  <2>2. Len(chunks) \in Nat /\ \A k \in 1..Len(chunks) : chunks'[k] = chunks[k]
    BY <1>3, <2>1, Grown
  <2>3. CASE Len(chunks') = Len(chunks) BY <2>1, <2>2, <2>3 DEF Ordered
  <2>4. CASE Len(chunks') # Len(chunks)
    <3>1. /\ Len(chunks') = Len(chunks) + 1
          /\ chunks'[Len(chunks) + 1].page = page
      <4>1. PICK from, to \in Nat : Adds(from, to) BY <1>3, <2>1, <2>4, Grown
      <4> QED BY <4>1 DEF Adds
    <3>2. pages[page] # <<>>
      <4>1. Len(<<>>) = 0 OBVIOUS
      <4> QED BY <2>1, <4>1 DEF Text
    <3>3. page \in Nat BY <1>3, <2>1, Advance
    <3>4. ASSUME NEW k \in 1..Len(chunks'), NEW l \in 1..Len(chunks'), k <= l
          PROVE  /\ pages[chunks'[k].page] # <<>>
                 /\ chunks'[k].page <= chunks'[l].page
      <4>1. CASE l \in 1..Len(chunks)
        <5>1. k \in 1..Len(chunks) BY <2>2, <3>4, <4>1
        <5> QED BY <2>2, <3>4, <4>1, <5>1 DEF Ordered
      <4>2. CASE l \notin 1..Len(chunks)
        <5>1. l = Len(chunks) + 1 BY <2>2, <3>1, <4>2
        <5>2. CASE k \in 1..Len(chunks)
          <6>1. chunks'[k] = chunks[k] /\ pages[chunks[k].page] # <<>> BY <2>2, <5>2 DEF Ordered
          <6>2. chunks[k].page <= page BY <2>1, <5>2 DEF Behind
          <6>3. chunks'[l].page = page BY <3>1, <5>1
          <6> QED BY <2>1, <6>1, <6>2, <6>3
        <5>3. CASE k \notin 1..Len(chunks)
          <6>1. k = Len(chunks) + 1 BY <2>2, <3>1, <5>3
          <6> QED BY <3>1, <3>2, <3>3, <5>1, <6>1
        <5> QED BY <5>2, <5>3
      <4> QED BY <4>1, <4>2
    <3> QED BY <2>1, <3>4 DEF Ordered
  <2> QED BY <2>3, <2>4
<1> QED BY <1>1, <1>2, <1>3 DEF Next

LEMMA PagesSplit == IInv /\ Ordered => EachPageSplit
<1> SUFFICES ASSUME IInv, Ordered, NEW q \in 1..Len(pages), q < page
             PROVE  pages[q] # <<>> <=> \E k \in 1..Len(chunks) : chunks[k].page = q
  BY DEF EachPageSplit
<1>1. pages[q] \in Texts BY ElementOfSeq DEF IInv, TypeOK
<1>2. ASSUME pages[q] # <<>> PROVE \E k \in 1..Len(chunks) : chunks[k].page = q
  <2>1. Len(pages[q]) \in Nat /\ Len(pages[q]) > 0
    BY <1>1, <1>2, TextIs, BoundsAssumption, EmptySeq
  <2>2. 1 \in 1..Len(pages[q]) BY <2>1
  <2>3. Normalized(pages[q]) BY <1>1 DEF Texts
  <2>4. pages[q][1] # "space" BY <2>2, <2>3 DEF Normalized
  <2> QED BY <2>2, <2>4 DEF IInv, Covered
<1>3. ASSUME NEW k \in 1..Len(chunks), chunks[k].page = q PROVE pages[q] # <<>>
  BY <1>3 DEF Ordered
<1> QED BY <1>2, <1>3

(* The splitter keeps the order of the pages, gives each page with a text   *)
(* at least one chunk, however short the text and whatever the settings,    *)
(* and a blank page none: it is what the pairing with embeddings relies on. *)
THEOREM PagesKept == Spec => [](Ordered /\ EachPageSplit)
<1>1. Init => Ordered
  <2>1. Len(<<>>) = 0 OBVIOUS
  <2> QED BY <2>1 DEF Init, Ordered
<1>2. IInv /\ Ordered /\ [Next]_vars => Ordered' BY OrderedStep
<1>3. IInv /\ Ordered => Ordered /\ EachPageSplit BY PagesSplit
<1> QED BY <1>1, <1>2, <1>3, SpecIInv, PTL DEF Spec

=============================================================================
