--------------------------- MODULE IngestionProofs ---------------------------
(***************************************************************************)
(* What goes unread of a document, for any pages, thresholds and tools,    *)
(* and whose text the stored vectors are, for any limits, batch size and   *)
(* responses.                                                              *)
(***************************************************************************)
EXTENDS Ingestion, TLAPS, FiniteSetTheorems, SequenceTheorems, WellFoundedInduction

(* The thresholds, as numbers. *)
LEMMA Thresholds == MinWords \in Nat /\ ImageArea \in Nat /\ OcrArea \in Nat /\ ImageArea <= OcrArea
BY ThresholdsAssumption

(* A page gets an extractor for what it shows.  The class without any       *)
(* extractor is never reached: a page with too few words, no table and no   *)
(* images to speak of falls back to its text.                               *)
LEMMA SomeExtractor ==
  ASSUME NEW page \in PageShape, NEW set
  PROVE  Extractors(page, set) # {}
BY Thresholds DEF Extractors, ImageOnly, TextOnlyFallback

(* Tables are read by whatever reads the page. *)
LEMMA TablesRead ==
  ASSUME NEW page \in PageShape, NEW set, page.tables
  PROVE  "tables" \in TextOf(page, set)
<1>1. PICK x \in Extractors(page, set) : TRUE BY SomeExtractor
<1>2. x \in {"pymupdf", "pdfplumber", "ocr"} BY <1>1 DEF Extractors
<1>3. "tables" \in Reads(x) BY <1>2 DEF Reads
<1>4. "tables" \in Visible(page) BY DEF Visible
<1> QED BY <1>1, <1>3, <1>4 DEF TextOf

(* Prose is lost only on a page that pdfplumber alone reads. *)
LEMMA ProseUnread ==
  ASSUME NEW page \in PageShape, NEW set, page.prose, "prose" \notin TextOf(page, set)
  PROVE  "tables" \in TextOf(page, set) /\ page.words < MinWords
<1>1. "prose" \in Visible(page) BY DEF Visible
<1>2. "prose" \in Reads("pymupdf") /\ "prose" \in Reads("ocr") BY DEF Reads
<1>3. "pymupdf" \notin Extractors(page, set) /\ "ocr" \notin Extractors(page, set)
  BY <1>1, <1>2 DEF TextOf
<1>4. ~HasText(page) /\ HasTables(page, set)
  BY <1>3 DEF Extractors, TextOnlyFallback
<1>5. page.words < MinWords BY <1>4, Thresholds DEF HasText, PageShape
<1>6. page.tables BY <1>4 DEF HasTables
<1> QED BY <1>5, <1>6, TablesRead

(* Images are read on every page they cover enough of. *)
LEMMA ImagesUnread ==
  ASSUME NEW page \in PageShape, Consistent(page), NEW set, page.legible,
         "images" \notin TextOf(page, set)
  PROVE  page.area < OcrArea
<1>1. "images" \in Visible(page) /\ "images" \in Reads("ocr") BY DEF Visible, Reads
<1>2. "ocr" \notin Extractors(page, set) BY <1>1 DEF TextOf
<1>3. ~OcrHeavy(page) BY <1>2 DEF Extractors
<1>4. page.images BY DEF Consistent
<1> QED BY <1>3, <1>4, Thresholds DEF OcrHeavy, PageShape

(* If a number of words is required at all, a page that shows some text is  *)
(* not left unread: without words there can only be images, and then the    *)
(* page is for Tesseract.                                                   *)
LEMMA SomethingRead ==
  ASSUME NEW page \in PageShape, Consistent(page), NEW set, MinWords > 0, Visible(page) # {}
  PROVE  TextOf(page, set) # {}
<1>1. CASE page.tables BY <1>1, TablesRead
<1>2. CASE page.prose BY <1>2, ProseUnread
<1>3. CASE page.legible /\ ~page.prose /\ ~page.tables
  <2>1. page.words = 0 /\ page.images BY <1>3 DEF Consistent, PageShape
  <2>2. ImageOnly(page, set)
    BY <1>3, <2>1, Thresholds DEF ImageOnly, HasText, HasTables
  <2>3. "ocr" \in Extractors(page, set) BY <2>2 DEF Extractors
  <2>4. "images" \in Visible(page) /\ "images" \in Reads("ocr") BY <1>3 DEF Visible, Reads
  <2> QED BY <2>3, <2>4 DEF TextOf
<1> QED BY <1>1, <1>2, <1>3 DEF Visible

-----------------------------------------------------------------------------
(* The inductive invariant: what has been read of each page is what its     *)
(* extractors read, in the order of the pages.                              *)
ReadInv ==
  /\ document \in Seq(Pages)
  /\ texts \in Seq(SUBSET {"prose", "tables", "images"})
  /\ Len(texts) <= Len(document)
  /\ \A i \in 1..Len(texts) : texts[i] = TextOf(document[i], tools)

LEMMA ReadInit == Init => ReadInv
<1> SUFFICES ASSUME Init PROVE ReadInv
  OBVIOUS
<1>1. PICK n \in 0..MaxPages : document \in [1..n -> Pages] BY DEF Init
<1>2. document \in Seq(Pages) /\ Len(document) = n BY <1>1, LimitsAssumption
<1> QED BY <1>2 DEF Init, ReadInv

(* Only the extraction of a page adds to the texts, and nothing changes the *)
(* document or the tools.                                                   *)
LEMMA ReadStep == ReadInv /\ [Next]_vars => ReadInv'
<1> SUFFICES ASSUME ReadInv, [Next]_vars PROVE ReadInv'
  OBVIOUS
<1>1. CASE ExtractPage
  <2> DEFINE text == TextOf(Page, tools)
  <2>1. text \in SUBSET {"prose", "tables", "images"} BY DEF TextOf, Visible
  <2>2. texts' = Append(texts, text) /\ UNCHANGED <<document, tools>> BY <1>1 DEF ExtractPage
  <2>3. Len(texts) < Len(document) BY <1>1 DEF ExtractPage, Extracting
  <2> HIDE DEF text
  <2>4. /\ texts' \in Seq(SUBSET {"prose", "tables", "images"})
        /\ Len(texts') = Len(texts) + 1 /\ Len(texts') <= Len(document)
    BY <2>1, <2>2, <2>3 DEF ReadInv
  <2>5. ASSUME NEW i \in 1..Len(texts') PROVE texts'[i] = TextOf(document[i], tools)
    <3>1. CASE i \in 1..Len(texts) BY <2>2, <3>1 DEF ReadInv
    <3>2. CASE i = Len(texts) + 1
      <4>1. texts'[i] = text BY <2>2, <3>2 DEF ReadInv
      <4> QED BY <3>2, <4>1 DEF text, Page
    <3> QED BY <2>4, <3>1, <3>2 DEF ReadInv
  <2> QED BY <2>2, <2>4, <2>5 DEF ReadInv
<1>2. CASE UNCHANGED <<document, tools, texts>>
  BY <1>2 DEF ReadInv
<1>3. CASE UNCHANGED vars BY <1>2, <1>3 DEF vars
<1> QED BY <1>1, <1>2, <1>3 DEF Next, OcrMissing, NothingExtracted, Split, EmbedBatch,
           EmbeddingFails, Pair, Fail

(* Whatever the document, the thresholds and the tools, extract_document    *)
(* leaves no table unread, prose only beside a table on a page with few     *)
(* words, images only below the threshold for OCR, and no page wholly.      *)
THEOREM NothingElseUnread == Spec => []PagesRead
<1>1. ReadInv => PagesRead
  <2> SUFFICES ASSUME ReadInv, NEW i \in DOMAIN texts
      PROVE  LET page == document[i]
                 unread == Visible(page) \ texts[i]
             IN  /\ "tables" \notin unread
                 /\ "prose" \in unread => "tables" \in texts[i] /\ page.words < MinWords
                 /\ "images" \in unread => page.area < OcrArea
                 /\ MinWords > 0 /\ Visible(page) # {} => texts[i] # {}
    BY DEF PagesRead
  <2>1. PICK page : page = document[i] OBVIOUS
  <2>2. i \in 1..Len(texts) /\ i \in 1..Len(document) BY DEF ReadInv
  <2>3. page \in PageShape /\ Consistent(page)
    BY <2>1, <2>2, PagesAssumption DEF ReadInv
  <2>4. texts[i] = TextOf(page, tools) BY <2>1, <2>2 DEF ReadInv
  <2>5. /\ "tables" \in Visible(page) => page.tables
        /\ "prose" \in Visible(page) => page.prose
        /\ "images" \in Visible(page) => page.legible
    BY DEF Visible
  <2> QED BY <2>1, <2>3, <2>4, <2>5, TablesRead, ProseUnread, ImagesUnread, SomethingRead
<1> QED BY <1>1, ReadInit, ReadStep, PTL DEF Spec

-----------------------------------------------------------------------------
(* Orders *)

(* A set of numbers that is not empty has a least one. *)
LEMMA Least ==
  ASSUME NEW S \in SUBSET Nat, S # {}
  PROVE  Min(S) \in S /\ \A i \in S : Min(S) <= i
<1> DEFINE R == {ss \in Nat \X Nat : ss[1] < ss[2]}
<1>1. IsWellFoundedOn(R, Nat) BY NatLessThanWellFounded DEF OpToRel
<1>2. \E x \in S : \A y \in S : ~ (<<y, x>> \in R)
  <2> HIDE DEF R
  <2> QED BY <1>1, WFMin, Zenon
<1>3. PICK x \in S : \A y \in S : ~ (<<y, x>> \in R) BY <1>2
<1>4. \A y \in S : x <= y
  <2> TAKE y \in S
  <2>1. x \in Nat /\ y \in Nat /\ ~ (<<y, x>> \in R) BY <1>3
  <2> QED BY <2>1
<1> QED BY <1>4 DEF Min

(* A sequence of n numbers up to n in which each is greater than the one    *)
(* before it is 1, 2, ..., n.                                               *)
LEMMA IncreasingIs ==
  ASSUME NEW n \in Nat, NEW f \in [1..n -> 1..n],
         \A i, j \in 1..n : i < j => f[i] < f[j]
  PROVE  f = [i \in 1..n |-> i]
<1>1. \A i \in 1..n : f[i] >= i
  <2> DEFINE S == {i \in 1..n : f[i] < i}
  <2> SUFFICES ASSUME S # {} PROVE FALSE OBVIOUS
  <2>1. S \in SUBSET Nat OBVIOUS
  <2> DEFINE m == Min(S)
  <2>2. m \in S /\ \A i \in S : m <= i
    <3> HIDE DEF S
    <3> QED BY <2>1, Least
  <2> HIDE DEF m
  <2>3. m \in 1..n /\ f[m] < m /\ f[m] \in 1..n BY <2>2
  <2>4. m - 1 \in 1..n /\ m - 1 < m BY <2>3
  <2>5. f[m - 1] \in 1..n /\ ~ (f[m - 1] < m - 1) BY <2>2, <2>4
  <2>6. f[m - 1] < f[m] BY <2>3, <2>4
  <2> QED BY <2>3, <2>5, <2>6
<1>2. \A i \in 1..n : f[i] <= i
  <2> DEFINE S == {k \in Nat : \E i \in 1..n : k = n - i /\ f[i] > i}
  <2> SUFFICES ASSUME S # {} PROVE FALSE
    <3>1. ASSUME NEW i \in 1..n, f[i] > i PROVE S # {}
      <4>1. n - i \in Nat OBVIOUS
      <4>2. n - i \in S BY <3>1, <4>1
      <4> QED BY <4>2
    <3>2. \A i \in 1..n : f[i] > i => S # {} BY <3>1
    <3> HIDE DEF S
    <3>3. \A i \in 1..n : ~ (f[i] > i) BY <3>2
    <3>4. \A i \in 1..n : f[i] \in 1..n OBVIOUS
    <3> QED BY <3>3, <3>4
  <2>1. S \in SUBSET Nat OBVIOUS
  <2> DEFINE m == Min(S)
  <2>2. m \in S /\ \A k \in S : m <= k
    <3> HIDE DEF S
    <3> QED BY <2>1, Least
  <2> HIDE DEF m
  <2>3. PICK i \in 1..n : m = n - i /\ f[i] > i BY <2>2
  <2>4. i + 1 \in 1..n /\ i < i + 1
    <3>1. f[i] \in 1..n /\ i \in Nat OBVIOUS
    <3> QED BY <2>3, <3>1
  <2>5. ~ (f[i + 1] > i + 1)
    <3> SUFFICES ASSUME f[i + 1] > i + 1 PROVE FALSE OBVIOUS
    <3>1. n - (i + 1) \in Nat /\ n - (i + 1) < n - i BY <2>4
    <3>2. n - (i + 1) \in S BY <2>4, <3>1
    <3> HIDE DEF S
    <3>3. m <= n - (i + 1) BY <2>2, <3>2
    <3> QED BY <2>3, <2>4, <3>1, <3>3
  <2>6. f[i] < f[i + 1] BY <2>4
  <2>7. f[i] \in Int /\ i \in Int OBVIOUS
  <2>8. f[i + 1] \in Int BY <2>4
  <2> DEFINE a == f[i]
             b == f[i + 1]
  <2>9. a \in Int /\ b \in Int /\ a > i /\ ~ (b > i + 1) /\ a < b
    BY <2>3, <2>5, <2>6, <2>7, <2>8
  <2> HIDE DEF a, b
  <2> QED BY <2>7, <2>9
<1>3. ASSUME NEW i \in 1..n PROVE f[i] = i
  <2>1. f[i] \in 1..n /\ f[i] >= i /\ f[i] <= i BY <1>1, <1>2
  <2> QED BY <2>1
<1> QED BY <1>3

(* The sort puts the indices of a response in order, and they are still     *)
(* indices of the batch.                                                    *)
LEMMA SortedByIndex ==
  ASSUME NEW n \in 1..BatchSize, NEW response \in Responses(n)
  PROVE  LET items == ByIndex(response)
         IN  \E m \in Nat :
               /\ items \in [1..m -> 1..n]
               /\ \A j, k \in 1..m : j < k => items[j] <= items[k]
<1>1. PICK m \in 0..(n + 1) : response \in [1..m -> 1..n] BY DEF Responses
<1> DEFINE UpTo(v) == {i \in DOMAIN response : response[i] <= v}
           Places(k) == {v \in 1..BatchSize : Cardinality(UpTo(v)) >= k}
           items == ByIndex(response)
<1>2. n \in Nat /\ BatchSize \in Nat /\ m \in Nat /\ DOMAIN response = 1..m
  BY <1>1, LimitsAssumption
<1>3. ASSUME NEW v PROVE Cardinality(UpTo(v)) \in Nat
  <2>1. IsFiniteSet(1..m) BY <1>2, FS_Interval
  <2>2. UpTo(v) \in SUBSET (1..m) BY <1>2
  <2> HIDE DEF UpTo
  <2>3. IsFiniteSet(UpTo(v)) BY <2>1, <2>2, FS_Subset
  <2> QED BY <2>3, FS_CardinalityType
<1>4. UpTo(n) = 1..m BY <1>1, <1>2
<1>5. Cardinality(UpTo(n)) = m
  <2>1. Cardinality(1..m) = m BY <1>2, FS_Interval
  <2> QED BY <1>4, <2>1
<1>6. ASSUME NEW k \in 1..m PROVE n \in Places(k) BY <1>2, <1>5
<1>7. ASSUME NEW k \in 1..m PROVE Places(k) \in SUBSET Nat BY <1>2
<1>8. ASSUME NEW j \in 1..m, NEW k \in 1..m, j < k PROVE Places(k) \subseteq Places(j)
  <2>1. \A v \in 1..BatchSize : Cardinality(UpTo(v)) \in Nat BY <1>3
  <2> HIDE DEF UpTo
  <2> QED BY <1>2, <1>8, <2>1
<1>9. /\ DOMAIN items = 1..m /\ items = [k \in 1..m |-> items[k]]
      /\ \A k \in 1..m : items[k] = Min(Places(k))
  BY <1>2 DEF ByIndex
<1>10. ASSUME NEW k \in 1..m
       PROVE  items[k] \in Places(k) /\ \A v \in Places(k) : items[k] <= v
  <2>1. Places(k) \in SUBSET Nat /\ Places(k) # {} BY <1>6, <1>7
  <2> DEFINE P == Places(k)
  <2>2. P \in SUBSET Nat /\ P # {} BY <2>1
  <2>3. items[k] = Min(P) BY <1>9
  <2> HIDE DEF P, Places, items
  <2>4. Min(P) \in P /\ \A v \in P : Min(P) <= v BY <2>2, Least
  <2>5. P = Places(k) BY DEF P
  <2> QED BY <2>3, <2>4, <2>5
<1>11. ASSUME NEW k \in 1..m PROVE items[k] \in 1..n
  <2>1. items[k] \in 1..BatchSize /\ items[k] <= n BY <1>6, <1>10
  <2> QED BY <1>2, <2>1
<1>12. ASSUME NEW j \in 1..m, NEW k \in 1..m, j < k PROVE items[j] <= items[k]
  BY <1>8, <1>10, <1>12
<1> HIDE DEF items, Places, UpTo
<1>13. items \in [1..m -> 1..n] BY <1>9, <1>11
<1>14. \E x \in Nat : /\ items \in [1..x -> 1..n]
                      /\ \A j, k \in 1..x : j < k => items[j] <= items[k]
  BY <1>2, <1>12, <1>13
<1> QED BY <1>14 DEF items

-----------------------------------------------------------------------------
(* The inductive invariant of the second half: the vectors are those of     *)
(* chunks that have been asked for, in increasing order unless a response   *)
(* has repeated an index, and every page with text has a chunk.             *)
OnlyAsked ==
  /\ tools \subseteq Tools
  /\ Len(document) <= MaxPages
  /\ chunks \in Seq(1..Len(texts))
  /\ asked \in 0..Len(chunks)
  /\ vectors \in Seq(1..asked)
  /\ repeated \in BOOLEAN
  /\ result \in {"working", "done", "unprocessable", "unavailable", "badGateway", "serverError"}

InOrder == ~repeated => \A i, j \in 1..Len(vectors) : i < j => vectors[i] < vectors[j]

AllSplit ==
  chunks # <<>> =>
    /\ Len(texts) = Len(document)
    /\ \A page \in Written : \E i \in 1..Len(chunks) : chunks[i] = page

Counted == result = "done" => /\ chunks # <<>> /\ asked = Len(chunks)
                              /\ Len(vectors) = Len(chunks)

EmbedInv == ReadInv /\ OnlyAsked /\ InOrder /\ AllSplit /\ Counted

LEMMA EmbedInit == Init => EmbedInv
<1> SUFFICES ASSUME Init PROVE EmbedInv
  OBVIOUS
<1>1. PICK n \in 0..MaxPages : document \in [1..n -> Pages] BY DEF Init
<1>2. Len(document) <= MaxPages BY <1>1, LimitsAssumption
<1>3. texts = <<>> /\ chunks = <<>> /\ vectors = <<>> /\ asked = 0 BY DEF Init
<1>4. Len(chunks) = 0 /\ Len(vectors) = 0 /\ chunks \in Seq(1..Len(texts)) /\ vectors \in Seq(1..asked)
  BY <1>3
<1>5. OnlyAsked
  <2>1. asked \in 0..Len(chunks) BY <1>3, <1>4
  <2>2. tools \subseteq Tools /\ repeated = FALSE /\ result = "working" BY DEF Init
  <2> QED BY <1>2, <1>4, <2>1, <2>2 DEF OnlyAsked
<1>6. InOrder /\ AllSplit /\ Counted BY <1>3, <1>4 DEF Init, InOrder, AllSplit, Counted
<1> QED BY <1>5, <1>6, ReadInit DEF EmbedInv

(* Extraction goes on only while nothing has been split. *)
LEMMA EmbedExtract == ASSUME EmbedInv, ReadInv', ExtractPage PROVE EmbedInv'
<1>1. UNCHANGED <<document, tools, chunks, vectors, asked, repeated, result>> BY DEF ExtractPage
<1>2. chunks = <<>> BY DEF ExtractPage, Extracting, EmbedInv, AllSplit, ReadInv
<1>3. chunks' \in Seq(1..Len(texts')) BY <1>1, <1>2
<1> QED BY <1>1, <1>2, <1>3 DEF EmbedInv, OnlyAsked, InOrder, AllSplit, Counted

LEMMA EmbedSplit == ASSUME EmbedInv, ReadInv', Split PROVE EmbedInv'
<1>1. /\ UNCHANGED <<document, tools, texts, vectors, asked, repeated, result>>
      /\ Extracted /\ chunks' \in Splits
  BY DEF Split
<1>2. PICK k \in 1..(MaxChunks * Len(texts)) :
        /\ chunks' \in [1..k -> Written]
        /\ \A page \in Written :
             Cardinality({i \in DOMAIN chunks' : chunks'[i] = page}) \in 1..MaxChunks
  BY <1>1 DEF Splits
<1>3. Len(texts) \in Nat /\ Written \subseteq 1..Len(texts) /\ Len(texts) = Len(document)
      /\ result = "working" /\ chunks = <<>>
  BY <1>1 DEF Extracted, Written, EmbedInv, ReadInv
<1>4. k \in Nat BY <1>2, <1>3, LimitsAssumption
<1>5. chunks' \in Seq(1..Len(texts)) /\ Len(chunks') = k /\ DOMAIN chunks' = 1..k
  <2>1. chunks' \in [1..k -> 1..Len(texts)] BY <1>2, <1>3
  <2> QED BY <1>4, <2>1
<1>6. ASSUME NEW page \in Written PROVE \E i \in 1..k : chunks'[i] = page
  <2> SUFFICES ASSUME \A i \in 1..k : chunks'[i] # page PROVE FALSE
    OBVIOUS
  <2>1. {i \in DOMAIN chunks' : chunks'[i] = page} = {} BY <1>5
  <2>2. Cardinality({}) = 0 BY FS_EmptySet
  <2>3. 0 \in 1..MaxChunks BY <1>2, <2>1, <2>2
  <2> QED BY <2>3
<1>7. Written' = Written BY <1>1 DEF Written
<1>8. asked = 0 BY <1>3 DEF EmbedInv, OnlyAsked
<1>9. OnlyAsked' BY <1>1, <1>4, <1>5, <1>8 DEF EmbedInv, OnlyAsked
<1> QED BY <1>1, <1>3, <1>5, <1>6, <1>7, <1>9 DEF EmbedInv, InOrder, AllSplit, Counted

(* A batch adds vectors of its own chunks, all after those of the batches   *)
(* before it.                                                               *)
LEMMA EmbedAppend == ASSUME EmbedInv, ReadInv', EmbedBatch PROVE EmbedInv'
<1> DEFINE n == NextAsked - asked
<1>1. /\ UNCHANGED <<document, tools, texts, chunks, result>> /\ asked' = NextAsked
      /\ result = "working" /\ asked < Len(chunks)
  BY DEF EmbedBatch, Embedding
<1>2. PICK response \in Responses(n) :
        /\ vectors' = vectors \o [k \in DOMAIN ByIndex(response) |-> asked + ByIndex(response)[k]]
        /\ repeated' = (repeated \/ \E i, j \in DOMAIN ByIndex(response) :
                                      i # j /\ ByIndex(response)[i] = ByIndex(response)[j])
  BY DEF EmbedBatch
<1>3. /\ Len(chunks) \in Nat /\ asked \in Nat /\ NextAsked \in Nat /\ BatchSize \in Nat
      /\ n \in 1..BatchSize /\ NextAsked <= Len(chunks) /\ NextAsked = asked + n
  BY <1>1, LimitsAssumption DEF EmbedInv, OnlyAsked, NextAsked
<1> DEFINE items == ByIndex(response)
<1>4. PICK m \in Nat : /\ items \in [1..m -> 1..n]
                       /\ \A j, k \in 1..m : j < k => items[j] <= items[k]
  <2> HIDE DEF n
  <2> QED BY <1>3, SortedByIndex
<1> DEFINE added == [k \in 1..m |-> asked + items[k]]
           l == Len(vectors)
<1>5. /\ vectors' = vectors \o added
      /\ repeated' = (repeated \/ \E i, j \in 1..m : i # j /\ items[i] = items[j])
  BY <1>2, <1>4
<1> HIDE DEF items, n
<1>6. \A k \in 1..m : items[k] \in Nat /\ added[k] \in Nat /\ added[k] > asked /\ added[k] <= NextAsked
  BY <1>3, <1>4
<1>7. added \in Seq(1..NextAsked) /\ Len(added) = m BY <1>3, <1>4, <1>6
<1>8. vectors \in Seq(1..NextAsked) /\ vectors \in Seq(1..asked) /\ l \in Nat
  BY <1>3 DEF EmbedInv, OnlyAsked
<1>9. /\ vectors' \in Seq(1..NextAsked) /\ Len(vectors') = l + m
      /\ \A i \in 1..(l + m) : vectors'[i] = IF i <= l THEN vectors[i] ELSE added[i - l]
  <2> DEFINE T == 1..NextAsked
  <2>1. vectors \in Seq(T) /\ added \in Seq(T) BY <1>7, <1>8
  <2>2. Len(added) = m BY <1>7
  <2> HIDE DEF T, added
  <2>3. /\ vectors \o added \in Seq(T)
        /\ Len(vectors \o added) = l + m
        /\ \A i \in 1..(l + m) : (vectors \o added)[i] = IF i <= l THEN vectors[i] ELSE added[i - l]
    BY <2>1, <2>2, ConcatProperties
  <2> QED BY <1>5, <2>3 DEF T
<1>10. \A i \in 1..l : vectors'[i] = vectors[i] /\ vectors[i] \in Nat /\ vectors[i] <= asked
  <2> DEFINE T == 1..asked
  <2>1. vectors \in Seq(T) BY <1>8
  <2> HIDE DEF added, T
  <2>2. \A i \in 1..l : vectors[i] \in T BY <2>1, ElementOfSeq
  <2>3. \A i \in 1..l : vectors[i] \in 1..asked BY <2>2 DEF T
  <2>4. \A i \in 1..l : vectors'[i] = vectors[i] BY <1>8, <1>9
  <2> QED BY <1>3, <2>3, <2>4
<1>11. \A i \in (l + 1)..(l + m) : vectors'[i] = added[i - l] /\ i - l \in 1..m
  <2> HIDE DEF added
  <2> QED BY <1>8, <1>9
<1>12. OnlyAsked' BY <1>1, <1>2, <1>3, <1>9 DEF EmbedInv, OnlyAsked
<1>13. InOrder'
  <2> SUFFICES ASSUME ~repeated', NEW i \in 1..Len(vectors'), NEW j \in 1..Len(vectors'), i < j
               PROVE  vectors'[i] < vectors'[j]
    BY DEF InOrder
  <2>1. ~repeated /\ \A a, b \in 1..m : a # b => items[a] # items[b] BY <1>5
  <2>2. CASE j <= l
    <3>1. i \in 1..l /\ j \in 1..l BY <1>8, <1>9, <2>2
    <3>2. vectors[i] < vectors[j] BY <2>1, <3>1 DEF EmbedInv, InOrder
    <3> QED BY <1>10, <3>1, <3>2
  <2>3. CASE i <= l /\ j > l
    <3>1. i \in 1..l /\ j \in (l + 1)..(l + m) BY <1>8, <1>9, <2>3
    <3>2. vectors'[i] \in Nat /\ vectors'[i] <= asked BY <1>10, <3>1
    <3>3. vectors'[j] \in Nat /\ vectors'[j] > asked BY <1>6, <1>11, <3>1
    <3> QED BY <1>3, <3>2, <3>3
  <2>4. CASE i > l
    <3>1. i \in (l + 1)..(l + m) /\ j \in (l + 1)..(l + m) BY <1>8, <1>9, <2>4
    <3> DEFINE a == i - l
               b == j - l
    <3>2. a \in 1..m /\ b \in 1..m /\ a < b BY <1>8, <1>11, <3>1
    <3>3. vectors'[i] = added[a] /\ vectors'[j] = added[b] BY <1>11, <3>1
    <3> HIDE DEF a, b
    <3>4. items[a] < items[b]
      <4>1. items[a] <= items[b] /\ items[a] # items[b] BY <1>4, <2>1, <3>2
      <4>2. items[a] \in Nat /\ items[b] \in Nat BY <1>6, <3>2
      <4> QED BY <4>1, <4>2
    <3>5. added[a] = asked + items[a] /\ added[b] = asked + items[b] BY <3>2
    <3>6. items[a] \in Nat /\ items[b] \in Nat BY <1>6, <3>2
    <3> QED BY <1>3, <3>3, <3>4, <3>5, <3>6
  <2> QED BY <1>8, <1>9, <2>2, <2>3, <2>4
<1>14. AllSplit' BY <1>1 DEF EmbedInv, AllSplit, Written
<1> QED BY <1>1, <1>12, <1>13, <1>14 DEF EmbedInv, Counted

LEMMA EmbedStep == EmbedInv /\ [Next]_vars => EmbedInv'
<1> SUFFICES ASSUME EmbedInv, [Next]_vars PROVE EmbedInv'
  OBVIOUS
<1>1. ReadInv' BY ReadStep DEF EmbedInv
<1>2. ASSUME UNCHANGED <<document, tools, texts, chunks, vectors, asked, repeated>>,
             result' \in {"working", "done", "unprocessable", "unavailable", "badGateway", "serverError"},
             Counted'
      PROVE  EmbedInv'
  BY <1>1, <1>2 DEF EmbedInv, OnlyAsked, InOrder, AllSplit, Written
<1>3. CASE OcrMissing \/ NothingExtracted \/ EmbeddingFails
  BY <1>2, <1>3 DEF OcrMissing, NothingExtracted, EmbeddingFails, Fail, Counted
<1>4. CASE Pair
  BY <1>2, <1>4 DEF Pair, Embedded, Embedding, Fail, Counted
<1>5. CASE UNCHANGED vars
  BY <1>2, <1>5 DEF vars, EmbedInv, OnlyAsked, Counted
<1> QED BY <1>1, <1>3, <1>4, <1>5, EmbedExtract, EmbedSplit, EmbedAppend DEF Next

LEMMA EmbedAlways == Spec => []EmbedInv
BY EmbedInit, EmbedStep, PTL DEF Spec

(* Every variable keeps its shape and an upload ends with a status the code *)
(* gives a reason for, for any limits and batch size: the strict zip of     *)
(* chunks and embeddings never raises.                                      *)
THEOREM IngestionTyped == Spec => []TypeOK
<1>1. EmbedInv => TypeOK
  <2> SUFFICES ASSUME EmbedInv PROVE TypeOK
    OBVIOUS
  <2>1. DOMAIN texts = 1..Len(texts) /\ DOMAIN chunks = 1..Len(chunks)
    BY DEF EmbedInv, ReadInv, OnlyAsked
  <2>2. vectors \in Seq(1..Len(chunks)) BY DEF EmbedInv, OnlyAsked
  <2> QED BY <2>1, <2>2 DEF TypeOK, EmbedInv, ReadInv, OnlyAsked
<1> QED BY <1>1, EmbedAlways, PTL

(* Unless a response has repeated an index, chunk i is stored with the      *)
(* embedding of its own text and every page that was read has a chunk, for  *)
(* any document, limits, batch size and order of the responses: the count   *)
(* after the last batch makes up for every batch that is not checked.       *)
THEOREM EmbeddingsAligned == Spec => []Aligned
<1>1. EmbedInv => Aligned
  <2> SUFFICES ASSUME EmbedInv, result = "done", ~repeated
      PROVE  /\ vectors = [i \in DOMAIN chunks |-> i]
             /\ \A page \in Written : \E i \in DOMAIN vectors : chunks[vectors[i]] = page
    BY DEF Aligned
  <2> DEFINE n == Len(chunks)
  <2>1. n \in Nat /\ asked = n /\ Len(vectors) = n /\ DOMAIN chunks = 1..n
    BY DEF EmbedInv, OnlyAsked, Counted
  <2>2. vectors \in [1..n -> 1..n] BY <2>1 DEF EmbedInv, OnlyAsked
  <2>3. \A i, j \in 1..n : i < j => vectors[i] < vectors[j] BY <2>1 DEF EmbedInv, InOrder
  <2>4. vectors = [i \in 1..n |-> i]
    <3> HIDE DEF n
    <3> QED BY <2>1, <2>2, <2>3, IncreasingIs
  <2>5. ASSUME NEW page \in Written PROVE \E i \in DOMAIN vectors : chunks[vectors[i]] = page
    <3>1. PICK i \in 1..n : chunks[i] = page BY DEF EmbedInv, AllSplit, Counted
    <3> QED BY <2>4, <3>1
  <2> QED BY <2>1, <2>4, <2>5
<1> QED BY <1>1, EmbedAlways, PTL

=============================================================================
