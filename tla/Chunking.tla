------------------------------- MODULE Chunking -------------------------------
(***************************************************************************)
(* ChunkService.split_pages in src/app/services/chunk_service.py: a window *)
(* of at most size characters slides over each page's normalized text, is  *)
(* pulled back to a space when there is one in its second half, and starts *)
(* again overlap characters before its end.  Every setting the             *)
(* configuration accepts is tried (size >= 1, 0 <= overlap < size).        *)
(***************************************************************************)
EXTENDS Integers, Sequences, FiniteSetsExt

CONSTANTS
  MaxLength,  \* BOUND: characters of a page
  MaxPages,   \* BOUND: pages of a document
  MaxSize     \* BOUND: DOCUMENT_CHUNK_SIZE

ASSUME BoundsAssumption == MaxLength \in Nat /\ MaxPages \in Nat /\ MaxSize \in Nat \ {0}

VARIABLES
  pages,    \* the normalized texts
  size,     \* DOCUMENT_CHUNK_SIZE
  overlap,  \* DOCUMENT_CHUNK_OVERLAP
  page,     \* the page being split
  start,    \* start_index in it
  chunks    \* the chunks made so far

vars == <<pages, size, overlap, page, start, chunks>>

(* Only spaces matter to the splitting: any other is a character of a word. *)
(* _normalize_text leaves single spaces, none of them at either end.        *)
Characters == {"word", "space"}

Normalized(text) ==
  \A i \in 1..Len(text) :
    text[i] = "space" => i > 1 /\ i < Len(text) /\ text[i + 1] # "space"

Texts ==
  {text \in UNION {[1..n -> Characters] : n \in 0..MaxLength} : Normalized(text)}

Init ==
  /\ pages \in UNION {[1..n -> Texts] : n \in 0..MaxPages}
  /\ size \in 1..MaxSize
  /\ overlap \in 0..(size - 1)
  /\ page = 1
  /\ start = 0
  /\ chunks = <<>>

Text == pages[page]

-----------------------------------------------------------------------------
(* The end of the window that begins after the first start characters. *)

Full == IF Len(Text) < start + size THEN Len(Text) ELSE start + size

(* Mutant: the window is pulled back to any space in it. *)
EndAnywhere ==
  LET spaces == {i \in (start + 1)..(Full - 1) : Text[i + 1] = "space"}
  IN  IF Full < Len(Text) /\ spaces # {} THEN Max(spaces) ELSE Full

End ==
  LET spaces == {i \in (start + size \div 2 + 1)..(Full - 1) : Text[i + 1] = "space"}
  IN  IF Full < Len(Text) /\ spaces # {} THEN Max(spaces) ELSE Full

(* Mutant: the window is taken as it is. *)
ChunksUnstripped ==
  <<[index |-> Len(chunks), page |-> page, from |-> start + 1, to |-> End]>>

(* strip() and "if chunk_text": the window without a space at either end,   *)
(* or nothing when only a space is left.                                    *)
NewChunks ==
  LET from == IF Text[start + 1] = "space" THEN start + 2 ELSE start + 1
      to == IF Text[End] = "space" THEN End - 1 ELSE End
  IN  IF from <= to
      THEN <<[index |-> Len(chunks), page |-> page, from |-> from, to |-> to]>>
      ELSE <<>>

Larger(i, j) == IF i < j THEN j ELSE i

(* Mutant: nothing makes the next window begin later. *)
NextStartUnforced == Larger(End - overlap, start)

(* Mutant: the next window counts from the end it had before it was pulled  *)
(* back.                                                                    *)
NextStartFull == Larger(Full - overlap, start + 1)

(* Mutant: a long overlap begins the next window before the page. *)
NextStartBare == End - overlap

NextStart == Larger(End - overlap, start + 1)

SkipPage ==
  /\ page <= Len(pages)
  /\ Text = <<>>
  /\ page' = page + 1
  /\ UNCHANGED <<pages, size, overlap, start, chunks>>

Window ==
  /\ page <= Len(pages)
  /\ Text # <<>>
  /\ chunks' = chunks \o NewChunks
  /\ IF End = Len(Text)
     THEN page' = page + 1 /\ start' = 0
     ELSE start' = NextStart /\ UNCHANGED page
  /\ UNCHANGED <<pages, size, overlap>>

Next == SkipPage \/ Window

Spec == Init /\ [][Next]_vars

-----------------------------------------------------------------------------
(* Properties *)

Chunk == [index : Nat, page : 1..MaxPages, from : 1..MaxLength, to : 1..MaxLength]

(* Every variable keeps its shape; a window begins inside its page. *)
TypeOK ==
  /\ pages \in Seq(Texts) /\ Len(pages) <= MaxPages
  /\ size \in 1..MaxSize
  /\ overlap \in 0..(size - 1)
  /\ page \in 1..(Len(pages) + 1)
  /\ start \in 0..MaxLength
  /\ page <= Len(pages) => start < Len(Text) \/ start = 0
  /\ chunks \in Seq(Chunk)

(* No word is lost: every character that a window has passed is in a chunk  *)
(* of its page, so that it can be retrieved.                                *)
Covered ==
  \A q \in 1..Len(pages) : \A i \in 1..Len(pages[q]) :
    (q < page \/ (q = page /\ i <= start)) /\ pages[q][i] # "space"
      => \E k \in 1..Len(chunks) :
           chunks[k].page = q /\ chunks[k].from <= i /\ i <= chunks[k].to

(* A chunk fits the size, begins and ends with a word, and is numbered      *)
(* after the one before it, so that no two of a document share the vector   *)
(* id that is made of the number.                                           *)
ChunksSound ==
  \A k \in 1..Len(chunks) :
    LET c == chunks[k]
    IN  /\ c.index = k - 1
        /\ c.from <= c.to /\ c.to - c.from < size
        /\ pages[c.page][c.from] # "space" /\ pages[c.page][c.to] # "space"

(* Every chunk has something its predecessor on the page has not, as long   *)
(* as the overlap is at most half the size and the size is at least 3.  The *)
(* configuration accepts others, which make chunks that lie wholly inside   *)
(* another.                                                                 *)
EachChunkNew ==
  size > 2 /\ overlap <= size \div 2 =>
    \A k \in 2..Len(chunks) :
      chunks[k].page = chunks[k - 1].page => chunks[k - 1].to < chunks[k].to

(* Every iteration moves on, on every text and with every accepted setting, *)
(* also when the next window would begin where, or before, the last one did: *)
(* the loop ends.                                                           *)
Progress == [][page' > page \/ (page' = page /\ start' > start)]_vars

=============================================================================
