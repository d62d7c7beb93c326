------------------------------- MODULE Ingestion -------------------------------
(***************************************************************************)
(* From the pages of a PDF to the vectors of its chunks, between two       *)
(* transactions of an upload: extract_document page by page                *)
(* (src/app/services/pdf_service.py), validate_extracted_pages, the chunks *)
(* and create_embeddings batch by batch                                    *)
(* (src/app/services/embedding_service.py), then the pairing of chunks and *)
(* embeddings (src/app/services/document_service.py).  It is what          *)
(* UploadPipeline takes in its steps "extract" and "embed".                *)
(***************************************************************************)
EXTENDS PageAnalysis, Sequences, FiniteSetsExt

CONSTANTS
  Pages,      \* the pages of which documents are made
  MaxPages,   \* BOUND: pages of a document
  MaxChunks,  \* BOUND: chunks of a page
  BatchSize   \* EMBEDDING_BATCH_SIZE

ASSUME PagesAssumption == Pages \subseteq {page \in PageShape : Consistent(page)}
ASSUME LimitsAssumption == /\ MaxPages \in Nat /\ MaxChunks \in Nat \ {0}
                           /\ BatchSize \in Nat \ {0}

Tools == {"pdfplumber", "tesseract"}

VARIABLES
  document,  \* the pages of the PDF
  tools,     \* the optional tools that are installed
  texts,     \* what has been read of the pages so far
  chunks,    \* chunks[i]: the page that chunk i is a part of
  vectors,   \* vectors[i]: the chunk whose text embedding i is that of
  asked,     \* the chunks whose embeddings have been asked for
  repeated,  \* some response has had an index twice (history)
  result     \* "working", "done" or the name of an error status

vars == <<document, tools, texts, chunks, vectors, asked, repeated, result>>

Init ==
  /\ document \in UNION {[1..n -> Pages] : n \in 0..MaxPages}
  /\ tools \in SUBSET Tools
  /\ texts = <<>>
  /\ chunks = <<>>
  /\ vectors = <<>>
  /\ asked = 0
  /\ repeated = FALSE
  /\ result = "working"

Fail(status) ==
  result' = status /\ UNCHANGED <<document, tools, texts, chunks, vectors, asked, repeated>>

-----------------------------------------------------------------------------
(* Extraction *)

Extracting == result = "working" /\ Len(texts) < Len(document)

Page == document[Len(texts) + 1]

(* Analyses and reads the next page; without Tesseract the first page that  *)
(* needs it ends the upload.                                                *)
ExtractPage ==
  /\ Extracting
  /\ "ocr" \in Extractors(Page, tools) => "tesseract" \in tools
  /\ texts' = Append(texts, TextOf(Page, tools))
  /\ UNCHANGED <<document, tools, chunks, vectors, asked, repeated, result>>

OcrMissing ==
  /\ Extracting
  /\ "ocr" \in Extractors(Page, tools) /\ "tesseract" \notin tools
  /\ Fail("unavailable")

Extracted == result = "working" /\ Len(texts) = Len(document) /\ chunks = <<>>

Written == {i \in DOMAIN texts : texts[i] # {}}

(* validate_extracted_pages *)
NothingExtracted == Extracted /\ Written = {} /\ Fail("unprocessable")

(* split_pages, as Chunking promises: in the order of the pages, none from  *)
(* a blank page and at least one from any other.                            *)
Splits ==
  {parts \in UNION {[1..k -> Written] : k \in 1..(MaxChunks * Len(texts))} :
     /\ \A i, j \in DOMAIN parts : i < j => parts[i] <= parts[j]
     /\ \A page \in Written :
          Cardinality({i \in DOMAIN parts : parts[i] = page}) \in 1..MaxChunks}

Split ==
  /\ Extracted /\ Written # {}
  /\ chunks' \in Splits
  /\ UNCHANGED <<document, tools, texts, vectors, asked, repeated, result>>

-----------------------------------------------------------------------------
(* Embedding *)

Embedding == result = "working" /\ chunks # <<>>

NextAsked == IF asked + BatchSize < Len(chunks) THEN asked + BatchSize ELSE Len(chunks)

(* A response names the text an embedding belongs to by its index in the    *)
(* batch.  It may be in any order, leave one out and have one twice.        *)
Responses(n) == UNION {[1..k -> 1..n] : k \in 0..(n + 1)}

(* Mutant: the items are taken as they come. *)
AsReceived(response) == response

(* sorted(...): place k gets the least index that k items do not exceed. *)
ByIndex(response) ==
  [k \in DOMAIN response |->
     Min({n \in 1..BatchSize : Cardinality({i \in DOMAIN response : response[i] <= n}) >= k})]

EmbedBatch ==
  /\ Embedding /\ asked < Len(chunks)
  /\ \E response \in Responses(NextAsked - asked) :
       LET items == ByIndex(response)
       IN  /\ vectors' = vectors \o [k \in DOMAIN items |-> asked + items[k]]
           /\ repeated' = (repeated \/ \E i, j \in DOMAIN items :
                                         i # j /\ items[i] = items[j])
  /\ asked' = NextAsked
  /\ UNCHANGED <<document, tools, texts, chunks, result>>

(* A refusal or a vector of the wrong dimension, rate limit or connection,  *)
(* no API key or what is no error of OpenAI's.                              *)
EmbeddingFails ==
  /\ Embedding /\ asked < Len(chunks)
  /\ \E status \in {"badGateway", "unavailable", "serverError"} : Fail(status)

Embedded == Embedding /\ asked = Len(chunks)

(* Mutant: the embeddings are not counted; zip(..., strict=True) raises. *)
PairAll ==
  /\ Embedded
  /\ Fail(IF Len(vectors) = Len(chunks) THEN "done" ELSE "internal")

(* One count over all the batches, then chunk i is stored with vector i. *)
Pair ==
  /\ Embedded
  /\ Fail(IF Len(vectors) = Len(chunks) THEN "done" ELSE "badGateway")

Next ==
  \/ ExtractPage \/ OcrMissing \/ NothingExtracted \/ Split
  \/ EmbedBatch \/ EmbeddingFails \/ Pair

Spec == Init /\ [][Next]_vars

-----------------------------------------------------------------------------
(* Properties *)

(* Every variable keeps its shape, and an upload that ends here has been    *)
(* paired or refused in one of the ways below: the strict zip of chunks and *)
(* embeddings never raises ("internal").                                    *)
TypeOK ==
  /\ document \in Seq(Pages) /\ Len(document) <= MaxPages
  /\ tools \subseteq Tools
  /\ texts \in Seq(SUBSET {"prose", "tables", "images"})
  /\ Len(texts) <= Len(document)
  /\ chunks \in Seq(DOMAIN texts)
  /\ vectors \in Seq(DOMAIN chunks)
  /\ asked \in 0..Len(chunks)
  /\ repeated \in BOOLEAN
  /\ result \in {"working", "done", "unprocessable", "unavailable", "badGateway", "serverError"}

(* What of a page goes unread, whatever tools are missing: never the text   *)
(* of a table; prose only beside a table, on a page with too few words to   *)
(* count as text; images only below the OCR threshold.  And if a number of  *)
(* words is required at all, a page on which a reader would see any text is *)
(* not left wholly unread.                                                  *)
PagesRead ==
  \A i \in DOMAIN texts :
    LET page == document[i]
        unread == Visible(page) \ texts[i]
    IN  /\ "tables" \notin unread
        /\ "prose" \in unread => "tables" \in texts[i] /\ page.words < MinWords
        /\ "images" \in unread => page.area < OcrArea
        /\ MinWords > 0 /\ Visible(page) # {} => texts[i] # {}

(* A document that is embedded can be found by the text of every page that  *)
(* has been read: the vector stored with a chunk is the embedding of that   *)
(* chunk's text, and each such page has one; unless a response named one    *)
(* text twice and another left one out, which the count over all batches    *)
(* does not notice.                                                         *)
Aligned ==
  result = "done" /\ ~repeated =>
    /\ vectors = [i \in DOMAIN chunks |-> i]
    /\ \A page \in Written : \E i \in DOMAIN vectors : chunks[vectors[i]] = page

=============================================================================
