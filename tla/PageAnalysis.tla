----------------------------- MODULE PageAnalysis -----------------------------
(***************************************************************************)
(* What PDFService in src/app/services/pdf_service.py reads of a page.     *)
(* The page is classified by its number of words, the tables that          *)
(* pdfplumber finds in it and the part of it that images cover; the class  *)
(* chooses the extractors, and each extractor reads some of what is there. *)
(***************************************************************************)
EXTENDS Naturals

CONSTANTS
  MinWords,   \* PDF_ANALYSIS_MIN_WORDS_FOR_TEXT
  ImageArea,  \* PDF_ANALYSIS_IMAGE_AREA_THRESHOLD, in percent
  OcrArea     \* PDF_ANALYSIS_OCR_IMAGE_AREA_THRESHOLD, in percent

(* What the configuration accepts. *)
ASSUME ThresholdsAssumption ==
  /\ MinWords \in Nat /\ ImageArea \in Nat /\ OcrArea \in Nat
  /\ ImageArea <= OcrArea /\ OcrArea <= 100

(* words counts all the text in the page, which is in its prose, in its     *)
(* tables or in both; images may show text themselves ("legible").  tables  *)
(* are those that have enough rows, columns and filled cells to count.      *)
PageShape == [words : Nat, prose : BOOLEAN, tables : BOOLEAN,
              images : BOOLEAN, area : 0..100, legible : BOOLEAN]

Consistent(page) ==
  /\ page.words > 0 <=> page.prose \/ page.tables
  /\ ~page.images => page.area = 0 /\ ~page.legible

(* The kinds of text a reader of the page would see. *)
Visible(page) ==
  {kind \in {"prose", "tables", "images"} :
     \/ kind = "prose" /\ page.prose
     \/ kind = "tables" /\ page.tables
     \/ kind = "images" /\ page.legible}

-----------------------------------------------------------------------------
(* The classification.  tools are the optional tools that are installed:    *)
(* without pdfplumber no table is found.                                    *)

HasText(page) == page.words >= MinWords
HasTables(page, tools) == page.tables /\ "pdfplumber" \in tools
OcrHeavy(page) == page.images /\ page.area >= OcrArea
ImageHeavy(page) == page.images /\ page.area >= ImageArea

(* Mutant: a page without words counts as text when its images are small. *)
ImageOnlyHeavy(page, tools) ==
  ~HasText(page) /\ ~HasTables(page, tools) /\ (OcrHeavy(page) \/ ImageHeavy(page))

ImageOnly(page, tools) ==
  /\ ~HasText(page) /\ ~HasTables(page, tools)
  /\ OcrHeavy(page) \/ ImageHeavy(page) \/ (page.images /\ page.words = 0)

TextOnlyFallback(page, tools) ==
  ~HasText(page) /\ ~HasTables(page, tools) /\ ~ImageOnly(page, tools)

Extractors(page, tools) ==
  {extractor \in {"pymupdf", "pdfplumber", "ocr"} :
     \/ extractor = "pymupdf" /\ (HasText(page) \/ TextOnlyFallback(page, tools))
     \/ extractor = "pdfplumber" /\ HasTables(page, tools)
     \/ extractor = "ocr" /\ (ImageOnly(page, tools) \/ OcrHeavy(page))}

(* PyMuPDF gives the text in the page, pdfplumber its tables; Tesseract is  *)
(* given a picture of the whole page.                                       *)
Reads(extractor) ==
  CASE extractor = "pymupdf" -> {"prose", "tables"}
    [] extractor = "pdfplumber" -> {"tables"}
    [] extractor = "ocr" -> {"prose", "tables", "images"}

(* The text of a page: what its extractors read, merged. *)
TextOf(page, tools) ==
  {kind \in Visible(page) : \E x \in Extractors(page, tools) : kind \in Reads(x)}

=============================================================================
