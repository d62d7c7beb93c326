----------------------------- MODULE MCIngestion -----------------------------
(* Instances of Ingestion for TLC. *)
EXTENDS Ingestion

(* No word, too few, enough; no image area, a part, most of the page. *)
SmallPages ==
  {page \in [words : {0, MinWords - 1, MinWords}, prose : BOOLEAN, tables : BOOLEAN,
             images : BOOLEAN, area : {0, ImageArea, OcrArea}, legible : BOOLEAN] :
     Consistent(page)}

=============================================================================
