--------------------------- MODULE MCUploadPipeline ---------------------------
(* Instances of UploadPipeline for TLC. *)
EXTENDS UploadPipeline

=============================================================================
