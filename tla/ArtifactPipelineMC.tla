------------------------- MODULE ArtifactPipelineMC -------------------------
EXTENDS ArtifactPipeline

CONSTANTS a, b

(* One file of two pages; three files of one page. *)
OneFile    == [p \in 1..2 |-> 1]
ThreeFiles == [p \in 1..3 |-> p]

(* The environments pipeline-core and pii / categorizer, which cannot be *)
(* installed together; and two machines that share the OCR work.         *)
Environments ==
    [m \in Processes |->
       IF m = a THEN {"format_classifier", "ocr_extraction", "page_type_classifier", "summarizer"}
                ELSE {"pii_tagger", "categorizer"}]
Machines ==
    [m \in Processes |-> IF m = a THEN {"format_classifier", "ocr_extraction"} ELSE {"ocr_extraction"}]
=============================================================================
