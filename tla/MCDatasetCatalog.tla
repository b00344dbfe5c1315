-------------------------- MODULE MCDatasetCatalog --------------------------
(* One reader of catalogue pages and one registration at a time.           *)
EXTENDS DatasetCatalog

CONSTANTS v1, v2, d1, c1, r1
=============================================================================
