--------------------------- MODULE MCDatasetFiles ---------------------------
(* An instance of DatasetFiles: two threads that share one registered file, *)
(* without any mishap.                                                      *)
EXTENDS DatasetFiles

CONSTANTS t1, t2

SharedFile == {[registered |-> TRUE, fetchers |-> {t1, t2}, limit |-> [k \in FilesMishaps |-> 0]]}
=============================================================================
