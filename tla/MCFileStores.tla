----------------------------- MODULE MCFileStores -----------------------------
(***************************************************************************)
(* An instance of FileStores for TLC: three keys, two namespaces, and      *)
(* embeddings that are similar to themselves.                              *)
(***************************************************************************)
EXTENDS FileStores

CONSTANTS k1, k2, k3, e1, e2

MCKeyOrder == <<k1, k2, k3>>
MCSimilarity == [pair \in {e1, e2} \X {e1, e2} |-> IF pair[1] = pair[2] THEN 1 ELSE 0]
=============================================================================
