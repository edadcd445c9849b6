---------------------------- MODULE MCReplayArray ----------------------------
(***************************************************************************)
(* Instances of ReplayArray for TLC: a sweep over two scorer lists with    *)
(* directories of their own, or over two that start with one scorer, as    *)
(* FULL_ENSEMBLE and any other that cosine begins, and two GPUs in one     *)
(* machine.                                                                *)
(***************************************************************************)
EXTENDS ReplayArray

CONSTANTS gpu_1, gpu_2, node, full_ensemble, cosine_mlp, lda_mlp, mlp_lda, cosine, lda, mlp

MCWorkers == {gpu_1, gpu_2}
MCNodeOf == [w \in MCWorkers |-> node]
MCCombos == {full_ensemble, cosine_mlp, lda_mlp, mlp_lda}
MCSweeps == {{lda_mlp, mlp_lda}, {full_ensemble, cosine_mlp}}
MCFirstScorer ==
    [c \in MCCombos |-> IF c = lda_mlp THEN lda ELSE IF c = mlp_lda THEN mlp ELSE cosine]
=============================================================================
