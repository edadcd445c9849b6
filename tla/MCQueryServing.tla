---------------------------- MODULE MCQueryServing ----------------------------
(***************************************************************************)
(* Instances of QueryServing for TLC.                                      *)
(***************************************************************************)
EXTENDS QueryServing

CONSTANTS thread_1, thread_2

MCKeys == {1, 2}
MCThreads == {thread_1, thread_2}

Collecting(mode, fallback) ==
    [mode |-> mode, collects |-> TRUE, on_missing_record |-> fallback,
     on_abstain |-> fallback, on_kv_miss |-> fallback]

MCConfigs == {Collecting("shadow", TRUE),
              [Collecting("active", TRUE) EXCEPT !.on_abstain = FALSE]}
=============================================================================
