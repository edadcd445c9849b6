------------------------------- MODULE Stopping -------------------------------
(***************************************************************************)
(* online/stopping.py: the windowed controller that tells when the online  *)
(* policy has converged.  An observation is abstract: two of them are      *)
(* within eps of each other when they are equal.                           *)
(***************************************************************************)
EXTENDS Naturals, Sequences

CONSTANTS
    CheckEvery, Window, Patience,  \* OnlineStoppingConfig
    Rates,                         \* monitor_tpr and monitor_fpr, as one value
    FprLimit                       \* rates up to this one have an FPR within the limit

ASSUME StoppingAssumption ==
    /\ CheckEvery \in Nat \ {0} /\ Patience \in Nat \ {0}
    /\ Window \in Nat \ {0, 1}
    /\ Rates \subseteq Nat /\ FprLimit \in Nat

NewController == [history |-> <<>>, checks |-> 0, stopped |-> FALSE]

\* The last n elements of a sequence that has as many.
LastOf(seq, n) == SubSeq(seq, Len(seq) - n + 1, Len(seq))

Stable(window) ==
    /\ window[Len(window)].rate <= FprLimit
    /\ \A i, j \in DOMAIN window : window[i] = window[j]

\* Mutant: an unstable check does not start the count anew.
CountKept(stable, checks) == IF stable THEN checks + 1 ELSE checks

Count(stable, checks) == IF stable THEN checks + 1 ELSE 0

\* observe: batch is the batch_index of the metrics, enough whether there are
\* as many monitor pairs as the configuration asks for.
Observe(controller, batch, metrics, enough) ==
    LET history == Append(controller.history, metrics)
        seen == [controller EXCEPT !.history = history]
        checks == Count(Stable(LastOf(history, Window)), controller.checks)
    IN  IF controller.stopped THEN controller
        ELSE IF batch % CheckEvery # 0 THEN seen
        ELSE IF ~enough THEN [seen EXCEPT !.checks = 0]
        ELSE IF Len(history) < Window THEN seen
        ELSE [seen EXCEPT !.checks = checks, !.stopped = checks >= Patience]
=============================================================================
