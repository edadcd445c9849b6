--------------------------- MODULE OnlineComparison ---------------------------
(***************************************************************************)
(* scripts/compare_cosine_vs_ensemble.py: cosine and then the ensemble     *)
(* serve the same dataset rows from cold, each with a system of its own.   *)
(* A LifecycleTracker compares the policies it sees from one request to    *)
(* the next, while run_one_online notes where the responses it got first   *)
(* were a hit and first came with a calibrated policy.  When the rows are  *)
(* through and nothing was served, the first of them are replayed.         *)
(*                                                                         *)
(* options.measured is the rows and then those that may be replayed, and   *)
(* options.main the number of rows; with 0 this is AnchorReplay unchanged. *)
(***************************************************************************)
EXTENDS AnchorReplay, Integers, Functions

CONSTANTS
    RowLabel   \* DatasetRow.label: 1, 0, or -1 for a row that nobody labelled

ASSUME ComparisonAssumption ==
    /\ RowLabel \in [Rows -> {1, 0, -1}]
    /\ \A o \in OptionsSet :
          /\ o.main \in 0..Len(o.measured)
          /\ o.main > 0 => /\ o.warmup = <<>> /\ ~o.anchors
                           /\ ~o.shared_cache /\ ~o.judge_cache /\ ~o.freeze_after_warmup
                           /\ \A i \in o.main + 1..Len(o.measured) :
                                 o.measured[i] = o.measured[i - o.main]

VARIABLES
    tracker,  \* LifecycleTracker: _prev, and what it emitted
    marks,    \* first_hit_at and first_calibrated_at, 0 for None; the last response's policy
    trace,    \* source and policy of each response
    ends      \* how often _maybe_check_stopping was called at the end of a loop

lifecycle == <<tracker, marks, trace, ends>>

Compares == options.main > 0

(***************************************************************************)
(* The dataset: rows, and the judge that knows their labels.               *)
(***************************************************************************)
IsSelectable(row, include_uncertain) == include_uncertain \/ RowLabel[row] \in {0, 1}

\* _select_indices over the rows in their order: all that qualify, or max_rows
\* of them, from the head or, at random, in any order; no rows are an error.
Selectable(order, include_uncertain) ==
    SelectSeq(order, LAMBDA row : IsSelectable(row, include_uncertain))

Selections(order, max_rows, include_uncertain, selection) ==
    LET all == Selectable(order, include_uncertain)
    IN  IF all = <<>> THEN {}
        ELSE IF max_rows >= Len(all) THEN {all}
        ELSE IF selection = "head" THEN {SubSeq(all, 1, max_rows)}
        ELSE {s \in [1..max_rows -> Range(all)] : Cardinality(Range(s)) = max_rows}

\* run_comparison refuses rows that could not train anything.
CanTrain(rows_, include_uncertain) ==
    include_uncertain \/ \A label \in {0, 1} : \E i \in DOMAIN rows_ : RowLabel[rows_[i]] = label

DatasetLabel(query, candidate) ==
    IF -1 \in {RowLabel[query], RowLabel[candidate]} THEN "UNCERTAIN"
    ELSE IF RowLabel[query] = 1 /\ RowLabel[candidate] = 1
            /\ Cluster[query] = Cluster[candidate]
    THEN "H1" ELSE "H0"

(***************************************************************************)
(* run_one_online.                                                         *)
(***************************************************************************)
Flags(p) == [trained |-> Trained(p), calibrated |-> Calibrated(p), version |-> p.version]

ComparedInit ==
    /\ DiagnosedInit
    /\ tracker = [seen |-> FALSE, prev |-> Flags(Cold), events |-> {}]
    /\ marks = [hit |-> 0, calibrated |-> 0, response |-> Cold]
    /\ trace = <<>>
    /\ ends = 0

\* A system of its own, with an empty cache.
BeginComparison ==
    /\ Compares
    /\ EnterMeasured({})
    /\ UNCHANGED <<session, diagnosis, lifecycle>>

\* Mutant: the ensemble goes on until its scorer is fitted.
NeedsActive == ~Active(policy) \/ marks.hit = 0

\* Something to serve with, and a request that was served.
NeedsMore == ~Calibrated(policy) \/ marks.hit = 0

CompareDecide ==
    /\ idx >= options.main => NeedsMore /\ ends > 0
    /\ Decides
    /\ UNCHANGED <<diagnosis, lifecycle>>

\* The dataset judge does not raise, and files nothing.
CompareJudge ==
    /\ \E c \in request.candidates : JudgeCandidate(c)
    /\ UNCHANGED <<diagnosis, lifecycle>>

\* handle takes the policy of the response when the lookup is done.
CompareReturn ==
    /\ Returns
    /\ marks' = [marks EXCEPT !.response = policy]
    /\ UNCHANGED <<diagnosis, tracker, trace, ends>>

\* Mutant: the lifecycle is told of the policy that decided.
DecisionPolicy == request.policy

CurrentPolicy == policy

Judged(counts) ==
    counts.true_accepts + counts.false_accepts + counts.true_rejects + counts.false_rejects > 0

\* LifecycleTracker.update.
Emitted(flags, judged, hit) ==
    LET old == tracker.prev
        changed == {x \in {"trained", "calibrated", "version"} :
                       tracker.seen /\ flags[x] # old[x]}
        finite == {x \in {"finite"} : "calibrated" \in changed /\ flags.calibrated}
        first == {x \in {"first_pair", "first_hit"} :
                     /\ IF x = "first_pair" THEN judged ELSE hit
                     /\ \A e \in tracker.events : e.event # x}
    IN  {[index |-> idx, event |-> x] : x \in changed \cup finite \cup first}

\* The bookkeeping of serve, after handle.
CompareAccount ==
    LET first_hit == IF marks.hit = 0 /\ Hit THEN idx ELSE marks.hit
    IN  /\ at = "handled"
        /\ recorder' = Resolved
        /\ marks' = [marks EXCEPT
              !.hit = first_hit,
              !.calibrated = IF @ = 0 /\ Calibrated(marks.response) THEN idx ELSE @]
        /\ trace' = Append(trace, [source |-> IF Hit THEN "cache" ELSE "llm",
                                   calibrated |-> Calibrated(marks.response)])
        /\ tracker' = [seen |-> TRUE, prev |-> Flags(CurrentPolicy),
                       events |-> tracker.events \cup
                          Emitted(Flags(CurrentPolicy), Judged(Resolved.counts), first_hit # 0)]
        /\ request' = NoRequest
        /\ at' = IF idx % BatchSize = 0 THEN "check" ELSE "next"
        /\ UNCHANGED <<options, phase, idx, rows, verdicts, policy, learning, session, audit,
                       attempts, stopping, frozen, diagnosis, ends>>

\* The last check of the rows, and that of the replay if there is one; each is
\* followed by a wait for the threads, which may time out.
EndOfLoop ==
    /\ phase = "measured" /\ at = "next"
    /\ \/ ends = 0 /\ idx = options.main
       \/ ends = 1 /\ idx > options.main /\ (idx = Len(Stream) \/ ~NeedsMore)
    /\ ends' = ends + 1
    /\ at' = "check"
    /\ UNCHANGED <<options, phase, idx, request, rows, verdicts, policy, learning, measuring,
                   attempts, stopping, frozen, diagnosis, tracker, marks, trace>>

EndOfComparison ==
    /\ phase = "measured" /\ at = "next"
    /\ ends = (IF idx > options.main THEN 2 ELSE 1)
    /\ idx = options.main => ~NeedsMore \/ Len(Stream) = options.main
    /\ phase' = "done"
    /\ UNCHANGED <<options, serving, policy, learning, measuring, attempts, stopping, frozen,
                   diagnosis, lifecycle>>

CompareMethod ==
    \/ BeginComparison
    \/ CompareDecide
    \/ CompareJudge
    \/ CompareReturn
    \/ CompareAccount
    \/ (Learns \/ Checks) /\ UNCHANGED <<diagnosis, lifecycle>>
    \/ EndOfLoop
    \/ EndOfComparison

ComparedNext ==
    \/ ~Compares /\ DiagnosedNext /\ UNCHANGED lifecycle
    \/ Compares /\ CompareMethod

ComparedSpec == ComparedInit /\ [][ComparedNext]_<<vars, diagnosis, lifecycle>>

(***************************************************************************)
(* The summary of a method, and determine_winner of two of them.  A rate   *)
(* is a number of percents, or -1 where nothing was judged to compute it.  *)
(***************************************************************************)
SafeRate(num, den) == IF den = 0 THEN -1 ELSE (100 * num) \div den

\* metrics_since None: the requests before the first threshold count as well.
Summary(counts, hits, requests, calibrated) ==
    [fpr |-> SafeRate(counts.false_accepts, counts.false_accepts + counts.true_rejects),
     tpr |-> SafeRate(counts.true_accepts, counts.true_accepts + counts.false_rejects),
     hit_rate |-> IF requests = 0 THEN 0 ELSE SafeRate(hits, requests),
     calibrated |-> calibrated]

Computable(rate) == rate >= 0
Respects(s, target) == Computable(s.fpr) /\ s.fpr <= target

ByHitRate(cosine, ensemble) ==
    IF cosine.hit_rate = ensemble.hit_rate THEN "tie"
    ELSE IF ensemble.hit_rate > cosine.hit_rate THEN "ensemble" ELSE "cosine"

ByCalibration(cosine, ensemble) ==
    IF cosine.calibrated /\ ensemble.calibrated THEN ByHitRate(cosine, ensemble)
    ELSE IF cosine.calibrated THEN "cosine"
    ELSE IF ensemble.calibrated THEN "ensemble" ELSE "undetermined"

ByTpr(cosine, ensemble) ==
    IF Computable(cosine.tpr) /\ Computable(ensemble.tpr) /\ cosine.tpr # ensemble.tpr
    THEN IF ensemble.tpr > cosine.tpr THEN "ensemble" ELSE "cosine"
    ELSE ByHitRate(cosine, ensemble)

Winner(cosine, ensemble, target) ==
    LET both == {cosine, ensemble}
    IN  IF \A s \in both : Respects(s, target) THEN ByTpr(cosine, ensemble)
        ELSE IF Respects(cosine, target) THEN "cosine"
        ELSE IF Respects(ensemble, target) THEN "ensemble"
        ELSE IF \A s \in both : ~Computable(s.fpr) /\ ~Computable(s.tpr)
        THEN ByCalibration(cosine, ensemble)
        ELSE ByHitRate(cosine, ensemble)

(***************************************************************************)
(* Properties.                                                             *)
(***************************************************************************)
Between == Compares /\ at # "handled"

\* The two accounts of the lifecycle agree although they look at the policy at
\* different moments, with threads that activate in between: the policy of the
\* responses is first calibrated with the request at which the tracker saw the
\* threshold become finite or the one after, or within two requests of a start
\* that saw it at once; and no hit comes before it.
LifecycleAgrees ==
    Between =>
        LET finite == {e.index : e \in {x \in tracker.events : x.event = "finite"}}
        IN  /\ \A i \in finite : marks.calibrated \in {i, i + 1}
                                   \/ (marks.calibrated = 0 /\ Len(trace) = i)
            /\ finite = {} => marks.calibrated \in 0..2
            /\ \A i \in DOMAIN trace :
                  trace[i].source = "cache" => marks.calibrated \in 1..i

\* The replay is for a method that has not served anything: after the rows a
\* request is replayed only if there was no hit among them, and the first hit
\* of the replay is its end, whatever the threads activate meanwhile.
ReplayEndsAtHit ==
    Compares => \A i \in DOMAIN trace :
        trace[i].source = "cache" =>
            \A j \in i + 1..Len(trace) : j <= options.main
=============================================================================
