------------------------ MODULE OnlineComparison_proofs ------------------------
(***************************************************************************)
(* Theorems about MeasuredReplay, AnchorReplay and OnlineComparison, for   *)
(* any rows, streams, verdicts, clusters and bounds: the two accounts of a *)
(* replay agree, what an active session counts was decided by an active    *)
(* policy, the policy is frozen only by convergence, the diagnostic agrees *)
(* with the recorder and blames the cache only where it is to blame, the   *)
(* two accounts of the lifecycle agree, and a hit ends the replay.         *)
(* Then, in the last part, about ReplayArray, which runs such replays: for *)
(* any scorer lists, seeds and workers, what counts as complete has been   *)
(* replayed, a table has every task, and no judgement is paid for twice.   *)
(***************************************************************************)
EXTENDS OnlineComparison, ReplayArray, FiniteSetTheorems, SequenceTheorems,
        WellFoundedInduction, TLAPS

(***************************************************************************)
(* The inductive invariant                                                 *)
(***************************************************************************)

\* A request is under way from its decision to its bookkeeping.
Underway == at \in {"judge", "handled"}

Typed ==
  /\ TypeOK
  /\ IsFiniteSet(recorder.pending)
  /\ probe.candidates \subseteq Rows /\ probe.made \in BOOLEAN
  /\ at # "next" => Serves
  /\ Underway => idx \in 1..Len(Stream)
  /\ at = "handled" => request.candidates = {}
  /\ options.warmup = <<>> => phase # "warmup"
  /\ phase = "refit" /\ options.warmup = <<>> => recorder.counts = NoCounts

\* Scorers and thresholds are replaced and never taken away, so the policy that
\* a decision was made with may only be behind.
PolicyInv ==
  /\ policy.fitted => policy.finite
  /\ Underway => /\ request.policy.fitted => request.policy.finite
                 /\ request.policy.finite => policy.finite
                 /\ request.accepted # None => request.policy.finite
  /\ session.start # None => Active(policy) /\ (Underway => Active(request.policy))

\* The pairs that the judge reported are those of this request, with the label
\* that is on file; a served candidate that is on file was reported as well.
PairsInv ==
  /\ ~Underway => recorder.pending = {}
  /\ Underway => Row \notin request.candidates
  /\ \A pair \in recorder.pending :
        /\ pair.index = idx /\ pair.label = Verdict[Row, pair.key]
        /\ pair.key # Row /\ pair.key \notin request.candidates
        /\ options.judge_cache => <<Row, pair.key>> \in verdicts
  /\ \A row \in Rows : <<row, row>> \notin verdicts
  /\ Underway /\ request.accepted # None /\ request.accepted \notin request.candidates =>
       (<<Row, request.accepted>> \in verdicts =>
           \E pair \in recorder.pending : pair.key = request.accepted)

AuditInv ==
  /\ phase \in {"warmup", "refit"} => session.start = None /\ audit.all = NoAudit
  /\ session.start # None =>
       session.start \in Nat /\ session.start <= IF Underway THEN idx ELSE idx + 1
  /\ session.start = None => audit.post = NoAudit
  /\ phase \in {"measured", "done"} /\ options.judge_cache /\ ~options.anchors =>
       /\ Agrees(audit.all, recorder.counts, NoCounts)
       /\ session.start # None => Agrees(audit.post, recorder.counts, session.baseline)

\* The window that ends with an observation is stable.
StableAt(i) ==
  LET history == stopping.controller.history
  IN  /\ \A j \in i - Window + 1..i : history[j] = history[i]
      /\ history[i].rate <= FprLimit

StoppingInv ==
  LET controller == stopping.controller
  IN  /\ controller \in [history : Seq([threshold : Nat, rate : Rates]), checks : Nat,
                         stopped : BOOLEAN]
      /\ Len(controller.history) = stopping.updates
      /\ frozen = controller.stopped
      /\ controller.stopped => controller.checks >= Patience
      /\ controller.checks > 0 =>
           \E first \in DOMAIN controller.history :
              /\ Cardinality(ChecksFrom(first)) >= controller.checks
              /\ \A i \in ChecksFrom(first) : StableAt(i)

\* The rows are those of the warm-up and the queries of the misses so far.
Stored(n) == Warm \cup Misses(n)
AskedRow == IF Underway THEN Row ELSE Stream[idx + 1]

\* The query of a miss is stored before it is recorded.
Unrecorded == IF at = "handled" /\ ~Hit THEN {Row} ELSE {}

Recorded ==
  \A i \in DOMAIN records :
     /\ records[i].query \in Range(options.measured)
     /\ records[i].available <=> records[i].gold \in Stored(i - 1)

ProbeInv ==
  /\ Underway => probe.made
  /\ at = "check" => ~probe.made
  /\ probe.made => (probe.available <=> Gold[AskedRow] \in Stored(Len(records)))

RowsInv ==
  options.anchors =>
    /\ phase \in {"warmup", "refit"} =>
         /\ records = <<>> /\ ~probe.made
         /\ rows \subseteq Range(options.warmup)
    /\ phase \in {"measured", "done"} =>
         /\ Recorded
         /\ rows = Stored(Len(records)) \cup Unrecorded
         /\ ProbeInv

Class(class) == {i \in DOMAIN records : ServedClass(records[i]) = class}

RecordsInv ==
  /\ records \in Seq(Range(records))
  /\ \A i \in DOMAIN records : records[i].hit \in BOOLEAN
  /\ options.anchors /\ phase \in {"measured", "done"} /\ options.judge_cache =>
       /\ Cardinality(Class("tp")) = recorder.counts.true_accepts
       /\ Cardinality(Class("fp")) = recorder.counts.false_accepts
       /\ Cardinality(Class("unjudged")) = recorder.counts.unjudged_accepts

\* The last requests of the comparison and what each of them saw of the policy.
FiniteAt == {e.index : e \in {x \in tracker.events : x.event = "finite"}}

LifecycleInv ==
  Compares =>
    LET n == Len(trace)
        prev == tracker.prev.calibrated
    IN  /\ trace \in Seq([source : {"cache", "llm"}, calibrated : BOOLEAN])
        /\ marks \in [hit : Nat, calibrated : Nat, response : Policies]
        /\ prev \in BOOLEAN
        /\ phase = "refit" => n = 0
        /\ idx = IF Underway THEN n + 1 ELSE n
        /\ tracker.seen <=> n > 0
        /\ marks.calibrated \in 0..n
        /\ prev => n > 0 /\ policy.finite /\ (Underway => request.policy.finite)
        /\ marks.calibrated # 0 => prev
        /\ at = "handled" => /\ request.policy.finite => marks.response.finite
                             /\ marks.response.finite => policy.finite
        /\ \A i \in FiniteAt : /\ i \in 1..n /\ prev
                               /\ \/ marks.calibrated \in {i, i + 1}
                                  \/ marks.calibrated = 0 /\ n = i
        /\ FiniteAt = {} /\ prev => \/ marks.calibrated \in 1..2
                                    \/ marks.calibrated = 0 /\ n = 1
        /\ \A i \in 1..n : trace[i].source = "cache" => marks.calibrated \in 1..i

EndInv ==
  Compares =>
    /\ \A i \in DOMAIN trace : trace[i].source = "cache" => marks.hit # 0
    /\ marks.hit # 0 => policy.finite
    /\ \A i \in DOMAIN trace : trace[i].source = "cache" => \A j \in i + 1..idx : j <= options.main

IInv ==
  /\ Typed
  /\ PolicyInv
  /\ PairsInv
  /\ AuditInv
  /\ StoppingInv
  /\ RowsInv
  /\ RecordsInv
  /\ LifecycleInv
  /\ EndInv

(***************************************************************************)
(* What the options of a replay are, and the steps of all three replays    *)
(***************************************************************************)

LEMMA OptionFacts ==
  ASSUME options \in OptionsSet
  PROVE  /\ options.warmup \in Seq(Rows) /\ options.measured \in Seq(Rows)
         /\ Range(options.warmup) \cap Range(options.measured) = {}
         /\ Range(options.warmup) \subseteq Rows /\ Range(options.measured) \subseteq Rows
         /\ options.anchors => ~options.shared_cache /\ ~Compares
         /\ options.main \in Nat
         /\ Compares => options.warmup = <<>> /\ ~options.judge_cache /\ ~options.shared_cache
  <1>1. /\ options.warmup \in Seq(Rows) /\ options.measured \in Seq(Rows)
        /\ \A i \in DOMAIN options.warmup, j \in DOMAIN options.measured :
              options.warmup[i] # options.measured[j]
    BY ReplayAssumption
  <1>2. options.anchors => ~options.shared_cache
    BY AnchorAssumption
  <1>3. /\ options.main \in 0..Len(options.measured)
        /\ options.main > 0 => options.warmup = <<>> /\ ~options.anchors
                               /\ ~options.shared_cache /\ ~options.judge_cache
    BY ComparisonAssumption
  <1>4. /\ Range(options.warmup) \cap Range(options.measured) = {}
        /\ Range(options.warmup) \subseteq Rows /\ Range(options.measured) \subseteq Rows
    BY <1>1 DEF Range
  <1>5. options.main \in Nat
    BY <1>1, <1>3
  <1> QED BY <1>1, <1>2, <1>3, <1>4, <1>5 DEF Compares

LEMMA Constants ==
  /\ None \notin Rows /\ None \notin Nat
  /\ Verdict \in [Rows \X Rows -> Labels]
  /\ MaxVersion \in Nat /\ MaxAttempts \in Nat
  /\ \A row \in Rows : Gold[row] \in Rows
  BY ReplayAssumption, AnchorAssumption

Still == UNCHANGED <<diagnosis, lifecycle>>

Asks(candidates, accepted) ==
  /\ Decide(candidates, accepted) /\ Still
  /\ Probes => probe.made
  /\ Compares /\ idx >= options.main => NeedsMore

Answers(jobs) ==
  /\ Return(jobs)
  /\ marks' = IF Compares THEN [marks EXCEPT !.response = policy] ELSE marks
  /\ UNCHANGED <<diagnosis, tracker, trace, ends>>

\* The threads of the oracle, and a stopping check that is skipped or made.
LearnsOne(job) == (Activate(job) \/ Reject(job)) /\ Still

Resolves == Account /\ ~Probes /\ ~Compares /\ Still

Turns ==
  /\ \/ phase = "warmup" /\ at = "next" /\ phase' = "refit"
     \/ phase = "refit" /\ phase' = "failed"
     \/ phase = "measured" /\ at = "next" /\ phase' = "done"
  /\ Still
  /\ UNCHANGED <<options, serving, policy, learning, measuring, attempts, stopping, frozen>>

Enters(jobs) ==
  /\ EnterMeasured(jobs) /\ Still
  /\ session' = IF ~options.anchors /\ ~Compares /\ Active(policy)
                THEN [start |-> 1, baseline |-> NoCounts] ELSE session

AnyStep ==
  \/ \E candidates \in SUBSET Rows : \E accepted \in candidates \cup {None} :
        Asks(candidates, accepted)
  \/ \E c \in request.candidates : JudgeCandidate(c) /\ Still
  \/ \E c \in request.candidates : JudgeFails(c) /\ Still
  \/ \E jobs \in SUBSET Jobs : Answers(jobs)
  \/ \E job \in Jobs : LearnsOne(job)
  \/ Resolves
  \/ \E forced \in BOOLEAN : Diagnose(forced) /\ ~Compares /\ UNCHANGED lifecycle
  \/ CompareAccount /\ Compares
  \/ SkipCheck /\ Still
  \/ \E rate \in Rates, enough \in BOOLEAN : CheckStopping(rate, enough) /\ Still
  \/ Turns
  \/ ForceRefit /\ Still
  \/ \E jobs \in SUBSET Jobs : Enters(jobs)
  \/ EndOfLoop /\ Compares
  \/ \E candidates \in SUBSET Rows : \E top1 \in candidates \cup {None}, accepted \in SUBSET candidates :
        Probe(candidates, top1, accepted) /\ ~Compares /\ UNCHANGED lifecycle
  \/ UNCHANGED <<vars, diagnosis, lifecycle>>

\* Whichever replay it is, a step is one of these.
LEMMA Steps ==
  ASSUME Typed, [ComparedNext]_<<vars, diagnosis, lifecycle>>
  PROVE  AnyStep
  <1>0. /\ rows \subseteq Rows /\ probe.candidates \subseteq Rows
        /\ options.anchors => ~Compares
    BY OptionFacts DEF Typed, TypeOK
  <1>1. CASE UNCHANGED <<vars, diagnosis, lifecycle>>
    BY <1>1 DEF AnyStep
  <1>2. CASE ~Compares /\ Diagnoses /\ UNCHANGED lifecycle
    <2>1. ASSUME NEW candidates \in SUBSET rows, NEW top1 \in candidates \cup {None},
                 NEW accepted \in SUBSET candidates, Probe(candidates, top1, accepted)
          PROVE  AnyStep
      BY <1>0, <1>2, <2>1 DEF AnyStep
    <2>2. ASSUME NEW accepted \in probe.candidates \cup {None}, DecideProbed(accepted)
          PROVE  AnyStep
      <3>1. PICK candidates : candidates = probe.candidates
        OBVIOUS
      <3>2. Asks(candidates, accepted)
        BY <1>2, <2>2, <3>1 DEF DecideProbed, Asks, Still
      <3> QED BY <1>0, <3>1, <3>2 DEF AnyStep
    <2>3. ASSUME NEW forced \in BOOLEAN, Diagnose(forced) PROVE AnyStep
      BY <1>2, <2>3 DEF AnyStep
    <2>4. ASSUME NEW jobs \in SUBSET Jobs, BeginDiagnosed(jobs) PROVE AnyStep
      <3>1. Enters(jobs)
        BY <1>2, <2>4 DEF BeginDiagnosed, Enters, Still
      <3> QED BY <3>1 DEF AnyStep
    <2>5. CASE FailFast
      <3>1. Turns
        BY <1>2, <2>5 DEF FailFast, Turns, Still
      <3> QED BY <3>1 DEF AnyStep
    <2> QED BY <1>2, <2>1, <2>2, <2>3, <2>4, <2>5 DEF Diagnoses
  <1>3. ASSUME NEW candidates \in SUBSET rows, NEW accepted \in candidates \cup {None},
               Decide(candidates, accepted), Still, ~Probes,
               Compares /\ idx >= options.main => NeedsMore
        PROVE  AnyStep
    <2>1. Asks(candidates, accepted)
      BY <1>3 DEF Asks
    <2> QED BY <1>0, <2>1 DEF AnyStep
  <1>4. CASE Learns /\ Still
    BY <1>4 DEF Learns, LearnsOne, AnyStep
  <1>5. CASE Checks /\ Still
    BY <1>5 DEF Checks, AnyStep
  <1>6. CASE /\ ~Compares /\ Still
             /\ \/ ~Probes /\ (Decides \/ Account)
                \/ ~options.anchors /\ Begins
                \/ Judges \/ Returns \/ WarmupEnds \/ ForceRefit \/ Finish
    <2>1. CASE ~Probes /\ Decides
      BY <1>3, <1>6, <2>1 DEF Decides
    <2>2. CASE ~Probes /\ Account
      BY <1>6, <2>2 DEF Resolves, AnyStep
    <2>3. CASE ~options.anchors /\ Begins
      <3>1. PICK jobs \in SUBSET Jobs : BeginMeasured(jobs)
        BY <2>3 DEF Begins
      <3>2. Enters(jobs)
        BY <1>6, <2>3, <3>1 DEF BeginMeasured, Enters
      <3> QED BY <3>2 DEF AnyStep
    <2>4. CASE Judges
      BY <1>6, <2>4 DEF Judges, AnyStep
    <2>5. CASE Returns
      <3>1. PICK jobs \in SUBSET Jobs : Return(jobs)
        BY <2>5 DEF Returns
      <3>2. Answers(jobs)
        BY <1>6, <3>1 DEF Answers, Still, lifecycle
      <3> QED BY <3>2 DEF AnyStep
    <2>6. CASE WarmupEnds \/ Finish
      <3>1. Turns
        BY <1>6, <2>6 DEF WarmupEnds, Finish, Turns
      <3> QED BY <3>1 DEF AnyStep
    <2>7. CASE ForceRefit
      BY <1>6, <2>7 DEF AnyStep
    <2> QED BY <1>6, <2>1, <2>2, <2>3, <2>4, <2>5, <2>6, <2>7
  <1>7. CASE Compares /\ CompareMethod
    <2>0. ~Probes
      BY <1>0, <1>7 DEF Probes
    <2>1. CASE BeginComparison
      <3>1. Enters({})
        BY <1>7, <2>1 DEF BeginComparison, Enters, Still
      <3> QED BY <3>1 DEF AnyStep
    <2>2. CASE CompareDecide
      BY <1>3, <1>7, <2>0, <2>2 DEF CompareDecide, Decides, Still
    <2>3. CASE CompareJudge
      BY <2>3 DEF CompareJudge, AnyStep, Still
    <2>4. CASE CompareReturn
      <3>1. PICK jobs \in SUBSET Jobs : Return(jobs)
        BY <2>4 DEF CompareReturn, Returns
      <3>2. Answers(jobs)
        BY <1>7, <2>4, <3>1 DEF CompareReturn, Answers
      <3> QED BY <3>2 DEF AnyStep
    <2>5. CASE CompareAccount
      BY <1>7, <2>5 DEF AnyStep
    <2>6. CASE (Learns \/ Checks) /\ UNCHANGED <<diagnosis, lifecycle>>
      BY <1>4, <1>5, <2>6 DEF Still
    <2>7. CASE EndOfLoop
      BY <1>7, <2>7 DEF AnyStep
    <2>8. CASE EndOfComparison
      <3>1. Turns
        BY <2>8 DEF EndOfComparison, Turns, Still
      <3> QED BY <3>1 DEF AnyStep
    <2> QED BY <1>7, <2>1, <2>2, <2>3, <2>4, <2>5, <2>6, <2>7, <2>8 DEF CompareMethod
  <1>8. CASE ~Compares /\ DiagnosedNext /\ UNCHANGED lifecycle
    <2>1. CASE Diagnoses
      BY <1>2, <1>8, <2>1
    <2>2. CASE ~Diagnoses
      <3>1. Still
        BY <1>8, <2>2 DEF DiagnosedNext, Still
      <3>2. \/ ~Probes /\ (Decides \/ Account)
            \/ ~options.anchors /\ Begins
            \/ Judges \/ Returns \/ Learns \/ Checks \/ WarmupEnds \/ ForceRefit \/ Finish
        BY <1>8, <2>2 DEF DiagnosedNext
      <3> QED BY <1>4, <1>5, <1>6, <1>8, <3>1, <3>2
    <2> QED BY <2>1, <2>2
  <1> QED BY <1>1, <1>7, <1>8 DEF ComparedNext

(***************************************************************************)
(* Convergence                                                             *)
(***************************************************************************)

\* The observations of the controller, and which of them are checks.
ChecksOf(history, first) == {i \in Window..Len(history) : i >= first /\ i % CheckEvery = 0}
WindowStable(history, i) ==
  /\ \A j \in i - Window + 1..i : history[j] = history[i]
  /\ history[i].rate <= FprLimit

Observations == [threshold : Nat, rate : Rates]

Controllers == [history : Seq(Observations), checks : Nat, stopped : BOOLEAN]

Converging(controller) ==
  /\ controller \in Controllers
  /\ controller.stopped => controller.checks >= Patience
  /\ controller.checks > 0 =>
       \E first \in DOMAIN controller.history :
          /\ Cardinality(ChecksOf(controller.history, first)) >= controller.checks
          /\ \A i \in ChecksOf(controller.history, first) : WindowStable(controller.history, i)

LEMMA StoppingConstants ==
  /\ CheckEvery \in Nat /\ CheckEvery > 0 /\ Patience \in Nat /\ Patience > 0
  /\ Window \in Nat /\ Window > 1 /\ Rates \subseteq Nat /\ FprLimit \in Nat
  BY StoppingAssumption

LEMMA ChecksFinite ==
  ASSUME NEW history \in Seq(Observations), NEW first
  PROVE  IsFiniteSet(ChecksOf(history, first))
         /\ Cardinality(ChecksOf(history, first)) \in Nat
  <1>1. Len(history) \in Nat
    OBVIOUS
  <1>2. IsFiniteSet(Window..Len(history))
    BY <1>1, StoppingConstants, FS_Interval
  <1>3. IsFiniteSet(ChecksOf(history, first))
    BY <1>2, FS_Subset DEF ChecksOf
  <1> QED BY <1>3, FS_CardinalityType

\* One observation more: what was a check is one as before.
LEMMA Observed ==
  ASSUME NEW history \in Seq(Observations), NEW metrics \in Observations,
         NEW first \in Nat
  PROVE  LET more == Append(history, metrics)
             n == Len(history) + 1
         IN  /\ more \in Seq(Observations) /\ Len(more) = n
             /\ n \notin ChecksOf(history, first)
             /\ ChecksOf(more, first) =
                  ChecksOf(history, first)
                    \cup (IF n >= Window /\ n >= first /\ n % CheckEvery = 0 THEN {n} ELSE {})
             /\ \A i \in ChecksOf(history, first) :
                   WindowStable(history, i) => WindowStable(more, i)
  <1> DEFINE more == Append(history, metrics)
             n == Len(history) + 1
  <1>1. /\ more \in Seq(Observations) /\ Len(more) = n /\ n \in Nat
        /\ \A i \in 1..Len(history) : more[i] = history[i]
    OBVIOUS
  <1> HIDE DEF more
  <1>2. n \notin ChecksOf(history, first)
    BY StoppingConstants DEF ChecksOf
  <1>3. ASSUME NEW i
        PROVE  i \in ChecksOf(more, first) <=>
                 i \in ChecksOf(history, first)
                   \cup (IF n >= Window /\ n >= first /\ n % CheckEvery = 0 THEN {n} ELSE {})
    <2>1. i \in Window..n <=> i \in Window..Len(history) \/ (i = n /\ n >= Window)
      BY <1>1, StoppingConstants
    <2> HIDE DEF n
    <2> QED BY <1>1, <2>1 DEF ChecksOf
  <1>4. ASSUME NEW i \in ChecksOf(history, first), WindowStable(history, i)
        PROVE  WindowStable(more, i)
    <2>1. i \in 1..Len(history) /\ \A j \in i - Window + 1..i : j \in 1..Len(history)
      BY StoppingConstants DEF ChecksOf
    <2>2. \A j \in i - Window + 1..i : more[j] = history[j]
      BY <1>1, <2>1
    <2>3. more[i] = history[i]
      BY <1>1, <2>1
    <2> QED BY <1>4, <2>2, <2>3 DEF WindowStable
  <1> QED BY <1>1, <1>2, <1>3, <1>4 DEF more

\* A window of the end that the controller takes for stable is stable.
LEMMA StableWindow ==
  ASSUME NEW history \in Seq(Observations), Len(history) >= Window,
         Stable(LastOf(history, Window))
  PROVE  WindowStable(history, Len(history))
  <1> DEFINE n == Len(history)
             window == LastOf(history, Window)
  <1>1. n \in Nat /\ n >= Window /\ Window \in Nat /\ Window > 1
    BY StoppingConstants
  <1>2. n - Window + 1 \in 1..n /\ n \in 1..n
    BY <1>1
  <1>3. Len(window) = Window /\ \A k \in 1..Window : window[k] = history[n - Window + k]
    BY <1>1, <1>2 DEF LastOf
  <1>4. DOMAIN window = 1..Window
    BY <1>1, <1>2 DEF LastOf
  <1> HIDE DEF window
  <1>5. window[Window] = history[n]
    <2>1. Window \in 1..Window /\ n - Window + Window = n
      BY <1>1
    <2> QED BY <1>3, <2>1
  <1>6. ASSUME NEW j \in n - Window + 1..n PROVE history[j] = history[n]
    <2>1. j - (n - Window) \in 1..Window /\ n - Window + (j - (n - Window)) = j
      BY <1>1
    <2>2. window[j - (n - Window)] = history[j]
      BY <1>3, <2>1
    <2>3. window[j - (n - Window)] = window[Window]
      BY <1>1, <1>4, <2>1 DEF Stable, window
    <2> QED BY <1>5, <2>2, <2>3
  <1>7. history[n].rate <= FprLimit
    BY <1>3, <1>5 DEF Stable, window
  <1> QED BY <1>6, <1>7 DEF WindowStable

\* observe keeps it, as long as it is told of every batch.
LEMMA ObserveConverging ==
  ASSUME NEW controller, Converging(controller), ~controller.stopped,
         NEW metrics \in Observations, NEW enough \in BOOLEAN,
         NEW batch, batch = Len(controller.history) + 1
  PROVE  LET after == Observe(controller, batch, metrics, enough)
         IN  Converging(after) /\ Len(after.history) = batch
  <1> DEFINE history == controller.history
             more == Append(history, metrics)
             stable == Stable(LastOf(more, Window))
             checks == Count(stable, controller.checks)
             after == Observe(controller, batch, metrics, enough)
  <1>1. /\ controller \in Controllers /\ history \in Seq(Observations)
        /\ controller.checks \in Nat /\ batch \in Nat /\ Len(history) \in Nat
    BY DEF Converging, Controllers
  <1>2. more \in Seq(Observations) /\ Len(more) = batch
    BY <1>1
  <1>3. checks \in Nat /\ checks = IF stable THEN controller.checks + 1 ELSE 0
    BY <1>1 DEF Count
  <1>4. after = IF batch % CheckEvery # 0 THEN [controller EXCEPT !.history = more]
                ELSE IF ~enough THEN [[controller EXCEPT !.history = more] EXCEPT !.checks = 0]
                ELSE IF Len(more) < Window THEN [controller EXCEPT !.history = more]
                ELSE [[controller EXCEPT !.history = more] EXCEPT !.checks = checks,
                                                                  !.stopped = checks >= Patience]
    BY DEF Observe
  <1>5. after \in Controllers /\ after.history = more
        /\ (batch % CheckEvery # 0 => after.checks = controller.checks /\ ~after.stopped)
        /\ (batch % CheckEvery = 0 /\ ~enough => after.checks = 0 /\ ~after.stopped)
        /\ (batch % CheckEvery = 0 /\ enough /\ batch < Window =>
               after.checks = controller.checks /\ ~after.stopped)
        /\ (batch % CheckEvery = 0 /\ enough /\ ~(batch < Window) =>
               after.checks = checks /\ after.stopped = (checks >= Patience))
    <2> DEFINE seen == [controller EXCEPT !.history = more]
    <2> HIDE DEF after, checks, more
    <2>1. seen \in Controllers /\ seen.history = more /\ seen.checks = controller.checks
          /\ seen.stopped = FALSE
      BY <1>1, <1>2 DEF Controllers
    <2>2. (checks >= Patience) \in BOOLEAN
      OBVIOUS
    <2> HIDE DEF seen
    <2>3. after = IF batch % CheckEvery # 0 THEN seen
                  ELSE IF ~enough THEN [seen EXCEPT !.checks = 0]
                  ELSE IF batch < Window THEN seen
                  ELSE [seen EXCEPT !.checks = checks, !.stopped = checks >= Patience]
      BY <1>2, <1>4 DEF seen
    <2>4. [seen EXCEPT !.checks = 0] \in Controllers /\ [seen EXCEPT !.checks = 0].history = more
          /\ [seen EXCEPT !.checks = 0].checks = 0 /\ ~[seen EXCEPT !.checks = 0].stopped
      BY <2>1 DEF Controllers
    <2> DEFINE last == [seen EXCEPT !.checks = checks, !.stopped = checks >= Patience]
    <2>5. last \in Controllers /\ last.history = more /\ last.checks = checks
          /\ last.stopped = (checks >= Patience)
      BY <1>3, <2>1, <2>2 DEF Controllers
    <2> HIDE DEF last
    <2>6. CASE batch % CheckEvery # 0 \/ (enough /\ batch < Window)
      <3>1. after = seen
        BY <2>3, <2>6 DEF last
      <3> QED BY <2>1, <2>6, <3>1
    <2>7. CASE batch % CheckEvery = 0 /\ ~enough
      <3>1. after = [seen EXCEPT !.checks = 0]
        BY <2>3, <2>7
      <3> QED BY <2>4, <2>7, <3>1
    <2>8. CASE batch % CheckEvery = 0 /\ enough /\ ~(batch < Window)
      <3>1. after = last
        BY <2>3, <2>8 DEF last
      <3> QED BY <2>5, <2>8, <3>1
    <2> QED BY <2>6, <2>7, <2>8
  <1> HIDE DEF after
  <1>6. \A first \in DOMAIN history : first \in Nat /\ first \in DOMAIN more
    BY <1>1, <1>2
  <1>12. ASSUME NEW first \in Nat
         PROVE  /\ batch \notin ChecksOf(history, first)
                /\ ChecksOf(more, first) =
                     ChecksOf(history, first)
                       \cup (IF batch >= Window /\ batch >= first /\ batch % CheckEvery = 0
                             THEN {batch} ELSE {})
                /\ \A i \in ChecksOf(history, first) :
                      WindowStable(history, i) => WindowStable(more, i)
    BY <1>1, Observed
  <1> HIDE DEF more
  <1>7. ASSUME after.checks = controller.checks, after.checks > 0,
               batch % CheckEvery # 0 \/ batch < Window
        PROVE  \E first \in DOMAIN more :
                  /\ Cardinality(ChecksOf(more, first)) >= after.checks
                  /\ \A i \in ChecksOf(more, first) : WindowStable(more, i)
    <2>1. PICK first \in DOMAIN history :
             /\ Cardinality(ChecksOf(history, first)) >= controller.checks
             /\ \A i \in ChecksOf(history, first) : WindowStable(history, i)
      BY <1>7 DEF Converging
    <2>2. ChecksOf(more, first) = ChecksOf(history, first)
      <3>1. first \in Nat
        BY <1>6
      <3>2. batch \in Nat /\ Window \in Nat
        BY <1>1, StoppingConstants
      <3>3. ~(batch >= Window /\ batch >= first /\ batch % CheckEvery = 0)
        <4>1. CASE batch % CheckEvery # 0
          BY <4>1
        <4>2. CASE batch < Window
          BY <3>2, <4>2
        <4> QED BY <1>7, <4>1, <4>2
      <3> QED BY <1>12, <3>1, <3>3
    <2>3. \A i \in ChecksOf(history, first) : WindowStable(more, i)
      BY <1>6, <2>1, <1>12
    <2> QED BY <1>6, <1>7, <2>1, <2>2, <2>3
  <1>8. ASSUME after.checks = checks, checks > 0, batch % CheckEvery = 0, ~(batch < Window)
        PROVE  \E first \in DOMAIN more :
                  /\ Cardinality(ChecksOf(more, first)) >= checks
                  /\ \A i \in ChecksOf(more, first) : WindowStable(more, i)
    <2>1. stable /\ checks = controller.checks + 1
      BY <1>3, <1>8
    <2>2. WindowStable(more, batch)
      <3>1. Len(more) >= Window /\ Stable(LastOf(more, Window))
        BY <1>1, <1>2, <1>8, <2>1, StoppingConstants
      <3> QED BY <1>2, <3>1, StableWindow
    <2>3. CASE controller.checks = 0
      <3>1. ChecksOf(more, batch) = {batch}
        <4>1. ChecksOf(history, batch) = {}
          BY <1>1, StoppingConstants DEF ChecksOf
        <4>2. ChecksOf(more, batch) = ChecksOf(history, batch) \cup {batch}
          BY <1>1, <1>8, <1>12, StoppingConstants
        <4> QED BY <4>1, <4>2
      <3>2. Cardinality(ChecksOf(more, batch)) = 1
        BY <3>1, FS_Singleton
      <3>3. batch \in DOMAIN more
        BY <1>1, <1>2
      <3> HIDE DEF checks
      <3>4. checks = 1 /\ \A i \in ChecksOf(more, batch) : WindowStable(more, i)
        BY <2>1, <2>2, <2>3, <3>1
      <3> QED BY <3>2, <3>3, <3>4
    <2>4. CASE controller.checks > 0
      <3>1. PICK first \in DOMAIN history :
               /\ Cardinality(ChecksOf(history, first)) >= controller.checks
               /\ \A i \in ChecksOf(history, first) : WindowStable(history, i)
        BY <2>4 DEF Converging
      <3>2. first \in Nat /\ first <= batch
        BY <1>1, <3>1
      <3>3. /\ ChecksOf(more, first) = ChecksOf(history, first) \cup {batch}
            /\ batch \notin ChecksOf(history, first)
            /\ \A i \in ChecksOf(history, first) : WindowStable(more, i)
        BY <1>1, <1>8, <1>12, <3>1, <3>2, StoppingConstants
      <3>4. /\ Cardinality(ChecksOf(more, first)) = Cardinality(ChecksOf(history, first)) + 1
            /\ Cardinality(ChecksOf(history, first)) \in Nat
        BY <1>1, <3>3, ChecksFinite, FS_AddElement
      <3> HIDE DEF checks
      <3>5. Cardinality(ChecksOf(more, first)) >= checks
        BY <1>1, <2>1, <3>1, <3>4
      <3>6. \A i \in ChecksOf(more, first) : WindowStable(more, i)
        BY <2>2, <3>1, <3>3
      <3> QED BY <1>6, <3>5, <3>6
    <2> QED BY <1>1, <2>3, <2>4
  <1>9. after.checks > 0 =>
          \E first \in DOMAIN more :
             /\ Cardinality(ChecksOf(more, first)) >= after.checks
             /\ \A i \in ChecksOf(more, first) : WindowStable(more, i)
    <2> HIDE DEF more, checks
    <2> QED BY <1>5, <1>7, <1>8
  <1>10. after.stopped => after.checks >= Patience
    <2> HIDE DEF checks
    <2> QED BY <1>5
  <1> QED BY <1>2, <1>5, <1>9, <1>10 DEF Converging, after

LEMMA StoppingIs ==
  StoppingInv <=> /\ Converging(stopping.controller)
                  /\ Len(stopping.controller.history) = stopping.updates
                  /\ frozen = stopping.controller.stopped
  <1>1. \A first : ChecksFrom(first) = ChecksOf(stopping.controller.history, first)
    BY DEF ChecksFrom, ChecksOf
  <1>2. \A i : StableAt(i) <=> WindowStable(stopping.controller.history, i)
    BY DEF StableAt, WindowStable
  <1> QED BY <1>1, <1>2 DEF StoppingInv, Converging, Controllers, Observations

LEMMA StoppingStep == Typed /\ StoppingInv /\ AnyStep => StoppingInv'
  <1> SUFFICES ASSUME Typed, StoppingInv, AnyStep PROVE StoppingInv'
    OBVIOUS
  <1>1. CASE stopping' = stopping /\ frozen' = frozen
    BY <1>1 DEF StoppingInv, StableAt, ChecksFrom
  <1>2. ASSUME NEW rate \in Rates, NEW enough \in BOOLEAN, CheckStopping(rate, enough)
        PROVE  StoppingInv'
    <2> DEFINE metrics == [threshold |-> policy.version, rate |-> rate]
               after == Observe(stopping.controller, stopping.updates + 1, metrics, enough)
    <2>1. metrics \in Observations
      BY Constants DEF Typed, TypeOK, Policies, Observations
    <2>2. /\ ~frozen /\ frozen' = after.stopped
          /\ stopping' = [controller |-> after, updates |-> stopping.updates + 1]
      BY <1>2 DEF CheckStopping
    <2>3. /\ Converging(stopping.controller) /\ ~stopping.controller.stopped
          /\ stopping.updates = Len(stopping.controller.history)
      BY <2>2, StoppingIs
    <2>4. PICK controller, batch, m : controller = stopping.controller /\ batch = stopping.updates + 1
                                      /\ m = metrics
      OBVIOUS
    <2>5. Converging(after) /\ Len(after.history) = stopping.updates + 1
      <3>1. after = Observe(controller, batch, m, enough)
        BY <2>4
      <3>2. Converging(controller) /\ ~controller.stopped /\ m \in Observations
            /\ batch = Len(controller.history) + 1
        BY <2>1, <2>3, <2>4
      <3>3. LET x == Observe(controller, batch, m, enough)
            IN  Converging(x) /\ Len(x.history) = batch
        BY <3>2, ObserveConverging
      <3> QED BY <2>4, <3>1, <3>3
    <2> HIDE DEF after, metrics
    <2>6. /\ Converging(stopping'.controller)
          /\ Len(stopping'.controller.history) = stopping'.updates
          /\ frozen' = stopping'.controller.stopped
      BY <2>2, <2>5
    <2>7. \A first : ChecksFrom(first)' = ChecksOf(stopping'.controller.history, first)
      BY DEF ChecksFrom, ChecksOf
    <2>8. \A i : StableAt(i)' <=> WindowStable(stopping'.controller.history, i)
      BY DEF StableAt, WindowStable
    <2> QED BY <2>6, <2>7, <2>8 DEF StoppingInv, Converging, Controllers, Observations
  <1>3. \/ stopping' = stopping /\ frozen' = frozen
        \/ \E rate \in Rates, enough \in BOOLEAN : CheckStopping(rate, enough)
    <2>1. CASE \E candidates \in SUBSET Rows : \E accepted \in candidates \cup {None} :
                  Asks(candidates, accepted)
      BY <2>1 DEF Asks, Decide
    <2>2. CASE \E c \in request.candidates : (JudgeCandidate(c) \/ JudgeFails(c)) /\ Still
      BY <2>2 DEF JudgeCandidate, JudgeFails
    <2>3. CASE \E jobs \in SUBSET Jobs : Answers(jobs)
      BY <2>3 DEF Answers, Return
    <2>4. CASE \E job \in Jobs : LearnsOne(job)
      BY <2>4 DEF LearnsOne, Activate, Reject
    <2>5. CASE Resolves \/ CompareAccount \/ EndOfLoop \/ SkipCheck \/ ForceRefit
      BY <2>5 DEF Resolves, Account, CompareAccount, EndOfLoop, SkipCheck, ForceRefit
    <2>6. CASE \E forced \in BOOLEAN : Diagnose(forced)
      BY <2>6 DEF Diagnose
    <2>7. CASE Turns
      BY <2>7 DEF Turns
    <2>8. CASE \E jobs \in SUBSET Jobs : Enters(jobs)
      BY <2>8 DEF Enters, EnterMeasured
    <2>9. CASE \E candidates \in SUBSET Rows :
                  \E top1 \in candidates \cup {None}, accepted \in SUBSET candidates :
                     Probe(candidates, top1, accepted)
      BY <2>9 DEF Probe, vars
    <2>10. CASE UNCHANGED <<vars, diagnosis, lifecycle>>
      BY <2>10 DEF vars
    <2> QED BY <2>1, <2>2, <2>3, <2>4, <2>5, <2>6, <2>7, <2>8, <2>9, <2>10 DEF AnyStep
  <1> QED BY <1>1, <1>2, <1>3

(***************************************************************************)
(* Types, and where a request stands                                       *)
(***************************************************************************)

LEMMA RowType ==
  ASSUME Typed, Underway
  PROVE  /\ Row \in Rows /\ idx \in 1..Len(Stream) /\ Serves
         /\ phase = "warmup" => Row \in Range(options.warmup)
         /\ phase = "measured" => Row \in Range(options.measured)
  <1>1. options.warmup \in Seq(Rows) /\ options.measured \in Seq(Rows)
    BY OptionFacts DEF Typed, TypeOK
  <1>2. idx \in 1..Len(Stream) /\ Serves
    BY DEF Typed, Underway
  <1>3. CASE phase = "warmup"
    <2>1. Row = options.warmup[idx] /\ idx \in 1..Len(options.warmup)
      BY <1>2, <1>3 DEF Row, Stream
    <2> QED BY <1>1, <1>2, <1>3, <2>1 DEF Range
  <1>4. CASE phase = "measured"
    <2>1. Row = options.measured[idx] /\ idx \in 1..Len(options.measured)
      BY <1>2, <1>4 DEF Row, Stream
    <2> QED BY <1>1, <1>2, <1>4, <2>1 DEF Range
  <1> QED BY <1>2, <1>3, <1>4 DEF Serves

\* The accepted candidate was not judged, or not one way or the other.
Unjudged ==
  /\ request.accepted # None
  /\ ~ \E pair \in recorder.pending :
         /\ pair.index = idx /\ pair.key = request.accepted
         /\ pair.label # "UNCERTAIN"

LEMMA ResolvedIs ==
  /\ Resolved = [pending |-> Resolved.pending, counts |-> Resolved.counts]
  /\ Resolved.pending = {pair \in recorder.pending : pair.index # idx}
  /\ Resolved.counts =
       [true_accepts |-> recorder.counts.true_accepts + Pairs("H1", TRUE),
        false_accepts |-> recorder.counts.false_accepts + Pairs("H0", TRUE),
        true_rejects |-> recorder.counts.true_rejects + Pairs("H0", FALSE),
        false_rejects |-> recorder.counts.false_rejects + Pairs("H1", FALSE),
        unjudged_accepts |-> recorder.counts.unjudged_accepts + (IF Unjudged THEN 1 ELSE 0)]
  BY DEF Resolved, Unjudged

\* What resolve_request makes of the recorder.
LEMMA ResolvedType ==
  ASSUME Typed
  PROVE  /\ Resolved \in [pending : SUBSET Pair, counts : Counts]
         /\ IsFiniteSet(Resolved.pending)
         /\ \A label \in Labels, served \in BOOLEAN : Pairs(label, served) \in Nat
  <1>1. recorder \in [pending : SUBSET Pair, counts : Counts] /\ IsFiniteSet(recorder.pending)
    BY DEF Typed, TypeOK
  <1>2. ASSUME NEW label, NEW served \in BOOLEAN
        PROVE  Pairs(label, served) \in Nat
    <2> DEFINE S == {pair \in recorder.pending :
                       /\ pair.index = idx /\ pair.label = label
                       /\ served <=> pair.key = request.accepted}
    <2>1. IsFiniteSet(S)
      BY <1>1, FS_Subset
    <2>2. Pairs(label, served) = Cardinality(S)
      BY DEF Pairs
    <2> HIDE DEF S
    <2> QED BY <2>1, <2>2, FS_CardinalityType
  <1>3. Resolved.pending \subseteq recorder.pending
    BY DEF Resolved
  <1>4. IsFiniteSet(Resolved.pending)
    BY <1>1, <1>3, FS_Subset
  <1>5. Resolved.counts \in Counts
    <2>1. /\ Pairs("H1", TRUE) \in Nat /\ Pairs("H0", TRUE) \in Nat
          /\ Pairs("H0", FALSE) \in Nat /\ Pairs("H1", FALSE) \in Nat
      BY <1>2
    <2>2. recorder.counts \in Counts
      BY <1>1
    <2>3. /\ recorder.counts.true_accepts \in Nat /\ recorder.counts.false_accepts \in Nat
          /\ recorder.counts.true_rejects \in Nat /\ recorder.counts.false_rejects \in Nat
          /\ recorder.counts.unjudged_accepts \in Nat
      BY <2>2 DEF Counts
    <2> DEFINE a == recorder.counts.true_accepts + Pairs("H1", TRUE)
               b == recorder.counts.false_accepts + Pairs("H0", TRUE)
               c == recorder.counts.true_rejects + Pairs("H0", FALSE)
               d == recorder.counts.false_rejects + Pairs("H1", FALSE)
               e == recorder.counts.unjudged_accepts + (IF Unjudged THEN 1 ELSE 0)
    <2>4. a \in Nat /\ b \in Nat /\ c \in Nat /\ d \in Nat /\ e \in Nat
      <3>1. \A m, n \in Nat : m + n \in Nat
        OBVIOUS
      <3>2. (IF Unjudged THEN 1 ELSE 0) \in Nat
        OBVIOUS
      <3> QED BY <2>1, <2>3, <3>1, <3>2, Zenon
    <2>5. Resolved.counts = [true_accepts |-> a, false_accepts |-> b, true_rejects |-> c,
                             false_rejects |-> d, unjudged_accepts |-> e]
      BY ResolvedIs
    <2> HIDE DEF a, b, c, d, e
    <2> QED BY <2>4, <2>5 DEF Counts
  <1>6. Resolved = [pending |-> Resolved.pending, counts |-> Resolved.counts]
    BY ResolvedIs
  <1>7. Resolved \in [pending : SUBSET Pair, counts : Counts]
    BY <1>1, <1>3, <1>5, <1>6
  <1> QED BY <1>2, <1>4, <1>7

LEMMA ColdType ==
  /\ Cold \in Policies /\ ~Cold.finite /\ ~Cold.fitted
  /\ NoRequest \in [candidates : SUBSET Rows, accepted : Rows \cup {None}, policy : Policies]
  /\ NoRequest.candidates = {} /\ NoRequest.accepted = None
  /\ NoCounts \in Counts /\ NoAudit \in AuditCounts
  /\ NoProbe.candidates = {} /\ NoProbe.made = FALSE
  <1>1. Cold \in Policies /\ ~Cold.finite /\ ~Cold.fitted
    BY Constants DEF Cold, Policies
  <1> QED BY <1>1 DEF NoRequest, NoCounts, Counts, NoAudit, AuditCounts, NoProbe

LEMMA TypedInit == ComparedInit => Typed
  <1> SUFFICES ASSUME ComparedInit PROVE Typed
    OBVIOUS
  <1> USE DEF ComparedInit, DiagnosedInit, Init
  <1>1. TypeOK
    <2>1. /\ options \in OptionsSet /\ phase \in {"warmup", "refit"}
          /\ idx = 0 /\ at = "next" /\ request = NoRequest /\ rows = {} /\ verdicts = {}
          /\ policy = Cold /\ attempts = 0 /\ frozen = FALSE
      OBVIOUS
    <2>2. learning \in [auto : BOOLEAN, jobs : SUBSET Jobs]
      OBVIOUS
    <2>3. recorder \in [pending : SUBSET Pair, counts : Counts]
          /\ session \in [start : Nat \cup {None}, baseline : Counts]
          /\ audit \in [all : AuditCounts, post : AuditCounts]
          /\ stopping.updates \in Nat
      BY ColdType
    <2> HIDE DEF ComparedInit, DiagnosedInit, Init
    <2>4. /\ attempts \in 0..MaxAttempts /\ frozen \in BOOLEAN
          /\ idx \in Nat /\ at \in {"next", "judge", "handled", "check"}
          /\ phase \in {"warmup", "refit", "measured", "done", "failed"}
      <3>1. 0 \in 0..MaxAttempts
        BY Constants
      <3>2. 0 \in Nat
        OBVIOUS
      <3>3. attempts \in 0..MaxAttempts /\ idx \in Nat
        BY <2>1, <3>1, <3>2, Zenon
      <3>4. frozen \in BOOLEAN
        BY <2>1, Zenon
      <3> QED BY <2>1, <3>3, <3>4
    <2>5. /\ request \in [candidates : SUBSET Rows, accepted : Rows \cup {None}, policy : Policies]
          /\ policy \in Policies
          /\ rows \subseteq Rows /\ verdicts \subseteq Rows \X Rows
      BY <2>1, ColdType
    <2> QED BY <2>1, <2>2, <2>3, <2>4, <2>5 DEF TypeOK
  <1>2. IsFiniteSet(recorder.pending)
    BY FS_EmptySet
  <1>3. probe.candidates \subseteq Rows /\ probe.made \in BOOLEAN
    BY ColdType
  <1>4. options.warmup = <<>> => phase # "warmup"
    OBVIOUS
  <1>5. recorder.counts = NoCounts
    OBVIOUS
  <1> QED BY <1>1, <1>2, <1>3, <1>4, <1>5 DEF Typed, Underway

LEMMA Counted ==
  ASSUME NEW counts \in AuditCounts, NEW label
  PROVE  /\ Count1(counts, label) \in AuditCounts
         /\ Count1(counts, label).tp = IF label = "H1" THEN counts.tp + 1 ELSE counts.tp
         /\ Count1(counts, label).fp = IF label = "H0" THEN counts.fp + 1 ELSE counts.fp
         /\ Count1(counts, label).uncertain =
              IF label = "UNCERTAIN" THEN counts.uncertain + 1 ELSE counts.uncertain
  <1> DEFINE x == IF label = "H1" THEN counts.tp + 1 ELSE counts.tp
             y == IF label = "H0" THEN counts.fp + 1 ELSE counts.fp
             z == IF label = "UNCERTAIN" THEN counts.uncertain + 1 ELSE counts.uncertain
  <1>1. x \in Nat /\ y \in Nat /\ z \in Nat
    BY DEF AuditCounts
  <1>2. Count1(counts, label) = [counts EXCEPT !.tp = x, !.fp = y, !.uncertain = z]
    BY DEF Count1, AuditCounts
  <1> HIDE DEF x, y, z
  <1>3. /\ Count1(counts, label) \in AuditCounts
        /\ Count1(counts, label).tp = x
        /\ Count1(counts, label).fp = y
        /\ Count1(counts, label).uncertain = z
    BY <1>1, <1>2 DEF AuditCounts
  <1> QED BY <1>3 DEF x, y, z

\* The session and the audit that a request leaves.
LEMMA AuditType ==
  ASSUME Typed
  PROVE  /\ Session(Resolved.counts) \in [start : Nat \cup {None}, baseline : Counts]
         /\ \A started : Audited(started) \in [all : AuditCounts, post : AuditCounts]
  <1>1. Session(Resolved.counts) \in [start : Nat \cup {None}, baseline : Counts]
    BY ResolvedType DEF Session, StartAfter, Typed, TypeOK
  <1>2. ASSUME NEW counts \in AuditCounts, NEW label
        PROVE  Count1(counts, label) \in AuditCounts
    BY Counted
  <1>3. ASSUME NEW started
        PROVE  Audited(started) \in [all : AuditCounts, post : AuditCounts]
    <2>1. audit \in [all : AuditCounts, post : AuditCounts]
      BY DEF Typed, TypeOK
    <2>2. audit.all \in AuditCounts /\ audit.post \in AuditCounts
      BY <2>1
    <2>3. Count1(audit.all, ReuseLabel) \in AuditCounts
          /\ Count1(audit.post, ReuseLabel) \in AuditCounts
      BY <1>2, <2>2
    <2> QED BY <2>1, <2>2, <2>3 DEF Audited
  <1> QED BY <1>1, <1>3

\* What a step leaves as it is, it leaves typed.
LEMMA TypedStep == Typed /\ StoppingInv /\ AnyStep => Typed'
  <1> SUFFICES ASSUME Typed, StoppingInv, AnyStep PROVE Typed'
    OBVIOUS
  <1>0. StoppingInv'
    BY StoppingStep
  <1>1. stopping'.updates \in Nat /\ frozen' \in BOOLEAN
    <2>1. /\ stopping'.controller.stopped \in BOOLEAN
          /\ stopping'.controller.history \in Seq([threshold : Nat, rate : Rates])
      BY <1>0 DEF StoppingInv
    <2> QED BY <1>0, <2>1 DEF StoppingInv
  <1>2. ASSUME NEW candidates \in SUBSET Rows, NEW accepted \in candidates \cup {None},
               Asks(candidates, accepted)
        PROVE  Typed'
    <2>1. /\ Serves /\ at = "next" /\ idx < Len(Stream)
          /\ idx' = idx + 1 /\ at' = "judge" /\ phase' = phase /\ options' = options
          /\ request' = [candidates |-> candidates \ {Stream[idx + 1]}, accepted |-> accepted,
                         policy |-> policy]
          /\ rows' = rows /\ verdicts' = verdicts /\ policy' = policy /\ learning' = learning
          /\ recorder' = recorder /\ session' = session /\ audit' = audit
          /\ attempts' = attempts /\ probe' = probe
      BY <1>2 DEF Asks, Decide, Still, diagnosis, measuring
    <2>2. request' \in [candidates : SUBSET Rows, accepted : Rows \cup {None}, policy : Policies]
      BY <2>1 DEF Typed, TypeOK
    <2>3. Stream' = Stream /\ Stream \in Seq(Rows)
      BY <2>1, OptionFacts DEF Typed, TypeOK, Stream
    <2>4. TypeOK'
      BY <1>1, <2>1, <2>2 DEF Typed, TypeOK
    <2>5. idx' \in 1..Len(Stream')
      BY <2>1, <2>3 DEF Typed, TypeOK
    <2> QED BY <2>1, <2>4, <2>5 DEF Typed, Underway, Serves
  <1>3. ASSUME NEW c \in request.candidates, JudgeCandidate(c), Still
        PROVE  Typed'
    <2>1. /\ at = "judge" /\ idx' = idx /\ at' = at /\ phase' = phase /\ options' = options
          /\ verdicts' = IF options.judge_cache THEN verdicts \cup {<<Row, c>>} ELSE verdicts
          /\ recorder' = [recorder EXCEPT !.pending =
                @ \cup {[index |-> idx, key |-> c, label |-> Verdict[Row, c]]}]
          /\ request' = [request EXCEPT !.candidates = @ \ {c}]
          /\ rows' = rows /\ policy' = policy /\ learning' = learning
          /\ session' = session /\ audit' = audit /\ attempts' = attempts /\ probe' = probe
      BY <1>3 DEF JudgeCandidate, Still, diagnosis
    <2>2. Row \in Rows /\ c \in Rows
      BY <2>1, RowType DEF Underway, Typed, TypeOK
    <2>3. Verdict[Row, c] \in Labels
      BY <2>2, Constants
    <2> DEFINE pair == [index |-> idx, key |-> c, label |-> Verdict[Row, c]]
    <2>4. pair \in Pair
      BY <2>2, <2>3 DEF Typed, TypeOK, Pair
    <2> HIDE DEF pair
    <2>5. recorder' = [recorder EXCEPT !.pending = @ \cup {pair}]
      BY <2>1 DEF pair
    <2>6. /\ recorder' \in [pending : SUBSET Pair, counts : Counts]
          /\ recorder'.pending = recorder.pending \cup {pair}
          /\ recorder'.counts = recorder.counts
      BY <2>4, <2>5 DEF Typed, TypeOK
    <2>7. IsFiniteSet(recorder'.pending)
      BY <2>6, FS_AddElement DEF Typed
    <2>8. request' \in [candidates : SUBSET Rows, accepted : Rows \cup {None}, policy : Policies]
      BY <2>1 DEF Typed, TypeOK
    <2>9. verdicts' \subseteq Rows \X Rows
      <3>1. <<Row, c>> \in Rows \X Rows
        BY <2>2
      <3>2. verdicts \subseteq Rows \X Rows
        BY DEF Typed, TypeOK
      <3> QED BY <2>1, <3>1, <3>2
    <2>10. TypeOK'
      BY <1>1, <2>1, <2>6, <2>8, <2>9 DEF Typed, TypeOK
    <2>11. Stream' = Stream
      BY <2>1 DEF Stream
    <2> QED BY <2>1, <2>6, <2>7, <2>10, <2>11 DEF Typed, Underway, Serves
  <1>4. ASSUME NEW c \in request.candidates, JudgeFails(c), Still
        PROVE  Typed'
    <2>1. /\ at = "judge" /\ idx' = idx /\ at' = at /\ phase' = phase /\ options' = options
          /\ request' = [request EXCEPT !.candidates = @ \ {c}]
          /\ rows' = rows /\ verdicts' = verdicts /\ policy' = policy /\ learning' = learning
          /\ recorder' = recorder /\ session' = session /\ audit' = audit
          /\ attempts' = attempts /\ probe' = probe
      BY <1>4 DEF JudgeFails, Still, diagnosis, measuring
    <2>2. request' \in [candidates : SUBSET Rows, accepted : Rows \cup {None}, policy : Policies]
      BY <2>1 DEF Typed, TypeOK
    <2>3. TypeOK'
      BY <1>1, <2>1, <2>2 DEF Typed, TypeOK
    <2>4. Stream' = Stream
      BY <2>1 DEF Stream
    <2> QED BY <2>1, <2>3, <2>4 DEF Typed, Underway, Serves
  <1>5. ASSUME NEW jobs \in SUBSET Jobs, Answers(jobs)
        PROVE  Typed'
    <2>1. /\ at = "judge" /\ request.candidates = {} /\ at' = "handled"
          /\ learning' = [learning EXCEPT !.jobs = @ \cup jobs]
          /\ rows' = IF request.accepted = None \/ options.shared_cache
                     THEN rows \cup {Row} ELSE rows
          /\ idx' = idx /\ phase' = phase /\ options' = options /\ request' = request
          /\ verdicts' = verdicts /\ policy' = policy
          /\ recorder' = recorder /\ session' = session /\ audit' = audit
          /\ attempts' = attempts /\ probe' = probe
      BY <1>5 DEF Answers, Return, diagnosis, measuring
    <2>2. Row \in Rows
      BY <2>1, RowType DEF Underway
    <2>3. rows' \subseteq Rows
      BY <2>1, <2>2 DEF Typed, TypeOK
    <2>4. learning' \in [auto : BOOLEAN, jobs : SUBSET Jobs]
      BY <2>1 DEF Typed, TypeOK
    <2>5. TypeOK'
      BY <1>1, <2>1, <2>3, <2>4 DEF Typed, TypeOK
    <2>6. Stream' = Stream
      BY <2>1 DEF Stream
    <2> QED BY <2>1, <2>5, <2>6 DEF Typed, Underway, Serves
  <1>6. ASSUME NEW job \in Jobs, LearnsOne(job)
        PROVE  Typed'
    <2>1. /\ job \in learning.jobs
          /\ learning' = [learning EXCEPT !.jobs = @ \ {job}]
          /\ \/ policy' = policy
             \/ /\ policy.version < MaxVersion
                /\ policy' = [version |-> policy.version + 1, finite |-> TRUE,
                              fitted |-> policy.fitted \/ job = "refit"]
          /\ idx' = idx /\ at' = at /\ phase' = phase /\ options' = options /\ request' = request
          /\ rows' = rows /\ verdicts' = verdicts
          /\ recorder' = recorder /\ session' = session /\ audit' = audit
          /\ attempts' = attempts /\ probe' = probe
      BY <1>6 DEF LearnsOne, Activate, Reject, Still, diagnosis, measuring, serving
    <2>2. learning' \in [auto : BOOLEAN, jobs : SUBSET Jobs]
      BY <2>1 DEF Typed, TypeOK
    <2>3. policy' \in Policies
      <3>1. CASE policy' = policy
        BY <3>1 DEF Typed, TypeOK
      <3>2. CASE /\ policy.version < MaxVersion
                 /\ policy' = [version |-> policy.version + 1, finite |-> TRUE,
                               fitted |-> policy.fitted \/ job = "refit"]
        <4>1. policy.version + 1 \in 0..MaxVersion
          BY <3>2, Constants DEF Typed, TypeOK, Policies
        <4>2. (policy.fitted \/ job = "refit") \in BOOLEAN
          OBVIOUS
        <4> QED BY <3>2, <4>1, <4>2 DEF Policies
      <3> QED BY <2>1, <3>1, <3>2
    <2>4. TypeOK'
      BY <1>1, <2>1, <2>2, <2>3 DEF Typed, TypeOK
    <2>5. Stream' = Stream
      BY <2>1 DEF Stream
    <2> QED BY <2>1, <2>4, <2>5 DEF Typed, Underway, Serves
  <1>7. ASSUME at = "handled", recorder' = Resolved, request' = NoRequest,
               session' \in [start : Nat \cup {None}, baseline : Counts],
               audit' \in [all : AuditCounts, post : AuditCounts],
               at' = "next" \/ (at' = "check" /\ phase = "measured"),
               UNCHANGED <<options, phase, idx, rows, verdicts, policy, learning, attempts>>,
               probe'.candidates \subseteq Rows, probe'.made \in BOOLEAN
        PROVE  Typed'
    <2>1. TypeOK'
      BY <1>1, <1>7, ResolvedType, ColdType DEF Typed, TypeOK
    <2>2. IsFiniteSet(recorder'.pending)
      BY <1>7, ResolvedType
    <2>3. phase # "refit"
      BY <1>7 DEF Typed, Serves
    <2> QED BY <1>7, <2>1, <2>2, <2>3 DEF Typed, Underway, Serves
  <1>8. CASE Resolves
    <2>1. /\ at = "handled" /\ recorder' = Resolved /\ request' = NoRequest
          /\ at' = "next" \/ (at' = "check" /\ phase = "measured")
          /\ UNCHANGED <<options, phase, idx, rows, verdicts, policy, learning, attempts, probe>>
          /\ \/ session' = session /\ audit' = audit
             \/ session' = Session(Resolved.counts) /\ audit' = Audited(Session(Resolved.counts))
      BY <1>8 DEF Resolves, Account, Still, diagnosis
    <2>2. session' \in [start : Nat \cup {None}, baseline : Counts]
          /\ audit' \in [all : AuditCounts, post : AuditCounts]
      BY <2>1, AuditType DEF Typed, TypeOK
    <2>3. probe'.candidates \subseteq Rows /\ probe'.made \in BOOLEAN
      BY <2>1 DEF Typed
    <2> QED BY <1>7, <2>1, <2>2, <2>3
  <1>9. ASSUME NEW forced \in BOOLEAN, Diagnose(forced)
        PROVE  Typed'
    <2>1. /\ at = "handled" /\ recorder' = Resolved /\ request' = NoRequest
          /\ at' = "next" \/ (at' = "check" /\ phase = "measured")
          /\ UNCHANGED <<options, phase, idx, rows, verdicts, policy, learning, attempts>>
          /\ session' = session /\ audit' = audit /\ probe' = NoProbe
      BY <1>9 DEF Diagnose, Probes
    <2>2. session' \in [start : Nat \cup {None}, baseline : Counts]
          /\ audit' \in [all : AuditCounts, post : AuditCounts]
      BY <2>1 DEF Typed, TypeOK
    <2>3. probe'.candidates \subseteq Rows /\ probe'.made \in BOOLEAN
      BY <2>1, ColdType
    <2> QED BY <1>7, <2>1, <2>2, <2>3
  <1>10. CASE CompareAccount /\ Compares
    <2>0. phase = "measured" \/ phase = "warmup"
      BY <1>10 DEF CompareAccount, Typed, Serves
    <2>1. phase = "measured"
      BY <1>10, <2>0, OptionFacts DEF Typed, TypeOK
    <2>2. /\ at = "handled" /\ recorder' = Resolved /\ request' = NoRequest
          /\ at' = "next" \/ (at' = "check" /\ phase = "measured")
          /\ UNCHANGED <<options, phase, idx, rows, verdicts, policy, learning, attempts>>
          /\ session' = session /\ audit' = audit /\ probe' = probe
      BY <1>10, <2>1 DEF CompareAccount, diagnosis
    <2>3. session' \in [start : Nat \cup {None}, baseline : Counts]
          /\ audit' \in [all : AuditCounts, post : AuditCounts]
      BY <2>2 DEF Typed, TypeOK
    <2>4. probe'.candidates \subseteq Rows /\ probe'.made \in BOOLEAN
      BY <2>2 DEF Typed
    <2> QED BY <1>7, <2>2, <2>3, <2>4
  <1>11. ASSUME at = "check", at' = "next", learning' \in [auto : BOOLEAN, jobs : SUBSET Jobs],
                UNCHANGED <<options, phase, idx, request, rows, verdicts, policy, recorder,
                            session, audit, attempts, probe>>
         PROVE  Typed'
    <2>1. TypeOK'
      BY <1>1, <1>11 DEF Typed, TypeOK
    <2>2. phase # "refit"
      BY <1>11 DEF Typed, Serves
    <2> QED BY <1>11, <2>1, <2>2 DEF Typed, Underway
  <1>12. CASE SkipCheck /\ Still
    <2>1. learning' \in [auto : BOOLEAN, jobs : SUBSET Jobs]
      BY <1>12 DEF SkipCheck, Typed, TypeOK
    <2> QED BY <1>11, <1>12, <2>1 DEF SkipCheck, Still, diagnosis, measuring
  <1>13. ASSUME NEW rate \in Rates, NEW enough \in BOOLEAN, CheckStopping(rate, enough), Still
         PROVE  Typed'
    <2>1. frozen' \in BOOLEAN /\ learning' = [learning EXCEPT !.auto = @ /\ ~frozen']
      BY <1>1, <1>13 DEF CheckStopping
    <2>2. learning' \in [auto : BOOLEAN, jobs : SUBSET Jobs]
      BY <2>1 DEF Typed, TypeOK
    <2>3. /\ at = "check" /\ at' = "next"
          /\ UNCHANGED <<options, phase, idx, request, rows, verdicts, policy, recorder,
                         session, audit, attempts, probe>>
      BY <1>13 DEF CheckStopping, Still, diagnosis, measuring
    <2> QED BY <1>11, <2>2, <2>3
  <1>14. CASE Turns
    <2>1. /\ UNCHANGED <<options, idx, at, request, rows, verdicts, policy, learning, recorder,
                         session, audit, attempts, probe>>
          /\ \/ phase = "warmup" /\ at = "next" /\ phase' = "refit"
             \/ phase = "refit" /\ phase' = "failed"
             \/ phase = "measured" /\ at = "next" /\ phase' = "done"
      BY <1>14 DEF Turns, Still, diagnosis, measuring, serving
    <2>2. at = "next"
      BY <2>1 DEF Typed, Serves
    <2>3. TypeOK'
      BY <1>1, <2>1 DEF Typed, TypeOK
    <2> QED BY <2>1, <2>2, <2>3 DEF Typed, Underway
  <1>15. CASE ForceRefit /\ Still
    <2>1. /\ learning' = [learning EXCEPT !.jobs = @ \cup {"refit"}]
          /\ attempts' = attempts + 1 /\ attempts < MaxAttempts
          /\ UNCHANGED <<options, phase, idx, at, request, rows, verdicts, policy, recorder,
                         session, audit, probe>>
      BY <1>15 DEF ForceRefit, Still, diagnosis, measuring, serving
    <2>2. learning' \in [auto : BOOLEAN, jobs : SUBSET Jobs]
      BY <2>1 DEF Typed, TypeOK, Jobs
    <2>3. attempts' \in 0..MaxAttempts
      BY <2>1, Constants DEF Typed, TypeOK
    <2>4. TypeOK'
      BY <1>1, <2>1, <2>2, <2>3 DEF Typed, TypeOK
    <2>5. Stream' = Stream
      BY <2>1 DEF Stream
    <2> QED BY <2>1, <2>4, <2>5 DEF Typed, Underway, Serves
  <1>16. ASSUME NEW jobs \in SUBSET Jobs, Enters(jobs)
         PROVE  Typed'
    <2>1. /\ phase = "refit" /\ phase' = "measured" /\ idx' = 0
          /\ recorder' = IF options.warmup = <<>> THEN recorder ELSE ResetRecorder
          /\ learning' = [auto |-> learning.auto /\ ~options.freeze_after_warmup,
                          jobs |-> learning.jobs \cup jobs]
          /\ session' = session \/ session' = [start |-> 1, baseline |-> NoCounts]
          /\ UNCHANGED <<options, at, request, rows, verdicts, policy, audit, attempts, probe>>
      BY <1>16 DEF Enters, EnterMeasured, Still, diagnosis
    <2>2. at = "next"
      BY <2>1 DEF Typed, Serves
    <2>3. recorder' \in [pending : SUBSET Pair, counts : Counts] /\ IsFiniteSet(recorder'.pending)
      BY <2>1, ColdType, FS_EmptySet DEF Typed, TypeOK, ResetRecorder
    <2>4. learning' \in [auto : BOOLEAN, jobs : SUBSET Jobs]
      <3>1. (learning.auto /\ ~options.freeze_after_warmup) \in BOOLEAN
        OBVIOUS
      <3> QED BY <2>1, <3>1 DEF Typed, TypeOK
    <2>5. session' \in [start : Nat \cup {None}, baseline : Counts]
      BY <2>1, ColdType DEF Typed, TypeOK
    <2>6. TypeOK'
      BY <1>1, <2>1, <2>3, <2>4, <2>5 DEF Typed, TypeOK
    <2> QED BY <2>1, <2>2, <2>3, <2>6 DEF Typed, Underway
  <1>17. CASE EndOfLoop /\ Compares
    <2>1. /\ phase = "measured" /\ at = "next" /\ at' = "check"
          /\ UNCHANGED <<options, phase, idx, request, rows, verdicts, policy, learning, recorder,
                         session, audit, attempts, probe>>
      BY <1>17 DEF EndOfLoop, diagnosis, measuring
    <2>2. TypeOK'
      BY <1>1, <2>1 DEF Typed, TypeOK
    <2> QED BY <2>1, <2>2 DEF Typed, Underway, Serves
  <1>18. ASSUME NEW candidates \in SUBSET Rows, NEW top1 \in candidates \cup {None},
                NEW accepted \in SUBSET candidates, Probe(candidates, top1, accepted)
         PROVE  Typed'
    <2>1. /\ probe'.made = TRUE /\ probe'.candidates = candidates
          /\ UNCHANGED <<options, phase, idx, at, request, rows, verdicts, policy, learning,
                         recorder, session, audit, attempts>>
      BY <1>18 DEF Probe, vars
    <2>2. TypeOK'
      BY <1>1, <2>1 DEF Typed, TypeOK
    <2>3. Stream' = Stream
      BY <2>1 DEF Stream
    <2> QED BY <2>1, <2>2, <2>3 DEF Typed, Underway, Serves
  <1>19. CASE UNCHANGED <<vars, diagnosis, lifecycle>>
    <2>1. UNCHANGED <<options, phase, idx, at, request, rows, verdicts, policy, learning,
                      recorder, session, audit, attempts, probe>>
      BY <1>19 DEF vars, diagnosis
    <2>2. TypeOK'
      BY <1>1, <2>1 DEF Typed, TypeOK
    <2>3. Stream' = Stream
      BY <2>1 DEF Stream
    <2> QED BY <2>1, <2>2, <2>3 DEF Typed, Underway, Serves
  <1> QED BY <1>2, <1>3, <1>4, <1>5, <1>6, <1>8, <1>9, <1>10, <1>12, <1>13, <1>14, <1>15,
             <1>16, <1>17, <1>18, <1>19 DEF AnyStep

LEMMA StoppingInit == ComparedInit => StoppingInv
  <1> SUFFICES ASSUME ComparedInit PROVE StoppingInv
    OBVIOUS
  <1>1. stopping = [controller |-> NewController, updates |-> 0] /\ frozen = FALSE
    BY DEF ComparedInit, DiagnosedInit, Init
  <1>2. NewController \in [history : Seq([threshold : Nat, rate : Rates]), checks : Nat,
                           stopped : BOOLEAN]
        /\ ~NewController.stopped /\ NewController.checks = 0 /\ NewController.history = <<>>
    BY DEF NewController
  <1>3. Len(NewController.history) = 0
    BY <1>2
  <1>4. Converging(NewController)
    <2> HIDE DEF NewController
    <2>1. ~(NewController.checks > 0)
      BY <1>2
    <2> QED BY <1>2, <2>1 DEF Converging, Controllers, Observations
  <1> HIDE DEF NewController
  <1>5. stopping.controller = NewController /\ stopping.updates = 0
    BY <1>1
  <1> QED BY <1>1, <1>2, <1>3, <1>4, <1>5, StoppingIs

(***************************************************************************)
(* What each step does to a request, its pairs and its accounts            *)
(***************************************************************************)

Idle ==
  /\ \/ at' = at
     \/ at = "check" /\ at' = "next"
     \/ at = "next" /\ at' = "check" /\ Compares
  /\ UNCHANGED <<options, phase, idx, request, rows, verdicts, policy, recorder, session, audit,
                 probe, records, tracker, marks, trace>>

Ask(candidates, accepted) ==
  /\ Serves /\ at = "next" /\ at' = "judge" /\ idx' = idx + 1
  /\ accepted # None => policy.finite
  /\ Probes => probe.made
  /\ Compares /\ idx >= options.main => NeedsMore
  /\ request' = [candidates |-> candidates \ {Stream[idx + 1]}, accepted |-> accepted,
                 policy |-> policy]
  /\ UNCHANGED <<options, phase, rows, verdicts, policy, recorder, session, audit, probe,
                 records, tracker, marks, trace>>

\* The judge answers, and the judge fails.
Hears(c) ==
  /\ at = "judge" /\ c \in request.candidates
  /\ verdicts' = IF options.judge_cache THEN verdicts \cup {<<Row, c>>} ELSE verdicts
  /\ recorder'.pending = recorder.pending \cup
        {[index |-> idx, key |-> c, label |-> Verdict[Row, c]]}
  /\ recorder'.counts = recorder.counts
  /\ request'.candidates = request.candidates \ {c}
  /\ request'.accepted = request.accepted /\ request'.policy = request.policy
  /\ UNCHANGED <<options, phase, idx, at, rows, policy, session, audit, probe, records,
                 tracker, marks, trace>>

Drops(c) ==
  /\ at = "judge" /\ c \in request.candidates
  /\ <<Row, c>> \notin verdicts
  /\ request'.candidates = request.candidates \ {c}
  /\ request'.accepted = request.accepted /\ request'.policy = request.policy
  /\ UNCHANGED <<options, phase, idx, at, rows, verdicts, policy, recorder, session, audit,
                 probe, records, tracker, marks, trace>>

Answer ==
  /\ at = "judge" /\ request.candidates = {} /\ at' = "handled"
  /\ rows' = IF request.accepted = None \/ options.shared_cache THEN rows \cup {Row} ELSE rows
  /\ marks' = IF Compares THEN [marks EXCEPT !.response = policy] ELSE marks
  /\ UNCHANGED <<options, phase, idx, request, verdicts, policy, recorder, session, audit,
                 probe, records, tracker, trace>>

Learn ==
  /\ policy'.finite = TRUE
  /\ policy.fitted => policy'.fitted
  /\ UNCHANGED <<options, phase, idx, at, request, rows, verdicts, recorder, session, audit,
                 probe, records, tracker, marks, trace>>

Book ==
  /\ at = "handled" /\ at' \in {"next", "check"}
  /\ recorder' = Resolved /\ request' = NoRequest
  /\ UNCHANGED <<options, phase, idx, rows, verdicts, policy>>

BookPlain ==
  /\ Book /\ ~Probes /\ ~Compares
  /\ IF phase = "measured"
     THEN /\ session' = Session(Resolved.counts)
          /\ audit' = Audited(Session(Resolved.counts))
     ELSE UNCHANGED <<session, audit>>
  /\ UNCHANGED <<probe, records, tracker, marks, trace>>

BookDiagnosed(forced) ==
  /\ Book /\ Probes /\ ~Compares
  /\ records' = Append(records, AnchorRecord(forced))
  /\ probe' = NoProbe
  /\ UNCHANGED <<session, audit, tracker, marks, trace>>

BookCompared ==
  /\ Book /\ Compares
  /\ LET first_hit == IF marks.hit = 0 /\ Hit THEN idx ELSE marks.hit
     IN  /\ marks' = [marks EXCEPT
               !.hit = first_hit,
               !.calibrated = IF @ = 0 /\ Calibrated(marks.response) THEN idx ELSE @]
         /\ tracker' = [seen |-> TRUE, prev |-> Flags(policy),
                        events |-> tracker.events \cup
                           Emitted(Flags(policy), Judged(Resolved.counts), first_hit # 0)]
  /\ trace' = Append(trace, [source |-> IF Hit THEN "cache" ELSE "llm",
                             calibrated |-> Calibrated(marks.response)])
  /\ UNCHANGED <<session, audit, probe, records>>

Turn ==
  /\ at = "next"
  /\ \/ phase = "warmup" /\ phase' = "refit"
     \/ phase = "refit" /\ phase' = "failed"
     \/ phase = "measured" /\ phase' = "done"
  /\ UNCHANGED <<options, idx, at, request, rows, verdicts, policy, recorder, session, audit,
                 probe, records, tracker, marks, trace>>

Enter ==
  /\ at = "next" /\ phase = "refit" /\ phase' = "measured" /\ idx' = 0
  /\ recorder' = IF options.warmup = <<>> THEN recorder ELSE ResetRecorder
  /\ session' = IF ~options.anchors /\ ~Compares /\ Active(policy)
                THEN [start |-> 1, baseline |-> NoCounts] ELSE session
  /\ UNCHANGED <<options, at, request, rows, verdicts, policy, audit, probe, records, tracker,
                 marks, trace>>

Look ==
  /\ Probes /\ at = "next"
  /\ probe'.made = TRUE
  /\ probe'.available <=> Gold[Stream[idx + 1]] \in rows
  /\ UNCHANGED <<options, phase, idx, at, request, rows, verdicts, policy, recorder, session,
                 audit, records, tracker, marks, trace>>

Effect ==
  \/ Idle
  \/ \E candidates \in SUBSET Rows : \E accepted \in candidates \cup {None} :
        Ask(candidates, accepted)
  \/ \E c \in request.candidates : Hears(c)
  \/ \E c \in request.candidates : Drops(c)
  \/ Answer
  \/ Learn
  \/ BookPlain
  \/ \E forced \in BOOLEAN : BookDiagnosed(forced)
  \/ BookCompared
  \/ Turn
  \/ Enter
  \/ Look

LEMMA Effects == Typed /\ AnyStep => Effect
  <1> SUFFICES ASSUME Typed, AnyStep PROVE Effect
    OBVIOUS
  <1>1. ASSUME NEW candidates \in SUBSET Rows, NEW accepted \in candidates \cup {None},
               Asks(candidates, accepted)
        PROVE  Effect
    <2>1. Ask(candidates, accepted)
      BY <1>1 DEF Asks, Ask, Decide, Still, diagnosis, lifecycle, measuring, Calibrated
    <2> QED BY <2>1 DEF Effect
  <1>2. ASSUME NEW c \in request.candidates, JudgeCandidate(c), Still
        PROVE  Effect
    <2>1. /\ recorder' = [recorder EXCEPT !.pending =
                @ \cup {[index |-> idx, key |-> c, label |-> Verdict[Row, c]]}]
          /\ request' = [request EXCEPT !.candidates = @ \ {c}]
      BY <1>2 DEF JudgeCandidate
    <2>2. recorder \in [pending : SUBSET Pair, counts : Counts]
          /\ request \in [candidates : SUBSET Rows, accepted : Rows \cup {None}, policy : Policies]
      BY DEF Typed, TypeOK
    <2>3. /\ recorder'.pending = recorder.pending \cup
               {[index |-> idx, key |-> c, label |-> Verdict[Row, c]]}
          /\ recorder'.counts = recorder.counts
      BY <2>1, <2>2
    <2>4. /\ request'.candidates = request.candidates \ {c}
          /\ request'.accepted = request.accepted /\ request'.policy = request.policy
      BY <2>1, <2>2
    <2>5. Hears(c)
      BY <1>2, <2>3, <2>4 DEF JudgeCandidate, Hears, Still, diagnosis, lifecycle
    <2> QED BY <2>5 DEF Effect
  <1>3. ASSUME NEW c \in request.candidates, JudgeFails(c), Still
        PROVE  Effect
    <2>1. request' = [request EXCEPT !.candidates = @ \ {c}]
      BY <1>3 DEF JudgeFails
    <2>2. request \in [candidates : SUBSET Rows, accepted : Rows \cup {None}, policy : Policies]
      BY DEF Typed, TypeOK
    <2>3. /\ request'.candidates = request.candidates \ {c}
          /\ request'.accepted = request.accepted /\ request'.policy = request.policy
      BY <2>1, <2>2
    <2>4. Drops(c)
      BY <1>3, <2>3 DEF JudgeFails, Drops, Still, diagnosis, lifecycle, measuring
    <2> QED BY <2>4 DEF Effect
  <1>4. ASSUME NEW jobs \in SUBSET Jobs, Answers(jobs)
        PROVE  Effect
    <2>1. Answer
      BY <1>4 DEF Answers, Return, Answer, diagnosis, measuring
    <2> QED BY <2>1 DEF Effect
  <1>5. ASSUME NEW job \in Jobs, LearnsOne(job)
        PROVE  Effect
    <2>1. CASE Activate(job)
      <3>1. policy' = [version |-> policy.version + 1, finite |-> TRUE,
                       fitted |-> policy.fitted \/ job = "refit"]
        BY <2>1 DEF Activate
      <3>2. policy'.finite = TRUE /\ (policy.fitted => policy'.fitted)
        BY <3>1
      <3>3. Learn
        BY <1>5, <2>1, <3>2 DEF LearnsOne, Activate, Learn, Still, diagnosis, lifecycle,
           measuring, serving
      <3> QED BY <3>3 DEF Effect
    <2>2. CASE Reject(job)
      <3>1. Idle
        BY <1>5, <2>2 DEF LearnsOne, Reject, Idle, Still, diagnosis, lifecycle, measuring, serving
      <3> QED BY <3>1 DEF Effect
    <2> QED BY <1>5, <2>1, <2>2 DEF LearnsOne
  <1>6. CASE Resolves
    <2>1. BookPlain
      BY <1>6 DEF Resolves, Account, BookPlain, Book, Still, diagnosis, lifecycle
    <2> QED BY <2>1 DEF Effect
  <1>7. ASSUME NEW forced \in BOOLEAN, Diagnose(forced), ~Compares, UNCHANGED lifecycle
        PROVE  Effect
    <2>1. BookDiagnosed(forced)
      BY <1>7 DEF Diagnose, BookDiagnosed, Book, lifecycle
    <2> QED BY <2>1 DEF Effect
  <1>8. CASE CompareAccount /\ Compares
    <2>1. BookCompared
      BY <1>8 DEF CompareAccount, BookCompared, Book, CurrentPolicy, diagnosis
    <2> QED BY <2>1 DEF Effect
  <1>9. CASE SkipCheck /\ Still
    <2>1. Idle
      BY <1>9 DEF SkipCheck, Idle, Still, diagnosis, lifecycle, measuring
    <2> QED BY <2>1 DEF Effect
  <1>10. ASSUME NEW rate \in Rates, NEW enough \in BOOLEAN, CheckStopping(rate, enough), Still
         PROVE  Effect
    <2>1. Idle
      BY <1>10 DEF CheckStopping, Idle, Still, diagnosis, lifecycle, measuring
    <2> QED BY <2>1 DEF Effect
  <1>11. CASE Turns
    <2>1. at = "next"
      BY <1>11 DEF Turns, Typed, Serves
    <2>2. Turn
      BY <1>11, <2>1 DEF Turns, Turn, Still, diagnosis, lifecycle, measuring, serving
    <2> QED BY <2>2 DEF Effect
  <1>12. CASE ForceRefit /\ Still
    <2>1. Idle
      BY <1>12 DEF ForceRefit, Idle, Still, diagnosis, lifecycle, measuring, serving
    <2> QED BY <2>1 DEF Effect
  <1>13. ASSUME NEW jobs \in SUBSET Jobs, Enters(jobs)
         PROVE  Effect
    <2>1. at = "next"
      BY <1>13 DEF Enters, EnterMeasured, Typed, Serves
    <2>2. Enter
      BY <1>13, <2>1 DEF Enters, EnterMeasured, Enter, Still, diagnosis, lifecycle
    <2> QED BY <2>2 DEF Effect
  <1>14. CASE EndOfLoop /\ Compares
    <2>1. Idle
      BY <1>14 DEF EndOfLoop, Idle, diagnosis, measuring
    <2> QED BY <2>1 DEF Effect
  <1>15. ASSUME NEW candidates \in SUBSET Rows, NEW top1 \in candidates \cup {None},
                NEW accepted \in SUBSET candidates, Probe(candidates, top1, accepted),
                UNCHANGED lifecycle
         PROVE  Effect
    <2>1. probe'.made = TRUE /\ (probe'.available <=> Gold[Stream[idx + 1]] \in rows)
      BY <1>15 DEF Probe, Cached
    <2>2. Look
      BY <1>15, <2>1 DEF Probe, Look, vars, lifecycle
    <2> QED BY <2>2 DEF Effect
  <1>16. CASE UNCHANGED <<vars, diagnosis, lifecycle>>
    <2>1. Idle
      BY <1>16 DEF Idle, vars, diagnosis, lifecycle
    <2> QED BY <2>1 DEF Effect
  <1> QED BY <1>1, <1>2, <1>3, <1>4, <1>5, <1>6, <1>7, <1>8, <1>9, <1>10, <1>11, <1>12, <1>13,
             <1>14, <1>15, <1>16 DEF AnyStep

(***************************************************************************)
(* The policy of a decision                                                *)
(***************************************************************************)

LEMMA PolicyStep == Typed /\ PolicyInv /\ Effect => PolicyInv'
  <1> SUFFICES ASSUME Typed, PolicyInv, Effect PROVE PolicyInv'
    OBVIOUS
  <1> USE DEF Active, Trained, Timed, Calibrated
  <1>0. policy.finite \in BOOLEAN /\ policy.fitted \in BOOLEAN
    BY DEF Typed, TypeOK, Policies
  <1>1. CASE Idle
    BY <1>1 DEF PolicyInv, Idle, Underway
  <1>2. ASSUME NEW candidates \in SUBSET Rows, NEW accepted \in candidates \cup {None},
               Ask(candidates, accepted)
        PROVE  PolicyInv'
    <2>1. request'.policy = policy /\ request'.accepted = accepted
      BY <1>2 DEF Ask
    <2> QED BY <1>2, <2>1 DEF PolicyInv, Ask, Underway
  <1>3. ASSUME NEW c \in request.candidates, Hears(c) \/ Drops(c)
        PROVE  PolicyInv'
    BY <1>3 DEF PolicyInv, Hears, Drops, Underway
  <1>4. CASE Answer
    BY <1>4 DEF PolicyInv, Answer, Underway
  <1>5. CASE Learn
    BY <1>0, <1>5 DEF PolicyInv, Learn, Underway
  <1>6. CASE BookPlain
    <2>1. /\ ~Underway' /\ policy' = policy /\ options' = options
          /\ session' = session \/ session' = Session(Resolved.counts)
      BY <1>6 DEF BookPlain, Book, Underway
    <2>2. session'.start # None => Active(policy)
      BY <2>1 DEF PolicyInv, Session
    <2> QED BY <2>1, <2>2 DEF PolicyInv
  <1>7. ASSUME NEW forced \in BOOLEAN, BookDiagnosed(forced)
        PROVE  PolicyInv'
    BY <1>7 DEF PolicyInv, BookDiagnosed, Book, Underway
  <1>8. CASE BookCompared
    BY <1>8 DEF PolicyInv, BookCompared, Book, Underway
  <1>9. CASE Turn
    BY <1>9 DEF PolicyInv, Turn, Underway
  <1>10. CASE Enter
    <2>1. ~Underway' /\ policy' = policy /\ options' = options
      BY <1>10 DEF Enter, Underway
    <2>2. session'.start # None => Active(policy)
      BY <1>10 DEF PolicyInv, Enter
    <2> QED BY <2>1, <2>2 DEF PolicyInv
  <1>11. CASE Look
    BY <1>11 DEF PolicyInv, Look, Underway
  <1> QED BY <1>1, <1>2, <1>3, <1>4, <1>5, <1>6, <1>7, <1>8, <1>9, <1>10, <1>11 DEF Effect

(***************************************************************************)
(* The pairs of a request, and what the two accounts make of them          *)
(***************************************************************************)

LEMMA PairsStep == Typed /\ PairsInv /\ Effect => PairsInv'
  <1> SUFFICES ASSUME Typed, PairsInv, Effect PROVE PairsInv'
    OBVIOUS
  <1>1. CASE Idle
    <2>1. Row' = Row
      BY <1>1 DEF Idle, Row, Stream
    <2>2. Underway' <=> Underway
      BY <1>1 DEF Idle, Underway
    <2> QED BY <1>1, <2>1, <2>2 DEF PairsInv, Idle
  <1>2. ASSUME NEW candidates \in SUBSET Rows, NEW accepted \in candidates \cup {None},
               Ask(candidates, accepted)
        PROVE  PairsInv'
    <2>1. Row' = Stream[idx + 1]
      BY <1>2 DEF Ask, Row, Stream
    <2>2. /\ request'.candidates = candidates \ {Row'} /\ request'.accepted = accepted
          /\ Underway' /\ ~Underway /\ verdicts' = verdicts /\ recorder' = recorder
      BY <1>2, <2>1 DEF Ask, Underway
    <2>3. recorder'.pending = {}
      BY <2>2 DEF PairsInv
    <2>4. \A row \in Rows : <<row, row>> \notin verdicts'
      BY <2>2 DEF PairsInv
    <2>5. accepted # None /\ accepted \notin request'.candidates => <<Row', accepted>> \notin verdicts'
      <3>1. accepted # None /\ accepted \notin request'.candidates =>
              accepted \in Rows /\ accepted = Row'
        BY <2>2
      <3> QED BY <2>4, <3>1
    <2> QED BY <2>2, <2>3, <2>4, <2>5 DEF PairsInv
  <1>3. ASSUME NEW c \in request.candidates, Hears(c) \/ Drops(c)
        PROVE  PairsInv'
    <2>1. /\ Row' = Row /\ Underway /\ Underway' /\ idx' = idx /\ options' = options
          /\ request'.candidates = request.candidates \ {c}
          /\ request'.accepted = request.accepted
      BY <1>3 DEF Hears, Drops, Row, Stream, Underway
    <2>2. c # Row /\ c \in Rows /\ Row \in Rows
      BY <2>1, RowType DEF PairsInv, Typed, TypeOK
    <2> DEFINE pair == [index |-> idx, key |-> c, label |-> Verdict[Row, c]]
    <2>3. pair.index = idx /\ pair.key = c /\ pair.label = Verdict[Row, c]
      OBVIOUS
    <2> HIDE DEF pair
    <2>4. \/ /\ recorder'.pending = recorder.pending \cup {pair}
             /\ verdicts' = IF options.judge_cache THEN verdicts \cup {<<Row, c>>} ELSE verdicts
          \/ recorder' = recorder /\ verdicts' = verdicts /\ <<Row, c>> \notin verdicts
      BY <1>3 DEF Hears, Drops, pair
    <2>5. Row' \notin request'.candidates
      BY <2>1 DEF PairsInv
    <2>6. \A p \in recorder'.pending :
             /\ p.index = idx /\ p.label = Verdict[Row, p.key]
             /\ p.key # Row /\ p.key \notin request'.candidates
             /\ options.judge_cache => <<Row, p.key>> \in verdicts'
      <3>1. \A p \in recorder.pending :
               /\ p.index = idx /\ p.label = Verdict[Row, p.key]
               /\ p.key # Row /\ p.key \notin request'.candidates
               /\ options.judge_cache => <<Row, p.key>> \in verdicts
        BY <2>1 DEF PairsInv
      <3>2. recorder'.pending = recorder.pending \cup {pair} =>
              /\ pair.key # Row /\ pair.key \notin request'.candidates
        BY <2>1, <2>2, <2>3
      <3> QED BY <2>3, <2>4, <3>1, <3>2
    <2>7. \A row \in Rows : <<row, row>> \notin verdicts'
      <3>1. \A row \in Rows : <<row, row>> \notin verdicts
        BY DEF PairsInv
      <3>2. \A row \in Rows : <<row, row>> # <<Row, c>>
        BY <2>2
      <3> QED BY <2>4, <3>1, <3>2
    <2>8. ASSUME request.accepted # None, request.accepted \notin request'.candidates,
                 <<Row, request.accepted>> \in verdicts'
          PROVE  \E p \in recorder'.pending : p.key = request.accepted
      <3>1. CASE request.accepted = c
        <4>1. <<Row, c>> \in verdicts'
          BY <2>8, <3>1
        <4>2. pair \in recorder'.pending
          BY <2>4, <4>1
        <4> QED BY <2>3, <3>1, <4>2
      <3>2. CASE request.accepted # c
        <4>1. request.accepted \notin request.candidates /\ <<Row, request.accepted>> \in verdicts
          BY <2>1, <2>4, <2>8, <3>2
        <4>2. PICK p \in recorder.pending : p.key = request.accepted
          BY <2>1, <2>8, <4>1 DEF PairsInv
        <4> QED BY <2>4, <4>2
      <3> QED BY <3>1, <3>2
    <2> QED BY <2>1, <2>5, <2>6, <2>7, <2>8 DEF PairsInv
  <1>4. CASE Answer
    <2>1. Row' = Row
      BY <1>4 DEF Answer, Row, Stream
    <2>2. Underway' /\ Underway
      BY <1>4 DEF Answer, Underway
    <2> QED BY <1>4, <2>1, <2>2 DEF PairsInv, Answer
  <1>5. CASE Learn
    <2>1. Row' = Row /\ (Underway' <=> Underway)
      BY <1>5 DEF Learn, Row, Stream, Underway
    <2> QED BY <1>5, <2>1 DEF PairsInv, Learn
  <1>6. CASE Book
    <2>1. ~Underway' /\ Underway /\ recorder' = Resolved /\ verdicts' = verdicts
      BY <1>6 DEF Book, Underway
    <2>2. recorder'.pending = {}
      BY <2>1, ResolvedIs DEF PairsInv
    <2> QED BY <2>1, <2>2 DEF PairsInv
  <1>7. BookPlain \/ (\E forced \in BOOLEAN : BookDiagnosed(forced)) \/ BookCompared => Book
    BY DEF BookPlain, BookDiagnosed, BookCompared
  <1>8. CASE Turn
    BY <1>8 DEF PairsInv, Turn, Underway
  <1>9. CASE Enter
    <2>1. ~Underway' /\ ~Underway /\ verdicts' = verdicts
      BY <1>9 DEF Enter, Underway
    <2>2. recorder'.pending = {}
      BY <1>9, <2>1 DEF Enter, ResetRecorder, PairsInv
    <2> QED BY <2>1, <2>2 DEF PairsInv
  <1>10. CASE Look
    BY <1>10 DEF PairsInv, Look, Underway
  <1> QED BY <1>1, <1>2, <1>3, <1>4, <1>5, <1>6, <1>7, <1>8, <1>9, <1>10 DEF Effect

\* The pair of the accepted candidate, if the judge reported one, has the label
\* that the audit reads back.
LEMMA JoinedAccounts ==
  ASSUME Typed, PairsInv, at = "handled", options.judge_cache
  PROVE  /\ ReuseLabel \in Labels
         /\ Pairs("H1", TRUE) = IF Hit /\ ReuseLabel = "H1" THEN 1 ELSE 0
         /\ Pairs("H0", TRUE) = IF Hit /\ ReuseLabel = "H0" THEN 1 ELSE 0
         /\ Unjudged <=> Hit /\ ReuseLabel = "UNCERTAIN"
         /\ Hit => request.accepted \in Rows
         /\ Hit /\ request.accepted = Row => ReuseLabel = "UNCERTAIN"
  <1>1. Underway /\ Row \in Rows /\ request.candidates = {}
    BY RowType DEF Underway, Typed
  <1>2. request.accepted \in Rows \cup {None} /\ recorder.pending \subseteq Pair
    BY DEF Typed, TypeOK
  <1>3. ReuseLabel \in Labels
    <2>1. CASE <<Row, request.accepted>> \in verdicts
      <3>1. <<Row, request.accepted>> \in Rows \X Rows
        BY <2>1 DEF Typed, TypeOK
      <3> QED BY <2>1, <3>1, Constants DEF ReuseLabel
    <2>2. CASE <<Row, request.accepted>> \notin verdicts
      BY <2>2 DEF ReuseLabel, Labels
    <2> QED BY <2>1, <2>2
  <1>4. \A pair \in recorder.pending :
           /\ pair.index = idx /\ pair.label = Verdict[Row, pair.key]
           /\ pair.key \in Rows /\ pair.key # Row
           /\ <<Row, pair.key>> \in verdicts
           /\ pair = [index |-> pair.index, key |-> pair.key, label |-> pair.label]
    <2>1. \A pair \in Pair :
             /\ pair.key \in Rows
             /\ pair = [index |-> pair.index, key |-> pair.key, label |-> pair.label]
      BY DEF Pair
    <2>2. \A pair \in recorder.pending :
             /\ pair.index = idx /\ pair.label = Verdict[Row, pair.key]
             /\ pair.key # Row /\ <<Row, pair.key>> \in verdicts
      BY DEF PairsInv
    <2> QED BY <1>2, <2>1, <2>2
  <1>5. Hit => /\ request.accepted \in Rows
               /\ <<Row, request.accepted>> \in verdicts =>
                     \E pair \in recorder.pending : pair.key = request.accepted
    BY <1>1, <1>2 DEF PairsInv, Hit
  <1>6. ASSUME ~Hit \/ <<Row, request.accepted>> \notin verdicts
        PROVE  \A pair \in recorder.pending : pair.key # request.accepted
    BY <1>4, <1>6, Constants DEF Hit
  <1> DEFINE S(label) == {pair \in recorder.pending :
                            /\ pair.index = idx /\ pair.label = label
                            /\ TRUE <=> pair.key = request.accepted}
  <1>7. \A label : Pairs(label, TRUE) = Cardinality(S(label))
    BY DEF Pairs
  <1>8. CASE ~Hit \/ <<Row, request.accepted>> \notin verdicts
    <2>1. \A label : S(label) = {}
      BY <1>6, <1>8
    <2>2. \A label : Pairs(label, TRUE) = 0
      BY <1>7, <2>1, FS_EmptySet
    <2>3. Hit => ReuseLabel = "UNCERTAIN"
      BY <1>8 DEF ReuseLabel
    <2>4. Unjudged <=> Hit
      BY <1>6, <1>8 DEF Unjudged, Hit
    <2> QED BY <1>3, <1>5, <2>2, <2>3, <2>4
  <1>9. CASE Hit /\ <<Row, request.accepted>> \in verdicts
    <2>1. PICK pair \in recorder.pending : pair.key = request.accepted
      BY <1>5, <1>9
    <2>2. pair.index = idx /\ pair.label = ReuseLabel
      BY <1>4, <1>9, <2>1 DEF ReuseLabel
    <2>3. \A p \in recorder.pending : p.key = request.accepted => p = pair
      BY <1>4, <2>1
    <2>4. S(ReuseLabel) = {pair}
      BY <2>1, <2>2, <2>3
    <2>5. \A label : label # ReuseLabel => S(label) = {}
      BY <2>2, <2>3
    <2> HIDE DEF S
    <2>6. \A label : Pairs(label, TRUE) = IF ReuseLabel = label THEN 1 ELSE 0
      <3>1. Cardinality(S(ReuseLabel)) = 1
        BY <2>4, FS_Singleton
      <3>2. \A label : label # ReuseLabel => Cardinality(S(label)) = 0
        BY <2>5, FS_EmptySet
      <3> QED BY <1>7, <3>1, <3>2
    <2>7. Unjudged <=> ReuseLabel = "UNCERTAIN"
      BY <1>9, <2>1, <2>2, <2>3 DEF Unjudged, Hit
    <2>8. request.accepted # Row
      BY <1>4, <2>1
    <2> QED BY <1>3, <1>5, <1>9, <2>6, <2>7, <2>8
  <1> QED BY <1>8, <1>9

(***************************************************************************)
(* The audit and the recorder                                              *)
(***************************************************************************)

\* A hit adds to both accounts alike, and a miss to neither.
LEMMA AccountedAlike ==
  ASSUME Typed, PairsInv, at = "handled", options.judge_cache,
         NEW audited \in AuditCounts, NEW baseline \in Counts,
         Agrees(audited, recorder.counts, baseline)
  PROVE  Agrees(IF Hit THEN Count1(audited, ReuseLabel) ELSE audited, Resolved.counts, baseline)
  <1> DEFINE after == IF Hit THEN Count1(audited, ReuseLabel) ELSE audited
             counts == recorder.counts
             one(label) == IF Hit /\ ReuseLabel = label THEN 1 ELSE 0
  <1>1. /\ after.tp = audited.tp + one("H1")
        /\ after.fp = audited.fp + one("H0")
        /\ after.uncertain = audited.uncertain + one("UNCERTAIN")
    <2>1. audited.tp \in Nat /\ audited.fp \in Nat /\ audited.uncertain \in Nat
      BY DEF AuditCounts
    <2>2. CASE Hit
      BY <2>1, <2>2, Counted
    <2>3. CASE ~Hit
      BY <2>1, <2>3
    <2> QED BY <2>2, <2>3
  <1>2. /\ Resolved.counts.true_accepts = counts.true_accepts + one("H1")
        /\ Resolved.counts.false_accepts = counts.false_accepts + one("H0")
        /\ Resolved.counts.unjudged_accepts = counts.unjudged_accepts + one("UNCERTAIN")
    <2>1. /\ Pairs("H1", TRUE) = one("H1") /\ Pairs("H0", TRUE) = one("H0")
          /\ (IF Unjudged THEN 1 ELSE 0) = one("UNCERTAIN")
      BY JoinedAccounts
    <2>2. /\ Resolved.counts.true_accepts = counts.true_accepts + Pairs("H1", TRUE)
          /\ Resolved.counts.false_accepts = counts.false_accepts + Pairs("H0", TRUE)
          /\ Resolved.counts.unjudged_accepts = counts.unjudged_accepts
                                                  + (IF Unjudged THEN 1 ELSE 0)
      BY ResolvedIs
    <2> HIDE DEF one, counts
    <2> QED BY <2>1, <2>2
  <1>3. \A label : one(label) \in Nat
    OBVIOUS
  <1>4. /\ counts.true_accepts \in Nat /\ counts.false_accepts \in Nat
        /\ counts.unjudged_accepts \in Nat
        /\ baseline.true_accepts \in Nat /\ baseline.false_accepts \in Nat
        /\ baseline.unjudged_accepts \in Nat
    BY DEF Typed, TypeOK, Counts
  <1>5. /\ audited.tp = counts.true_accepts - baseline.true_accepts
        /\ audited.fp = counts.false_accepts - baseline.false_accepts
        /\ audited.uncertain = counts.unjudged_accepts - baseline.unjudged_accepts
    BY DEF Agrees
  <1> HIDE DEF after, counts, one
  <1>6. /\ after.tp = Resolved.counts.true_accepts - baseline.true_accepts
        /\ after.fp = Resolved.counts.false_accepts - baseline.false_accepts
        /\ after.uncertain = Resolved.counts.unjudged_accepts - baseline.unjudged_accepts
    BY <1>1, <1>2, <1>3, <1>4, <1>5
  <1> QED BY <1>6 DEF Agrees, after

LEMMA AgreesAtFirst ==
  ASSUME NEW counts \in Counts
  PROVE  Agrees(NoAudit, counts, counts)
  BY DEF Agrees, NoAudit, Counts

LEMMA AuditStep == Typed /\ PairsInv /\ AuditInv /\ Effect => AuditInv'
  <1> SUFFICES ASSUME Typed, PairsInv, AuditInv, Effect PROVE AuditInv'
    OBVIOUS
  <1>0. /\ idx \in Nat /\ session.start \in Nat \cup {None} /\ None \notin Nat
        /\ session.baseline \in Counts /\ audit.all \in AuditCounts /\ audit.post \in AuditCounts
        /\ recorder.counts \in Counts
    BY Constants DEF Typed, TypeOK
  <1>1. ASSUME UNCHANGED <<options, session, audit>>, recorder'.counts = recorder.counts,
               phase' \in {"warmup", "refit", "measured", "done"} => phase \in {"warmup", "refit", "measured", "done"},
               phase' \in {"warmup", "refit"} => phase \in {"warmup", "refit"},
               phase' \in {"measured", "done"} => phase \in {"measured", "done"},
               \/ idx' = idx /\ (Underway' <=> Underway)
               \/ idx' = idx + 1 /\ Underway' /\ ~Underway
        PROVE  AuditInv'
    <2>1. session.start # None =>
            session'.start \in Nat /\ session'.start <= IF Underway' THEN idx' ELSE idx' + 1
      BY <1>0, <1>1 DEF AuditInv
    <2>2. Agrees(audit.all, recorder.counts, NoCounts)' <=> Agrees(audit.all, recorder.counts, NoCounts)
      BY <1>1 DEF Agrees
    <2>3. Agrees(audit.post, recorder.counts, session.baseline)'
            <=> Agrees(audit.post, recorder.counts, session.baseline)
      BY <1>1 DEF Agrees
    <2> QED BY <1>1, <2>1, <2>2, <2>3 DEF AuditInv
  <1>2. CASE Idle
    BY <1>1, <1>2 DEF Idle, Underway
  <1>3. ASSUME NEW candidates \in SUBSET Rows, NEW accepted \in candidates \cup {None},
               Ask(candidates, accepted)
        PROVE  AuditInv'
    BY <1>1, <1>3 DEF Ask, Underway
  <1>4. ASSUME NEW c \in request.candidates, Hears(c) \/ Drops(c)
        PROVE  AuditInv'
    BY <1>1, <1>4 DEF Hears, Drops, Underway
  <1>5. CASE Answer
    BY <1>1, <1>5 DEF Answer, Underway
  <1>6. CASE Learn
    BY <1>1, <1>6 DEF Learn, Underway
  <1>7. CASE Turn
    BY <1>1, <1>7 DEF Turn, Underway
  <1>8. CASE Look
    BY <1>1, <1>8 DEF Look, Underway
  <1>9. CASE BookPlain
    <2>1. /\ at = "handled" /\ Underway /\ ~Underway' /\ recorder' = Resolved
          /\ idx' = idx /\ options' = options /\ phase' = phase
      BY <1>9 DEF BookPlain, Book, Underway
    <2>2. CASE phase # "measured"
      <3>1. phase = "warmup"
        BY <2>1, <2>2 DEF Typed, Serves
      <3>2. session' = session /\ audit' = audit
        BY <1>9, <2>2 DEF BookPlain
      <3> QED BY <2>1, <3>1, <3>2 DEF AuditInv
    <2>3. CASE phase = "measured"
      <3> DEFINE started == Session(Resolved.counts)
      <3>1. session' = started /\ audit' = Audited(started)
        BY <1>9, <2>3 DEF BookPlain
      <3>2. ~options.anchors
        BY <1>9, <2>3 DEF BookPlain, Probes
      <3>3. Resolved.counts \in Counts
        BY ResolvedType
      <3>4. audit'.all = (IF Hit THEN Count1(audit.all, ReuseLabel) ELSE audit.all)
        BY <3>1 DEF Audited, Hit
      <3>5. audit'.post = (IF Hit /\ session'.start # None /\ idx >= session'.start
                           THEN Count1(audit.post, ReuseLabel) ELSE audit.post)
        BY <3>1 DEF Audited, Hit
      <3>6. ASSUME options.judge_cache
            PROVE  Agrees(audit'.all, Resolved.counts, NoCounts)
        <4>1. Agrees(audit.all, recorder.counts, NoCounts)
          BY <2>3, <3>2, <3>6 DEF AuditInv
        <4> QED BY <1>0, <2>1, <3>4, <3>6, <4>1, AccountedAlike, ColdType
      <3>7. CASE session.start # None
        <4>1. session' = session
          BY <3>1, <3>7 DEF Session
        <4>2. session.start \in Nat /\ session.start <= idx
          BY <2>1, <3>7 DEF AuditInv
        <4>3. audit'.post = IF Hit THEN Count1(audit.post, ReuseLabel) ELSE audit.post
          BY <1>0, <3>5, <3>7, <4>1, <4>2
        <4>4. ASSUME options.judge_cache
              PROVE  Agrees(audit'.post, Resolved.counts, session.baseline)
          <5>1. Agrees(audit.post, recorder.counts, session.baseline)
            BY <2>3, <3>2, <3>7, <4>4 DEF AuditInv
          <5> QED BY <1>0, <2>1, <4>3, <4>4, <5>1, AccountedAlike
        <4>5. session.start <= idx + 1
          BY <1>0, <4>2
        <4> QED BY <2>1, <2>3, <3>6, <3>7, <4>1, <4>2, <4>4, <4>5 DEF AuditInv, Agrees
      <3>8. CASE session.start = None
        <4>1. audit.post = NoAudit
          BY <3>8 DEF AuditInv
        <4>2. CASE Active(policy)
          <5>1. session'.start = idx + 1 /\ session'.baseline = Resolved.counts
            BY <3>1, <3>8, <4>2 DEF Session, StartAfter
          <5>2. audit'.post = NoAudit
            BY <1>0, <3>5, <4>1, <5>1
          <5>3. Agrees(audit'.post, Resolved.counts, session'.baseline)
            BY <3>3, <5>1, <5>2, AgreesAtFirst
          <5>4. session'.start \in Nat /\ session'.start # None
            BY <1>0, <5>1
          <5> QED BY <2>1, <2>3, <3>6, <5>1, <5>3, <5>4 DEF AuditInv, Agrees
        <4>3. CASE ~Active(policy)
          <5>1. session' = session
            BY <3>1, <3>8, <4>3 DEF Session
          <5>2. audit'.post = NoAudit
            BY <3>5, <3>8, <4>1, <5>1
          <5> QED BY <2>1, <2>3, <3>6, <3>8, <5>1, <5>2 DEF AuditInv, Agrees
        <4> QED BY <4>2, <4>3
      <3> QED BY <3>7, <3>8
    <2> QED BY <2>2, <2>3
  <1>10. ASSUME Book, options.anchors \/ ~options.judge_cache, UNCHANGED <<session, audit>>
         PROVE  AuditInv'
    <2>1. /\ Underway /\ ~Underway'
          /\ idx' = idx /\ options' = options /\ phase' = phase
          /\ session' = session /\ audit' = audit
      BY <1>10 DEF Book, Underway
    <2>2. session.start # None => session.start \in Nat /\ session.start <= idx + 1
      BY <1>0, <2>1 DEF AuditInv
    <2> QED BY <1>10, <2>1, <2>2 DEF AuditInv
  <1>11. ASSUME NEW forced \in BOOLEAN, BookDiagnosed(forced)
         PROVE  AuditInv'
    BY <1>10, <1>11 DEF BookDiagnosed, Probes
  <1>12. CASE BookCompared
    <2>1. ~options.judge_cache
      BY <1>12, OptionFacts DEF BookCompared, Typed, TypeOK
    <2> QED BY <1>10, <1>12, <2>1 DEF BookCompared
  <1>13. CASE Enter
    <2>1. /\ ~Underway' /\ phase = "refit" /\ phase' = "measured" /\ idx' = 0
          /\ options' = options /\ audit' = audit
      BY <1>13 DEF Enter, Underway
    <2>2. session.start = None /\ audit.all = NoAudit /\ audit.post = NoAudit
      BY <2>1 DEF AuditInv
    <2>3. recorder'.counts = NoCounts
      BY <1>13, <2>1 DEF Enter, ResetRecorder, Typed
    <2>4. Agrees(NoAudit, NoCounts, NoCounts)
      BY AgreesAtFirst, ColdType
    <2>5. \/ session'.start = None
          \/ session'.start = 1 /\ session'.baseline = NoCounts
      BY <1>13, <2>2 DEF Enter
    <2> HIDE DEF NoAudit, NoCounts
    <2> QED BY <2>1, <2>2, <2>3, <2>4, <2>5 DEF AuditInv, Agrees
  <1> QED BY <1>2, <1>3, <1>4, <1>5, <1>6, <1>7, <1>8, <1>9, <1>11, <1>12, <1>13 DEF Effect

(***************************************************************************)
(* What is stored, and what the diagnostic records                         *)
(***************************************************************************)

LEMMA RecordAppended ==
  ASSUME NEW S, NEW s \in Seq(S), NEW x
  PROVE  LET t == Append(s, x)
         IN  /\ t \in Seq(Range(t))
             /\ Len(t) = Len(s) + 1 /\ DOMAIN s = 1..Len(s) /\ DOMAIN t = 1..Len(s) + 1
             /\ t[Len(s) + 1] = x
             /\ \A i \in 1..Len(s) : t[i] = s[i]
  <1> DEFINE t == Append(s, x)
  <1>1. /\ s \in Seq(S \cup {x}) /\ Len(s) \in Nat /\ DOMAIN s = 1..Len(s)
    OBVIOUS
  <1>2. /\ t \in Seq(S \cup {x}) /\ Len(t) = Len(s) + 1
        /\ t[Len(s) + 1] = x /\ \A i \in 1..Len(s) : t[i] = s[i]
    BY <1>1
  <1>3. DOMAIN t = 1..Len(s) + 1
    BY <1>1, <1>2
  <1> HIDE DEF t
  <1>4. \A i \in 1..Len(t) : t[i] \in Range(t)
    BY <1>2, <1>3 DEF Range
  <1>5. t \in Seq(Range(t))
    <2>1. t = [i \in 1..Len(t) |-> t[i]]
      BY <1>2, <1>3
    <2>2. [i \in 1..Len(t) |-> t[i]] \in Seq(Range(t))
      BY <1>1, <1>2, <1>4, IsASeq
    <2> QED BY <2>1, <2>2
  <1> QED BY <1>1, <1>2, <1>3, <1>5 DEF t

\* What a record adds to the queries of the misses.
LEMMA MissesAppended ==
  ASSUME NEW x, NEW n \in Nat, n = Len(records),
         records \in Seq(Range(records)), records' = Append(records, x)
  PROVE  /\ \A m \in 0..n : Misses(m)' = Misses(m)
         /\ Misses(n + 1)' = Misses(n) \cup (IF x.hit THEN {} ELSE {x.query})
  <1>1. records'[n + 1] = x /\ \A i \in 1..n : records'[i] = records[i]
    BY RecordAppended
  <1>2. ASSUME NEW m \in 0..n PROVE Misses(m)' = Misses(m)
    <2>1. \A j \in 1..m : records'[j] = records[j]
      BY <1>1
    <2> QED BY <2>1 DEF Misses
  <1>3. ASSUME NEW q
        PROVE  q \in Misses(n + 1)' <=>
                 q \in Misses(n) \cup (IF x.hit THEN {} ELSE {x.query})
    <2>1. 1..n + 1 = 1..n \cup {n + 1}
      OBVIOUS
    <2>2. \A j \in 1..n : records'[j] = records[j]
      BY <1>1
    <2> QED BY <1>1, <2>1, <2>2 DEF Misses
  <1> QED BY <1>2, <1>3

LEMMA WarmIs == Warm = Range(options.warmup) \cap rows
  BY DEF Warm, Range

\* What the warm-up stored is not changed by a row of the measured stream.
LEMMA WarmKept ==
  ASSUME options \in OptionsSet, options' = options,
         rows' = rows \/ (\E row \in Range(options.measured) : rows' = rows \cup {row})
  PROVE  Warm' = Warm
  <1>1. Range(options.warmup) \cap Range(options.measured) = {}
    BY OptionFacts
  <1>2. Warm' = Range(options.warmup) \cap rows'
    BY DEF Warm, Range
  <1> QED BY <1>1, <1>2, WarmIs

LEMMA RowsStep == Typed /\ RowsInv /\ RecordsInv /\ Effect => RowsInv'
  <1> SUFFICES ASSUME Typed, RowsInv, RecordsInv, Effect, options'.anchors PROVE RowsInv'
    BY DEF RowsInv
  <1>1. options' = options /\ options.anchors /\ ~options.shared_cache /\ ~Compares
        /\ options \in OptionsSet
    <2>1. options' = options
      BY DEF Effect, Idle, Ask, Hears, Drops, Answer, Learn, BookPlain, BookDiagnosed,
         BookCompared, Book, Turn, Enter, Look
    <2> QED BY <2>1, OptionFacts DEF Typed, TypeOK
  <1>2. Len(records) \in Nat /\ DOMAIN records = 1..Len(records)
        /\ records \in Seq(Range(records))
    BY DEF RecordsInv
  \* Where the records stay, what they say of the stored rows stays true.
  <1>3. ASSUME records' = records, Warm' = Warm
        PROVE  /\ Recorded' <=> Recorded
               /\ Stored(Len(records))' = Stored(Len(records))
    <2>1. \A n : Stored(n)' = Stored(n)
      BY <1>3 DEF Stored, Misses
    <2> QED BY <1>1, <1>3, <2>1 DEF Recorded
  \* Where neither rows nor records change, it is the probe that matters.
  <1>4. ASSUME phase' = phase, rows' = rows, records' = records, Unrecorded' = Unrecorded,
               phase \in {"warmup", "refit"} => ~probe'.made,
               phase \in {"measured", "done"} => ProbeInv'
        PROVE  RowsInv'
    <2>1. Warm' = Warm
      BY <1>1, <1>4, WarmKept
    <2>2. (Recorded' <=> Recorded) /\ Stored(Len(records))' = Stored(Len(records))
      BY <1>3, <1>4, <2>1
    <2> QED BY <1>1, <1>4, <2>2 DEF RowsInv
  \* Where the probe stays, and asks for the same row.
  <1>5. ASSUME rows' = rows, records' = records, probe' = probe, AskedRow' = AskedRow,
               Underway' => probe.made, at' = "check" => at = "check",
               phase \in {"measured", "done"}
        PROVE  ProbeInv'
    <2>1. Warm' = Warm
      BY <1>1, <1>5, WarmKept
    <2>2. Stored(Len(records))' = Stored(Len(records))
      BY <1>3, <1>5, <2>1
    <2> QED BY <1>1, <1>5, <2>2 DEF RowsInv, ProbeInv
  <1>6. CASE Idle
    <2>1. /\ AskedRow' = AskedRow /\ Unrecorded' = Unrecorded /\ (Underway' <=> Underway)
          /\ at' = "check" => at = "check"
      BY <1>1, <1>6 DEF Idle, AskedRow, Unrecorded, Underway, Row, Stream, Hit
    <2>2. phase \in {"measured", "done"} /\ Underway => probe.made
      BY <1>1 DEF RowsInv, ProbeInv
    <2>3. phase \in {"warmup", "refit"} => ~probe.made
      BY <1>1 DEF RowsInv
    <2>4. rows' = rows /\ records' = records /\ probe' = probe /\ phase' = phase
      BY <1>6 DEF Idle
    <2> QED BY <1>4, <1>5, <2>1, <2>2, <2>3, <2>4
  <1>7. ASSUME NEW candidates \in SUBSET Rows, NEW accepted \in candidates \cup {None},
               Ask(candidates, accepted)
        PROVE  RowsInv'
    <2>1. /\ AskedRow' = AskedRow /\ Unrecorded' = Unrecorded
          /\ at' # "check"
      BY <1>7 DEF Ask, AskedRow, Unrecorded, Underway, Row, Stream
    <2>2. phase \in {"measured", "done"} => probe.made
      BY <1>1, <1>7 DEF Ask, Probes, Serves
    <2>3. phase \in {"warmup", "refit"} => ~probe.made
      BY <1>1 DEF RowsInv
    <2>4. rows' = rows /\ records' = records /\ probe' = probe /\ phase' = phase
      BY <1>7 DEF Ask
    <2> QED BY <1>4, <1>5, <2>1, <2>2, <2>3, <2>4
  <1>8. ASSUME NEW c \in request.candidates, Hears(c) \/ Drops(c)
        PROVE  RowsInv'
    <2>1. /\ AskedRow' = AskedRow /\ Unrecorded' = Unrecorded /\ Underway
          /\ at' # "check"
      BY <1>8 DEF Hears, Drops, AskedRow, Unrecorded, Underway, Row, Stream
    <2>2. phase \in {"measured", "done"} => probe.made
      BY <1>1, <2>1 DEF RowsInv, ProbeInv
    <2>3. phase \in {"warmup", "refit"} => ~probe.made
      BY <1>1 DEF RowsInv
    <2>4. rows' = rows /\ records' = records /\ probe' = probe /\ phase' = phase
      BY <1>8 DEF Hears, Drops
    <2> QED BY <1>4, <1>5, <2>1, <2>2, <2>3, <2>4
  <1>9. CASE Learn
    <2>1. /\ AskedRow' = AskedRow /\ Unrecorded' = Unrecorded /\ (Underway' <=> Underway)
          /\ at' = "check" => at = "check"
      BY <1>9 DEF Learn, AskedRow, Unrecorded, Underway, Row, Stream, Hit
    <2>2. phase \in {"measured", "done"} /\ Underway => probe.made
      BY <1>1 DEF RowsInv, ProbeInv
    <2>3. phase \in {"warmup", "refit"} => ~probe.made
      BY <1>1 DEF RowsInv
    <2>4. rows' = rows /\ records' = records /\ probe' = probe /\ phase' = phase
      BY <1>9 DEF Learn
    <2> QED BY <1>4, <1>5, <2>1, <2>2, <2>3, <2>4
  <1>10. CASE Look
    <2>1. /\ AskedRow' = AskedRow /\ Unrecorded' = Unrecorded /\ Unrecorded = {}
          /\ AskedRow = Stream[idx + 1] /\ ~Underway' /\ at' = "next" /\ phase = "measured"
      BY <1>10 DEF Look, AskedRow, Unrecorded, Underway, Row, Stream, Hit, Probes
    <2>2. rows' = rows /\ records' = records /\ phase' = phase
      BY <1>10 DEF Look
    <2>3. probe'.available <=> Gold[AskedRow'] \in rows
      BY <1>10, <2>1 DEF Look
    <2>4. rows = Stored(Len(records))
      BY <1>1, <2>1 DEF RowsInv
    <2>5. Stored(Len(records))' = Stored(Len(records))
      BY <1>1, <1>3, <2>2, WarmKept
    <2>6. ProbeInv'
      BY <2>1, <2>3, <2>4, <2>5 DEF ProbeInv
    <2> QED BY <1>4, <2>1, <2>2, <2>6
  <1>11. CASE Answer
    <2>1. /\ rows' = IF request.accepted = None THEN rows \cup {Row} ELSE rows
          /\ records' = records /\ probe' = probe /\ phase' = phase
          /\ at = "judge" /\ at' = "handled" /\ Row' = Row /\ request' = request
      BY <1>1, <1>11 DEF Answer, Row, Stream
    <2>2. Underway /\ Underway' /\ AskedRow' = AskedRow /\ AskedRow = Row
          /\ Unrecorded = {} /\ Unrecorded' = IF request.accepted = None THEN {Row} ELSE {}
      BY <2>1 DEF Underway, AskedRow, Unrecorded, Hit
    <2>3. /\ phase = "warmup" => Row \in Range(options.warmup)
          /\ phase = "measured" => Row \in Range(options.measured)
          /\ phase \in {"warmup", "measured"}
      BY <2>2, RowType DEF Serves
    <2>4. CASE phase = "warmup"
      BY <1>1, <2>1, <2>3, <2>4 DEF RowsInv
    <2>5. CASE phase = "measured"
      <3>1. Warm' = Warm
        BY <1>1, <2>1, <2>3, <2>5, WarmKept
      <3>2. (Recorded' <=> Recorded) /\ Stored(Len(records))' = Stored(Len(records))
        BY <1>3, <2>1, <3>1
      <3>3. rows = Stored(Len(records)) /\ Recorded /\ ProbeInv
        BY <1>1, <2>2, <2>5 DEF RowsInv
      <3>4. rows' = Stored(Len(records))' \cup Unrecorded'
        BY <2>1, <2>2, <3>2, <3>3
      <3>5. ProbeInv'
        BY <2>1, <2>2, <3>2, <3>3 DEF ProbeInv
      <3> QED BY <1>1, <2>1, <2>5, <3>2, <3>3, <3>4, <3>5 DEF RowsInv
    <2> QED BY <2>3, <2>4, <2>5
  <1>12. CASE BookPlain
    <2>1. /\ at = "handled" /\ phase' = phase /\ rows' = rows /\ records' = records
          /\ probe' = probe /\ phase # "measured"
      BY <1>1, <1>12 DEF BookPlain, Book, Probes
    <2>2. phase = "warmup"
      BY <2>1 DEF Typed, Serves
    <2> QED BY <1>1, <2>1, <2>2 DEF RowsInv
  <1>13. ASSUME NEW forced \in BOOLEAN, BookDiagnosed(forced)
         PROVE  RowsInv'
    <2> DEFINE r == AnchorRecord(forced)
    <2>0. PICK n \in Nat : n = Len(records)
      BY <1>2
    <2>1. /\ at = "handled" /\ at' \in {"next", "check"} /\ phase = "measured" /\ phase' = phase
          /\ rows' = rows /\ records' = Append(records, r) /\ probe' = NoProbe
      BY <1>13 DEF BookDiagnosed, Book, Probes
    <2>2. r.query = Row /\ r.gold = Gold[Row] /\ r.hit = Hit /\ r.available = probe.available
      BY DEF AnchorRecord
    <2> HIDE DEF r
    <2>3. Underway /\ ~Underway' /\ Unrecorded' = {} /\ AskedRow = Row
          /\ Unrecorded = IF Hit THEN {} ELSE {Row}
      BY <2>1 DEF Underway, Unrecorded, AskedRow
    <2>4. Row \in Range(options.measured)
      BY <2>1, <2>3, RowType
    <2>5. rows = Stored(n) \cup Unrecorded /\ Recorded /\ ProbeInv
      BY <1>1, <2>0, <2>1 DEF RowsInv
    <2>6. probe.available <=> Gold[Row] \in Stored(n)
      BY <2>0, <2>3, <2>5 DEF ProbeInv
    <2>7. /\ Len(records') = n + 1 /\ DOMAIN records' = 1..n + 1 /\ records'[n + 1] = r
          /\ \A i \in 1..n : records'[i] = records[i]
      BY <1>2, <2>0, <2>1, RecordAppended
    <2>8. Warm' = Warm
      BY <1>1, <2>1, WarmKept
    <2>9. /\ \A m \in 0..n : Stored(m)' = Stored(m)
          /\ Stored(n + 1)' = Stored(n) \cup (IF r.hit THEN {} ELSE {r.query})
      <3>1. /\ \A m \in 0..n : Misses(m)' = Misses(m)
            /\ Misses(n + 1)' = Misses(n) \cup (IF r.hit THEN {} ELSE {r.query})
        BY <1>2, <2>0, <2>1, MissesAppended
      <3> QED BY <2>8, <3>1 DEF Stored
    <2>10. rows' = Stored(Len(records))' \cup Unrecorded'
      <3>1. Stored(Len(records))' = Stored(n + 1)'
        BY <2>7 DEF Stored, Misses
      <3> QED BY <2>1, <2>2, <2>3, <2>5, <2>9, <3>1
    <2>11. Recorded'
      <3>1. ASSUME NEW i \in DOMAIN records'
            PROVE  /\ records'[i].query \in Range(options.measured)
                   /\ records'[i].available <=> records'[i].gold \in Stored(i - 1)'
        <4>1. CASE i \in 1..n
          <5>1. records'[i] = records[i] /\ i - 1 \in 0..n /\ i \in DOMAIN records
            BY <1>2, <2>0, <2>7, <4>1
          <5>2. Stored(i - 1)' = Stored(i - 1)
            BY <2>9, <5>1
          <5> QED BY <2>5, <5>1, <5>2 DEF Recorded
        <4>2. CASE i = n + 1
          <5>1. i - 1 = n /\ n \in 0..n
            BY <1>2, <2>0, <4>2
          <5>2. Stored(i - 1)' = Stored(n)
            BY <2>9, <5>1
          <5> QED BY <2>2, <2>4, <2>6, <2>7, <4>2, <5>2
        <4> QED BY <1>2, <2>7, <3>1, <4>1, <4>2
      <3> QED BY <1>1, <3>1 DEF Recorded
    <2>12. ProbeInv'
      BY <2>1, <2>3, ColdType DEF ProbeInv
    <2> QED BY <1>1, <2>1, <2>10, <2>11, <2>12 DEF RowsInv
  <1>14. CASE BookCompared
    BY <1>1, <1>14 DEF BookCompared
  <1>15. CASE Turn
    <2>1. /\ rows' = rows /\ records' = records /\ probe' = probe /\ at' = "next" /\ at = "next"
          /\ \/ phase = "warmup" /\ phase' = "refit"
             \/ phase = "refit" /\ phase' = "failed"
             \/ phase = "measured" /\ phase' = "done"
      BY <1>15 DEF Turn
    <2>2. CASE phase # "measured"
      BY <1>1, <2>1, <2>2 DEF RowsInv
    <2>3. CASE phase = "measured"
      <3>1. AskedRow' = AskedRow /\ Unrecorded' = Unrecorded /\ ~Underway'
        BY <1>15, <2>1, <2>3 DEF Turn, AskedRow, Unrecorded, Underway, Stream
      <3>2. ProbeInv'
        BY <1>5, <2>1, <2>3, <3>1
      <3>3. Warm' = Warm
        BY <1>1, <2>1, WarmKept
      <3>4. (Recorded' <=> Recorded) /\ Stored(Len(records))' = Stored(Len(records))
        BY <1>3, <2>1, <3>3
      <3> QED BY <1>1, <2>1, <2>3, <3>1, <3>2, <3>4 DEF RowsInv
    <2> QED BY <2>2, <2>3
  <1>16. CASE Enter
    <2>1. /\ rows' = rows /\ records' = records /\ probe' = probe /\ at' = "next"
          /\ phase = "refit" /\ phase' = "measured"
      BY <1>16 DEF Enter
    <2>2. records = <<>> /\ ~probe.made /\ rows \subseteq Range(options.warmup)
      BY <1>1, <2>1 DEF RowsInv
    <2>3. Recorded'
      BY <2>1, <2>2 DEF Recorded
    <2>4. Stored(Len(records))' = rows /\ Unrecorded' = {} /\ ~Underway'
      <3>1. Warm' = rows
        BY <1>1, <2>1, <2>2, WarmIs, WarmKept
      <3>2. Misses(Len(records))' = {}
        BY <2>1, <2>2 DEF Misses
      <3> QED BY <2>1, <3>1, <3>2 DEF Stored, Unrecorded, Underway
    <2>5. ProbeInv'
      BY <2>1, <2>2, <2>4 DEF ProbeInv
    <2> QED BY <1>1, <2>1, <2>3, <2>4, <2>5 DEF RowsInv
  <1> QED BY <1>6, <1>7, <1>8, <1>9, <1>10, <1>11, <1>12, <1>13, <1>14, <1>15, <1>16 DEF Effect

LEMMA ClassFinite ==
  ASSUME records \in Seq(Range(records)), NEW class
  PROVE  IsFiniteSet(Class(class)) /\ Cardinality(Class(class)) \in Nat
  <1>1. Len(records) \in Nat /\ DOMAIN records = 1..Len(records)
    OBVIOUS
  <1>2. IsFiniteSet(DOMAIN records)
    BY <1>1, FS_Interval
  <1>3. IsFiniteSet(Class(class))
    BY <1>2, FS_Subset DEF Class
  <1> QED BY <1>3, FS_CardinalityType

\* One record more is one more in its class.
LEMMA ClassAppended ==
  ASSUME NEW x, NEW n \in Nat, n = Len(records), NEW class,
         records \in Seq(Range(records)), records' = Append(records, x)
  PROVE  Cardinality(Class(class))' =
           Cardinality(Class(class)) + (IF ServedClass(x) = class THEN 1 ELSE 0)
  <1>1. /\ DOMAIN records = 1..n /\ DOMAIN records' = 1..n + 1
        /\ records'[n + 1] = x /\ \A i \in 1..n : records'[i] = records[i]
    BY RecordAppended
  <1>2. /\ Class(class)' = {i \in 1..n + 1 : ServedClass(records'[i]) = class}
        /\ Class(class) = {i \in 1..n : ServedClass(records[i]) = class}
    BY <1>1 DEF Class, ServedClass, IsSelfPair
  <1>3. \A i \in 1..n : ServedClass(records'[i]) = ServedClass(records[i])
    BY <1>1
  <1>4. ServedClass(records'[n + 1]) = ServedClass(x)
    BY <1>1
  <1>5. 1..n + 1 = 1..n \cup {n + 1} /\ n + 1 \notin 1..n
    OBVIOUS
  <1>6. CASE ServedClass(x) = class
    <2>1. Class(class)' = Class(class) \cup {n + 1} /\ n + 1 \notin Class(class)
      BY <1>2, <1>3, <1>4, <1>5, <1>6
    <2>2. Cardinality(Class(class) \cup {n + 1}) = Cardinality(Class(class)) + 1
      BY <2>1, ClassFinite, FS_AddElement
    <2> QED BY <1>6, <2>1, <2>2
  <1>7. CASE ServedClass(x) # class
    <2>1. Class(class)' = Class(class)
      BY <1>2, <1>3, <1>4, <1>5, <1>7
    <2> QED BY <1>7, <2>1, ClassFinite
  <1> QED BY <1>6, <1>7

\* The class of a record is that of the label which the audit reads back.
LEMMA RecordClass ==
  ASSUME Typed, PairsInv, at = "handled", options.judge_cache, NEW forced
  PROVE  LET class == ServedClass(AnchorRecord(forced))
         IN  /\ class = "tp" <=> Hit /\ ReuseLabel = "H1"
             /\ class = "fp" <=> Hit /\ ReuseLabel = "H0"
             /\ class = "unjudged" <=> Hit /\ ReuseLabel = "UNCERTAIN"
  <1> DEFINE r == AnchorRecord(forced)
  <1>1. r.hit = Hit /\ r.query = Row /\ r.retrieved = RetrievedAnchor
    BY DEF AnchorRecord
  <1>2. ASSUME Hit
        PROVE  r.retrieved = request.accepted /\ r.retrieved_label = ReuseLabel
    <2>1. RetrievedAnchor = request.accepted /\ RetrievedAnchor # None
      BY <1>2 DEF RetrievedAnchor, Hit
    <2>2. r.retrieved_label = Label(Row, request.accepted)
      BY <2>1 DEF AnchorRecord
    <2>3. Label(Row, request.accepted) = ReuseLabel
      BY DEF Label, ReuseLabel
    <2> QED BY <1>1, <2>1, <2>2, <2>3
  <1>3. ReuseLabel \in {"H1", "H0", "UNCERTAIN"}
        /\ (Hit /\ request.accepted = Row => ReuseLabel = "UNCERTAIN")
    BY JoinedAccounts DEF Labels
  <1> HIDE DEF r
  <1>4. CASE ~Hit
    <2>1. ServedClass(r) = "miss"
      BY <1>1, <1>4 DEF ServedClass
    <2> QED BY <1>4, <2>1 DEF r
  <1>5. CASE Hit
    <2>1. /\ ReuseLabel = "H1" => ServedClass(r) = "tp"
          /\ ReuseLabel = "H0" => ServedClass(r) = "fp"
          /\ ReuseLabel = "UNCERTAIN" => ServedClass(r) = "unjudged"
      BY <1>1, <1>2, <1>3, <1>5 DEF ServedClass, IsSelfPair
    <2> QED BY <1>3, <1>5, <2>1 DEF r
  <1> QED BY <1>4, <1>5

LEMMA RecordsStep == Typed /\ PairsInv /\ RowsInv /\ RecordsInv /\ Effect => RecordsInv'
  <1> SUFFICES ASSUME Typed, PairsInv, RowsInv, RecordsInv, Effect PROVE RecordsInv'
    OBVIOUS
  <1>1. records \in Seq(Range(records))
    BY DEF RecordsInv
  <1>2. ASSUME UNCHANGED <<options, records>>,
               \/ recorder'.counts = recorder.counts
               \/ ~options.anchors
               \/ phase' \notin {"measured", "done"},
               phase' \in {"measured", "done"} => phase \in {"measured", "done"}
        PROVE  RecordsInv'
    <2>1. \A class : Cardinality(Class(class))' = Cardinality(Class(class))
      BY <1>2 DEF Class
    <2> QED BY <1>2, <2>1 DEF RecordsInv
  <1>3. CASE Idle
    BY <1>2, <1>3 DEF Idle
  <1>4. ASSUME NEW candidates \in SUBSET Rows, NEW accepted \in candidates \cup {None},
               Ask(candidates, accepted)
        PROVE  RecordsInv'
    BY <1>2, <1>4 DEF Ask
  <1>5. ASSUME NEW c \in request.candidates, Hears(c) \/ Drops(c)
        PROVE  RecordsInv'
    BY <1>2, <1>5 DEF Hears, Drops
  <1>6. CASE Answer
    BY <1>2, <1>6 DEF Answer
  <1>7. CASE Learn
    BY <1>2, <1>7 DEF Learn
  <1>8. CASE BookPlain
    <2>1. phase \in {"warmup", "measured"}
      BY <1>8 DEF BookPlain, Book, Typed, Serves
    <2> QED BY <1>2, <1>8, <2>1 DEF BookPlain, Book, Probes
  <1>9. ASSUME NEW forced \in BOOLEAN, BookDiagnosed(forced)
        PROVE  RecordsInv'
    <2> DEFINE r == AnchorRecord(forced)
    <2>1. /\ at = "handled" /\ phase = "measured" /\ phase' = phase /\ options' = options
          /\ recorder' = Resolved /\ records' = Append(records, r)
      BY <1>9 DEF BookDiagnosed, Book, Probes
    <2>2. r.hit \in BOOLEAN
      BY DEF AnchorRecord, Hit
    <2> HIDE DEF r
    <2>3. PICK n \in Nat : n = Len(records) /\ DOMAIN records = 1..n
      BY <1>1
    <2>4. /\ records' \in Seq(Range(records'))
          /\ DOMAIN records' = 1..n + 1 /\ records'[n + 1] = r
          /\ \A i \in 1..n : records'[i] = records[i]
      BY <1>1, <2>1, <2>3, RecordAppended
    <2>5. \A i \in DOMAIN records' : records'[i].hit \in BOOLEAN
      <3>1. \A i \in 1..n : records[i].hit \in BOOLEAN
        BY <2>3 DEF RecordsInv
      <3>2. \A i \in 1..n + 1 : i \in 1..n \/ i = n + 1
        OBVIOUS
      <3> QED BY <2>2, <2>4, <3>1, <3>2
    <2>6. ASSUME options.anchors, options.judge_cache
          PROVE  /\ Cardinality(Class("tp"))' = Resolved.counts.true_accepts
                 /\ Cardinality(Class("fp"))' = Resolved.counts.false_accepts
                 /\ Cardinality(Class("unjudged"))' = Resolved.counts.unjudged_accepts
      <3> DEFINE grown(class) == IF ServedClass(r) = class THEN 1 ELSE 0
      <3>1. /\ Cardinality(Class("tp"))' = Cardinality(Class("tp")) + grown("tp")
            /\ Cardinality(Class("fp"))' = Cardinality(Class("fp")) + grown("fp")
            /\ Cardinality(Class("unjudged"))' = Cardinality(Class("unjudged")) + grown("unjudged")
        BY <1>1, <2>1, <2>3, ClassAppended
      <3>2. /\ Cardinality(Class("tp")) = recorder.counts.true_accepts
            /\ Cardinality(Class("fp")) = recorder.counts.false_accepts
            /\ Cardinality(Class("unjudged")) = recorder.counts.unjudged_accepts
        BY <2>1, <2>6 DEF RecordsInv
      <3>3. /\ ServedClass(r) = "tp" <=> Hit /\ ReuseLabel = "H1"
            /\ ServedClass(r) = "fp" <=> Hit /\ ReuseLabel = "H0"
            /\ ServedClass(r) = "unjudged" <=> Hit /\ ReuseLabel = "UNCERTAIN"
        BY <2>1, <2>6, RecordClass DEF r
      <3>4. /\ Pairs("H1", TRUE) = grown("tp") /\ Pairs("H0", TRUE) = grown("fp")
            /\ (IF Unjudged THEN 1 ELSE 0) = grown("unjudged")
        BY <2>1, <2>6, <3>3, JoinedAccounts
      <3>5. /\ Resolved.counts.true_accepts = recorder.counts.true_accepts + Pairs("H1", TRUE)
            /\ Resolved.counts.false_accepts = recorder.counts.false_accepts + Pairs("H0", TRUE)
            /\ Resolved.counts.unjudged_accepts = recorder.counts.unjudged_accepts
                                                    + (IF Unjudged THEN 1 ELSE 0)
        BY ResolvedIs
      <3> HIDE DEF grown
      <3> QED BY <3>1, <3>2, <3>4, <3>5
    <2> QED BY <2>1, <2>4, <2>5, <2>6 DEF RecordsInv
  <1>10. CASE BookCompared
    <2>1. ~options.anchors
      BY <1>10, OptionFacts DEF BookCompared, Typed, TypeOK
    <2> QED BY <1>2, <1>10, <2>1 DEF BookCompared, Book
  <1>11. CASE Turn
    BY <1>2, <1>11 DEF Turn
  <1>12. CASE Enter
    <2>1. CASE ~options.anchors
      BY <1>12, <2>1 DEF Enter, RecordsInv
    <2>2. CASE options.anchors
      <3>1. /\ phase = "refit" /\ records' = records /\ options' = options
        BY <1>12 DEF Enter
      <3>2. records = <<>>
        BY <2>2, <3>1 DEF RowsInv
      <3>3. recorder'.counts = NoCounts
        BY <1>12, <3>1 DEF Enter, ResetRecorder, Typed
      <3>4. \A class : Class(class)' = {}
        BY <3>1, <3>2 DEF Class
      <3>5. \A class : Cardinality(Class(class))' = 0
        BY <3>4, FS_EmptySet
      <3>6. /\ NoCounts.true_accepts = 0 /\ NoCounts.false_accepts = 0
            /\ NoCounts.unjudged_accepts = 0
        BY DEF NoCounts
      <3> QED BY <1>1, <3>1, <3>2, <3>3, <3>5, <3>6 DEF RecordsInv
    <2> QED BY <2>1, <2>2
  <1>13. CASE Look
    BY <1>2, <1>13 DEF Look
  <1> QED BY <1>3, <1>4, <1>5, <1>6, <1>7, <1>8, <1>9, <1>10, <1>11, <1>12, <1>13 DEF Effect

\* The hits are those of three classes.
LEMMA HitClasses ==
  ASSUME RecordsInv
  PROVE  Cardinality({i \in DOMAIN records : records[i].hit}) =
           Cardinality(Class("tp")) + Cardinality(Class("fp")) + Cardinality(Class("unjudged"))
  <1> DEFINE hits == {i \in DOMAIN records : records[i].hit}
  <1>1. \A class : IsFiniteSet(Class(class)) /\ Cardinality(Class(class)) \in Nat
    BY ClassFinite DEF RecordsInv
  <1>2. ASSUME NEW i \in DOMAIN records
        PROVE  records[i].hit <=> ServedClass(records[i]) \in {"tp", "fp", "unjudged"}
    <2>1. records[i].hit \in BOOLEAN
      BY DEF RecordsInv
    <2> QED BY <2>1 DEF ServedClass
  <1>3. hits = (Class("tp") \cup Class("fp")) \cup Class("unjudged")
    BY <1>2 DEF Class
  <1>4. /\ Class("tp") \cap Class("fp") = {}
        /\ (Class("tp") \cup Class("fp")) \cap Class("unjudged") = {}
    BY DEF Class
  <1> HIDE DEF hits
  <1>5. /\ IsFiniteSet(Class("tp") \cup Class("fp"))
        /\ Cardinality(Class("tp") \cup Class("fp")) =
             Cardinality(Class("tp")) + Cardinality(Class("fp"))
               - Cardinality(Class("tp") \cap Class("fp"))
    BY <1>1, FS_Union
  <1>6. Cardinality(hits) =
          Cardinality(Class("tp") \cup Class("fp")) + Cardinality(Class("unjudged"))
            - Cardinality((Class("tp") \cup Class("fp")) \cap Class("unjudged"))
    BY <1>1, <1>3, <1>5, FS_Union
  <1>7. Cardinality({}) = 0
    BY FS_EmptySet
  <1>8. Cardinality(hits) =
          Cardinality(Class("tp")) + Cardinality(Class("fp")) + Cardinality(Class("unjudged"))
    <2>1. /\ Cardinality(Class("tp") \cap Class("fp")) = 0
          /\ Cardinality((Class("tp") \cup Class("fp")) \cap Class("unjudged")) = 0
      BY <1>4, <1>7
    <2>2. /\ Cardinality(Class("tp")) \in Nat /\ Cardinality(Class("fp")) \in Nat
          /\ Cardinality(Class("unjudged")) \in Nat
      BY <1>1
    <2>3. Cardinality(Class("tp") \cup Class("fp")) =
            Cardinality(Class("tp")) + Cardinality(Class("fp"))
      BY <1>5, <2>1, <2>2
    <2> QED BY <1>6, <2>1, <2>2, <2>3
  <1> QED BY <1>8 DEF hits

(***************************************************************************)
(* The comparison                                                          *)
(***************************************************************************)

LEMMA EmittedFinite ==
  ASSUME NEW flags, NEW judged, NEW hit
  PROVE  (\E e \in Emitted(flags, judged, hit) : e.event = "finite")
           <=> tracker.seen /\ flags.calibrated # tracker.prev.calibrated /\ flags.calibrated
  <1> DEFINE changed == {x \in {"trained", "calibrated", "version"} :
                            tracker.seen /\ flags[x] # tracker.prev[x]}
             finite == {x \in {"finite"} : "calibrated" \in changed /\ flags.calibrated}
             first == {x \in {"first_pair", "first_hit"} :
                          /\ IF x = "first_pair" THEN judged ELSE hit
                          /\ \A e \in tracker.events : e.event # x}
  <1>1. Emitted(flags, judged, hit) =
          {[index |-> idx, event |-> x] : x \in changed \cup finite \cup first}
    BY DEF Emitted
  <1>2. "finite" \notin changed /\ "finite" \notin first
    OBVIOUS
  <1>3. "calibrated" \in changed
          <=> tracker.seen /\ flags.calibrated # tracker.prev.calibrated
    OBVIOUS
  <1>4. "finite" \in finite <=> "calibrated" \in changed /\ flags.calibrated
    <2> HIDE DEF changed
    <2> QED OBVIOUS
  <1> HIDE DEF changed, finite, first
  <1>5. (\E e \in Emitted(flags, judged, hit) : e.event = "finite") <=> "finite" \in finite
    <2>1. ASSUME NEW e \in Emitted(flags, judged, hit), e.event = "finite"
          PROVE  "finite" \in finite
      <3>1. PICK x \in changed \cup finite \cup first : e = [index |-> idx, event |-> x]
        BY <1>1, <2>1
      <3>2. x = "finite"
        BY <2>1, <3>1
      <3> QED BY <1>2, <3>1, <3>2
    <2>2. ASSUME "finite" \in finite
          PROVE  \E e \in Emitted(flags, judged, hit) : e.event = "finite"
      <3>1. [index |-> idx, event |-> "finite"] \in Emitted(flags, judged, hit)
        BY <1>1, <2>2
      <3> QED BY <3>1
    <2> QED BY <2>1, <2>2
  <1> QED BY <1>3, <1>4, <1>5

LEMMA LifecycleStep == Typed /\ PolicyInv /\ LifecycleInv /\ Effect => LifecycleInv'
  <1> SUFFICES ASSUME Typed, PolicyInv, LifecycleInv, Effect, Compares' PROVE LifecycleInv'
    BY DEF LifecycleInv
  <1>0. options' = options /\ Compares /\ ~options.anchors /\ options.warmup = <<>>
    <2>1. options' = options
      BY DEF Effect, Idle, Ask, Hears, Drops, Answer, Learn, BookPlain, BookDiagnosed,
         BookCompared, Book, Turn, Enter, Look
    <2>2. Compares
      BY <2>1 DEF Compares
    <2> QED BY <2>1, <2>2, OptionFacts DEF Typed, TypeOK
  <1> DEFINE Source == [source : {"cache", "llm"}, calibrated : BOOLEAN]
  <1>1. PICK n \in Nat : n = Len(trace)
    BY <1>0 DEF LifecycleInv
  <1>2. /\ trace \in Seq(Source)
        /\ marks \in [hit : Nat, calibrated : Nat, response : Policies]
        /\ tracker.prev.calibrated \in BOOLEAN
        /\ phase = "refit" => n = 0
        /\ idx = IF Underway THEN n + 1 ELSE n
        /\ tracker.seen <=> n > 0
        /\ marks.calibrated \in 0..n
        /\ tracker.prev.calibrated =>
             n > 0 /\ policy.finite /\ (Underway => request.policy.finite)
        /\ marks.calibrated # 0 => tracker.prev.calibrated
        /\ at = "handled" => /\ request.policy.finite => marks.response.finite
                             /\ marks.response.finite => policy.finite
        /\ \A i \in FiniteAt : /\ i \in 1..n /\ tracker.prev.calibrated
                               /\ \/ marks.calibrated \in {i, i + 1}
                                  \/ marks.calibrated = 0 /\ n = i
        /\ FiniteAt = {} /\ tracker.prev.calibrated =>
             \/ marks.calibrated \in 1..2
             \/ marks.calibrated = 0 /\ n = 1
        /\ \A i \in 1..n : trace[i].source = "cache" => marks.calibrated \in 1..i
    BY <1>0, <1>1 DEF LifecycleInv
  <1> HIDE DEF Source
  \* Where nothing is booked, only the policies and the request move on.
  <1>3. ASSUME tracker' = tracker, trace' = trace,
               marks' \in [hit : Nat, calibrated : Nat, response : Policies],
               marks'.calibrated = marks.calibrated,
               phase' = "refit" => phase = "refit",
               idx' = IF Underway' THEN n + 1 ELSE n,
               policy.finite => policy'.finite,
               tracker.prev.calibrated /\ Underway' => request'.policy.finite,
               at' = "handled" => /\ request'.policy.finite => marks'.response.finite
                                  /\ marks'.response.finite => policy'.finite
        PROVE  LifecycleInv'
    <2>1. FiniteAt' = FiniteAt
      BY <1>3 DEF FiniteAt
    <2>2. \A i \in FiniteAt' : /\ i \in 1..n /\ tracker'.prev.calibrated
                               /\ \/ marks'.calibrated \in {i, i + 1}
                                  \/ marks'.calibrated = 0 /\ n = i
      BY <1>2, <1>3, <2>1
    <2>3. FiniteAt' = {} /\ tracker'.prev.calibrated =>
             \/ marks'.calibrated \in 1..2
             \/ marks'.calibrated = 0 /\ n = 1
      BY <1>2, <1>3, <2>1
    <2>4. \A i \in 1..n : trace'[i].source = "cache" => marks'.calibrated \in 1..i
      BY <1>2, <1>3
    <2>5. /\ trace' \in Seq(Source) /\ n = Len(trace') /\ tracker'.prev.calibrated \in BOOLEAN
          /\ phase' = "refit" => n = 0
          /\ tracker'.seen <=> n > 0
          /\ marks'.calibrated \in 0..n
          /\ tracker'.prev.calibrated =>
               n > 0 /\ policy'.finite /\ (Underway' => request'.policy.finite)
          /\ marks'.calibrated # 0 => tracker'.prev.calibrated
      BY <1>1, <1>2, <1>3
    <2> QED BY <1>3, <2>2, <2>3, <2>4, <2>5 DEF LifecycleInv, Source
  <1>4. CASE Idle
    BY <1>2, <1>3, <1>4 DEF Idle, Underway
  <1>5. ASSUME NEW candidates \in SUBSET Rows, NEW accepted \in candidates \cup {None},
               Ask(candidates, accepted)
        PROVE  LifecycleInv'
    <2>1. request'.policy = policy /\ Underway' /\ ~Underway /\ idx' = idx + 1 /\ at' = "judge"
      BY <1>5 DEF Ask, Underway
    <2>2. idx' = n + 1
      BY <1>2, <2>1
    <2> QED BY <1>2, <1>3, <1>5, <2>1, <2>2 DEF Ask
  <1>6. ASSUME NEW c \in request.candidates, Hears(c) \/ Drops(c)
        PROVE  LifecycleInv'
    BY <1>2, <1>3, <1>6 DEF Hears, Drops, Underway
  <1>7. CASE Answer
    <2>1. marks' = [marks EXCEPT !.response = policy] /\ policy \in Policies
      BY <1>0, <1>7 DEF Answer, Typed, TypeOK
    <2>2. /\ marks' \in [hit : Nat, calibrated : Nat, response : Policies]
          /\ marks'.calibrated = marks.calibrated /\ marks'.response = policy
      BY <1>2, <2>1
    <2>3. /\ Underway /\ Underway' /\ idx' = idx /\ phase' = phase /\ request' = request
          /\ policy' = policy /\ tracker' = tracker /\ trace' = trace
      BY <1>7 DEF Answer, Underway
    <2>4. request.policy.finite => policy.finite
      BY <2>3 DEF PolicyInv
    <2> QED BY <1>2, <1>3, <2>2, <2>3, <2>4
  <1>8. CASE Learn
    BY <1>2, <1>3, <1>8 DEF Learn, Underway
  <1>9. BookPlain \/ (\E forced \in BOOLEAN : BookDiagnosed(forced)) \/ Look => FALSE
    BY <1>0 DEF BookPlain, BookDiagnosed, Look, Probes
  <1>10. CASE Turn
    <2>1. phase # "warmup"
      BY <1>0 DEF Typed
    <2> QED BY <1>2, <1>3, <1>10, <2>1 DEF Turn, Underway
  <1>11. CASE Enter
    BY <1>2, <1>3, <1>11 DEF Enter, Underway
  <1>12. CASE BookCompared
    <2> DEFINE hit == IF marks.hit = 0 /\ Hit THEN idx ELSE marks.hit
               calibrated == IF marks.calibrated = 0 /\ marks.response.finite
                             THEN idx ELSE marks.calibrated
               response == [source |-> IF Hit THEN "cache" ELSE "llm",
                            calibrated |-> Calibrated(marks.response)]
    <2>1. /\ at = "handled" /\ Underway /\ ~Underway' /\ at' # "handled"
          /\ idx' = idx /\ phase' = phase /\ policy' = policy
          /\ trace' = Append(trace, response)
          /\ tracker'.seen = TRUE /\ tracker'.prev = Flags(policy)
          /\ tracker'.events = tracker.events \cup
                Emitted(Flags(policy), Judged(Resolved.counts), hit # 0)
          /\ marks' = [marks EXCEPT !.hit = hit, !.calibrated = calibrated]
      BY <1>2, <1>12 DEF BookCompared, Book, Underway, Calibrated
    <2>2. idx = n + 1 /\ idx \in Nat /\ idx > 0
      BY <1>2, <2>1
    <2>3. hit \in Nat /\ calibrated \in Nat /\ marks.response \in Policies
      BY <1>2, <2>2
    <2>4. response \in Source
      BY <2>3 DEF Source, Calibrated, Policies
    <2> HIDE DEF response
    <2>5. /\ trace' \in Seq(Source) /\ Len(trace') = n + 1
          /\ trace'[n + 1] = response /\ \A i \in 1..n : trace'[i] = trace[i]
      BY <1>1, <1>2, <2>1, <2>4
    <2>6. /\ marks' \in [hit : Nat, calibrated : Nat, response : Policies]
          /\ marks'.calibrated = calibrated
      <3> HIDE DEF hit, calibrated
      <3> QED BY <1>2, <2>1, <2>3
    <2>7. tracker'.prev.calibrated = policy.finite /\ policy.finite \in BOOLEAN
      BY <2>1 DEF Flags, Calibrated, Typed, TypeOK, Policies
    <2> DEFINE new == IF n > 0 /\ ~tracker.prev.calibrated /\ policy.finite THEN {idx} ELSE {}
    <2>8. FiniteAt' = FiniteAt \cup new
      <3> DEFINE emitted == Emitted(Flags(policy), Judged(Resolved.counts), hit # 0)
      <3>1. {e.index : e \in {x \in emitted : x.event = "finite"}} = new
        <4>1. Flags(policy).calibrated = policy.finite
          BY DEF Flags, Calibrated
        <4>2. Flags(policy).calibrated # tracker.prev.calibrated /\ Flags(policy).calibrated
                <=> ~tracker.prev.calibrated /\ policy.finite
          BY <1>2, <2>7, <4>1
        <4>3. \A e \in emitted : e.index = idx
          BY DEF Emitted
        <4>4. (\E e \in emitted : e.event = "finite")
                 <=> n > 0 /\ ~tracker.prev.calibrated /\ policy.finite
          <5>1. (\E e \in emitted : e.event = "finite")
                   <=> tracker.seen /\ Flags(policy).calibrated # tracker.prev.calibrated
                         /\ Flags(policy).calibrated
            BY EmittedFinite
          <5> QED BY <1>2, <4>2, <5>1
        <4> HIDE DEF emitted
        <4> QED BY <4>3, <4>4
      <3>2. FiniteAt' = {e.index : e \in {x \in tracker.events \cup emitted : x.event = "finite"}}
        BY <2>1 DEF FiniteAt
      <3> HIDE DEF emitted, new
      <3> QED BY <3>1, <3>2 DEF FiniteAt
    <2>9. /\ calibrated \in 0..n + 1
          /\ calibrated # 0 => policy.finite
      BY <1>2, <2>1, <2>2
    <2>10. \A i \in FiniteAt' : /\ i \in 1..n + 1 /\ policy.finite
                                /\ \/ calibrated \in {i, i + 1}
                                   \/ calibrated = 0 /\ n + 1 = i
      <3>1. ASSUME NEW i \in FiniteAt
            PROVE  /\ i \in 1..n + 1 /\ policy.finite
                   /\ \/ calibrated \in {i, i + 1}
                      \/ calibrated = 0 /\ n + 1 = i
        <4>1. /\ i \in 1..n /\ policy.finite /\ marks.response.finite
              /\ \/ marks.calibrated \in {i, i + 1}
                 \/ marks.calibrated = 0 /\ n = i
          BY <1>2, <2>1
        <4> QED BY <2>2, <4>1
      <3>2. ASSUME NEW i \in new
            PROVE  /\ i \in 1..n + 1 /\ policy.finite
                   /\ \/ calibrated \in {i, i + 1}
                      \/ calibrated = 0 /\ n + 1 = i
        BY <1>2, <2>2, <3>2
      <3> HIDE DEF new, calibrated
      <3> QED BY <2>8, <3>1, <3>2
    <2>11. FiniteAt' = {} /\ policy.finite =>
             \/ calibrated \in 1..2
             \/ calibrated = 0 /\ n + 1 = 1
      <3>1. ASSUME FiniteAt' = {}, policy.finite
            PROVE  \/ calibrated \in 1..2
                   \/ calibrated = 0 /\ n + 1 = 1
        <4>1. FiniteAt = {} /\ (n > 0 => tracker.prev.calibrated)
          BY <2>8, <3>1
        <4>2. CASE n = 0
          BY <1>2, <2>2, <4>2
        <4>3. CASE n > 0
          <5>1. marks.response.finite
            BY <1>2, <2>1, <4>1, <4>3
          <5>2. marks.calibrated \in 1..2 \/ (marks.calibrated = 0 /\ n = 1)
            BY <1>2, <4>1, <4>3
          <5> QED BY <2>2, <5>1, <5>2
        <4> QED BY <4>2, <4>3
      <3> QED BY <3>1
    <2>12. \A i \in 1..n + 1 : trace'[i].source = "cache" => calibrated \in 1..i
      <3>1. ASSUME NEW i \in 1..n, trace'[i].source = "cache"
            PROVE  calibrated \in 1..i
        BY <1>2, <2>5, <3>1
      <3>2. ASSUME response.source = "cache"
            PROVE  calibrated \in 1..n + 1
        <4>1. Hit
          BY <3>2 DEF response
        <4>2. request.policy.finite
          BY <2>1, <4>1 DEF PolicyInv, Hit
        <4>3. marks.response.finite
          BY <1>2, <2>1, <4>2
        <4> QED BY <1>2, <2>2, <4>3
      <3> HIDE DEF calibrated
      <3> QED BY <2>5, <3>1, <3>2
    <2> HIDE DEF calibrated, hit, new
    <2>13. phase' # "refit"
      BY <2>1 DEF Typed, Serves
    <2> QED BY <2>1, <2>2, <2>5, <2>6, <2>7, <2>9, <2>10, <2>11, <2>12, <2>13
         DEF LifecycleInv, Source
  <1> QED BY <1>4, <1>5, <1>6, <1>7, <1>8, <1>9, <1>10, <1>11, <1>12 DEF Effect

LEMMA EndStep == Typed /\ PolicyInv /\ LifecycleInv /\ EndInv /\ Effect => EndInv'
  <1> SUFFICES ASSUME Typed, PolicyInv, LifecycleInv, EndInv, Effect, Compares' PROVE EndInv'
    BY DEF EndInv
  <1>0. options' = options /\ Compares /\ ~options.anchors
    <2>1. options' = options
      BY DEF Effect, Idle, Ask, Hears, Drops, Answer, Learn, BookPlain, BookDiagnosed,
         BookCompared, Book, Turn, Enter, Look
    <2>2. Compares
      BY <2>1 DEF Compares
    <2> QED BY <2>1, <2>2, OptionFacts DEF Typed, TypeOK
  <1>1. PICK n \in Nat : n = Len(trace) /\ DOMAIN trace = 1..n
    BY <1>0 DEF LifecycleInv
  <1>2. /\ trace \in Seq([source : {"cache", "llm"}, calibrated : BOOLEAN])
        /\ marks \in [hit : Nat, calibrated : Nat, response : Policies]
        /\ idx = IF Underway THEN n + 1 ELSE n
        /\ phase = "refit" => n = 0
        /\ options.main \in Nat
    BY <1>0, <1>1, OptionFacts DEF LifecycleInv, Typed, TypeOK
  <1>3. /\ \A i \in 1..n : trace[i].source = "cache" => marks.hit # 0
        /\ marks.hit # 0 => policy.finite
        /\ \A i \in 1..n : trace[i].source = "cache" => \A j \in i + 1..idx : j <= options.main
    BY <1>0, <1>1 DEF EndInv
  <1>4. ASSUME trace' = trace, marks'.hit = marks.hit, idx' = idx, policy.finite => policy'.finite
        PROVE  EndInv'
    BY <1>0, <1>1, <1>3, <1>4 DEF EndInv
  <1>5. ASSUME NEW candidates \in SUBSET Rows, NEW accepted \in candidates \cup {None},
               Ask(candidates, accepted)
        PROVE  EndInv'
    <2>1. /\ idx' = idx + 1 /\ trace' = trace /\ marks' = marks /\ policy' = policy
          /\ idx = n /\ (idx >= options.main => ~policy.finite \/ marks.hit = 0)
      BY <1>0, <1>2, <1>5 DEF Ask, NeedsMore, Calibrated, Underway
    <2>2. ASSUME NEW i \in 1..n, trace[i].source = "cache", NEW j \in i + 1..idx + 1
          PROVE  j <= options.main
      <3>1. marks.hit # 0 /\ policy.finite
        BY <1>3, <2>2
      <3>2. idx < options.main
        BY <1>2, <2>1, <3>1
      <3> QED BY <1>2, <2>1, <2>2, <3>2
    <2> QED BY <1>0, <1>1, <1>3, <2>1, <2>2 DEF EndInv
  <1>6. CASE Answer
    <2>1. marks'.hit = marks.hit
      BY <1>0, <1>2, <1>6 DEF Answer
    <2> QED BY <1>4, <1>6, <2>1 DEF Answer
  <1>7. CASE Enter
    <2>1. n = 0 /\ trace' = trace /\ marks' = marks /\ policy' = policy
      BY <1>2, <1>7 DEF Enter
    <2> QED BY <1>1, <1>3, <2>1 DEF EndInv
  <1>8. CASE BookCompared
    <2> DEFINE hit == IF marks.hit = 0 /\ Hit THEN idx ELSE marks.hit
               calibrated == IF marks.calibrated = 0 /\ marks.response.finite
                             THEN idx ELSE marks.calibrated
               response == [source |-> IF Hit THEN "cache" ELSE "llm",
                            calibrated |-> Calibrated(marks.response)]
    <2>1. /\ at = "handled" /\ Underway /\ idx' = idx /\ policy' = policy
          /\ trace' = Append(trace, response)
          /\ marks' = [marks EXCEPT !.hit = hit, !.calibrated = calibrated]
      BY <1>2, <1>8 DEF BookCompared, Book, Underway, Calibrated
    <2>2. idx = n + 1 /\ hit \in Nat /\ (Hit => hit # 0) /\ (marks.hit # 0 => hit # 0)
      BY <1>1, <1>2, <2>1
    <2>3. hit # 0 => policy.finite
      <3>1. Hit => request.policy.finite /\ policy.finite
        BY <2>1 DEF PolicyInv, Hit
      <3> QED BY <1>3, <3>1
    <2>4. response.source = "cache" <=> Hit
      OBVIOUS
    <2> HIDE DEF response
    <2>5. marks'.hit = hit
      <3> HIDE DEF hit, calibrated
      <3> QED BY <1>2, <2>1
    <2> HIDE DEF hit
    <2>6. /\ DOMAIN trace' = 1..n + 1
          /\ trace'[n + 1] = response /\ \A i \in 1..n : trace'[i] = trace[i]
      BY <1>1, <1>2, <2>1
    <2>7. ASSUME NEW i \in 1..n + 1, trace'[i].source = "cache"
          PROVE  hit # 0 /\ \A j \in i + 1..idx : j <= options.main
      <3>1. CASE i \in 1..n
        BY <1>3, <2>2, <2>6, <2>7, <3>1
      <3>2. CASE i = n + 1
        BY <1>1, <2>2, <2>4, <2>6, <2>7, <3>2
      <3> QED BY <1>1, <2>7, <3>1, <3>2
    <2> QED BY <1>0, <2>1, <2>3, <2>5, <2>6, <2>7 DEF EndInv
  <1>9. CASE Idle \/ Learn \/ Turn \/ (\E c \in request.candidates : Hears(c) \/ Drops(c))
    BY <1>4, <1>9 DEF Idle, Learn, Turn, Hears, Drops
  <1>10. BookPlain \/ (\E forced \in BOOLEAN : BookDiagnosed(forced)) \/ Look => FALSE
    BY <1>0 DEF BookPlain, BookDiagnosed, Look, Probes
  <1> QED BY <1>5, <1>6, <1>7, <1>8, <1>9, <1>10 DEF Effect

(***************************************************************************)
(* The invariant                                                           *)
(***************************************************************************)

LEMMA InitInv == ComparedInit => IInv
  <1> SUFFICES ASSUME ComparedInit PROVE IInv
    OBVIOUS
  <1>1. Typed
    BY TypedInit
  <1>2. StoppingInv
    BY StoppingInit
  <1>3. /\ phase \in {"warmup", "refit"} /\ idx = 0 /\ at = "next"
        /\ rows = {} /\ verdicts = {} /\ policy = Cold
        /\ recorder = [pending |-> {}, counts |-> NoCounts]
        /\ session = [start |-> None, baseline |-> NoCounts]
        /\ audit = [all |-> NoAudit, post |-> NoAudit]
        /\ probe = NoProbe /\ records = <<>> /\ trace = <<>>
        /\ tracker = [seen |-> FALSE, prev |-> Flags(Cold), events |-> {}]
        /\ marks = [hit |-> 0, calibrated |-> 0, response |-> Cold]
    BY DEF ComparedInit, DiagnosedInit, Init
  <1>4. ~Underway
    BY <1>3 DEF Underway
  <1>5. PolicyInv
    BY <1>3, <1>4, ColdType DEF PolicyInv
  <1>6. PairsInv
    BY <1>3, <1>4 DEF PairsInv
  <1>7. AuditInv
    BY <1>3, <1>4 DEF AuditInv
  <1>8. RowsInv
    BY <1>3, ColdType DEF RowsInv
  <1>9. RecordsInv
    <2>1. <<>> \in Seq(Range(<<>>)) /\ DOMAIN <<>> = {}
      OBVIOUS
    <2> QED BY <1>3, <2>1 DEF RecordsInv
  <1>10. LifecycleInv
    <2>1. FiniteAt = {}
      BY <1>3 DEF FiniteAt
    <2>2. tracker.prev.calibrated = FALSE /\ tracker.seen = FALSE
      BY <1>3, ColdType DEF Flags, Calibrated, Cold
    <2>3. /\ trace \in Seq([source : {"cache", "llm"}, calibrated : BOOLEAN])
          /\ Len(trace) = 0
      BY <1>3
    <2>4. marks \in [hit : Nat, calibrated : Nat, response : Policies] /\ marks.calibrated = 0
      BY <1>3, ColdType
    <2>5. /\ idx = Len(trace) /\ (tracker.seen <=> Len(trace) > 0)
          /\ marks.calibrated \in 0..Len(trace) /\ 1..Len(trace) = {}
          /\ phase = "refit" => Len(trace) = 0
      BY <1>3, <2>2, <2>3, <2>4
    <2>6. at # "handled" /\ tracker.prev.calibrated \in BOOLEAN
      BY <1>3, <2>2
    <2> QED BY <1>4, <2>1, <2>2, <2>3, <2>4, <2>5, <2>6 DEF LifecycleInv
  <1>11. EndInv
    BY <1>3 DEF EndInv
  <1> QED BY <1>1, <1>2, <1>5, <1>6, <1>7, <1>8, <1>9, <1>10, <1>11 DEF IInv

LEMMA NextInv == IInv /\ [ComparedNext]_<<vars, diagnosis, lifecycle>> => IInv'
  <1> SUFFICES ASSUME IInv, [ComparedNext]_<<vars, diagnosis, lifecycle>> PROVE IInv'
    OBVIOUS
  <1>1. /\ Typed /\ PolicyInv /\ PairsInv /\ AuditInv /\ StoppingInv
        /\ RowsInv /\ RecordsInv /\ LifecycleInv /\ EndInv
    BY DEF IInv
  <1>2. AnyStep
    BY <1>1, Steps
  <1>3. Effect
    BY <1>1, <1>2, Effects
  <1>4. Typed' /\ StoppingInv'
    BY <1>1, <1>2, TypedStep, StoppingStep
  <1>5. PolicyInv' /\ PairsInv' /\ AuditInv'
    BY <1>1, <1>3, PolicyStep, PairsStep, AuditStep
  <1>6. RowsInv' /\ RecordsInv'
    BY <1>1, <1>3, RowsStep, RecordsStep
  <1>7. LifecycleInv' /\ EndInv'
    BY <1>1, <1>3, LifecycleStep, EndStep
  <1> QED BY <1>4, <1>5, <1>6, <1>7 DEF IInv

\* The inductive invariant holds of every behaviour of the three replays: the
\* measured one, the diagnosed one and the comparison.
THEOREM Invariant == ComparedSpec => []IInv
  <1>1. ComparedInit => IInv
    BY InitInv
  <1>2. IInv /\ [ComparedNext]_<<vars, diagnosis, lifecycle>> => IInv'
    BY NextInv
  <1> QED BY <1>1, <1>2, PTL DEF ComparedSpec

(***************************************************************************)
(* Theorems                                                                *)
(***************************************************************************)

\* The state of run_one_system keeps its types, and its indices their streams.
THEOREM TypeCorrect == ComparedSpec => []TypeOK
  <1>1. IInv => TypeOK
    BY DEF IInv, Typed
  <1> QED BY <1>1, Invariant, PTL

\* audit_rows and the MetricsRecorder count the same true and false positives,
\* over the measured replay and over the active session.
THEOREM AuditMatches == ComparedSpec => []AuditAgrees
  <1>1. IInv => AuditAgrees
    BY DEF IInv, AuditInv, AuditAgrees
  <1> QED BY <1>1, Invariant, PTL

\* What counts after the baseline of cosine's active session was decided with a
\* threshold, however long its decision was before the accounting.
THEOREM CosineSessionActive == ComparedSpec => CosineSessionIsActive
  <1> DEFINE Reckoned == /\ phase = "measured" /\ session.start # None
                         /\ recorder'.counts # recorder.counts /\ options.method = "cosine"
  <1>1. ASSUME IInv, [ComparedNext]_<<vars, diagnosis, lifecycle>>
        PROVE  Reckoned => request.policy.finite
    <2>1. Typed /\ PolicyInv
      BY <1>1 DEF IInv
    <2>2. Effect
      BY <1>1, <2>1, Steps, Effects
    <2>3. phase = "measured" /\ recorder'.counts # recorder.counts => Underway
      BY <2>2 DEF Effect, Idle, Ask, Hears, Drops, Answer, Learn, BookPlain, BookDiagnosed,
         BookCompared, Book, Turn, Enter, Look, Underway
    <2> QED BY <2>1, <2>3 DEF PolicyInv, Active, Calibrated
  <1>2. ASSUME IInv, [ComparedNext]_<<vars, diagnosis, lifecycle>>
        PROVE  [Reckoned => request.policy.finite]_vars
    BY <1>1, <1>2
  <1> QED BY <1>2, Invariant, PTL DEF ComparedSpec, CosineSessionIsActive

\* The stopping controller freezes the policy only after as many stable checks
\* as patience asks for, none of them skipped, for any check_every and window.
THEOREM FrozenConverged == ComparedSpec => []FrozenMeansConverged
  <1>1. IInv => FrozenMeansConverged
    <2> SUFFICES ASSUME IInv, frozen PROVE FrozenMeansConverged
      BY DEF FrozenMeansConverged
    <2>1. /\ stopping.controller.checks \in Nat /\ stopping.controller.checks >= Patience
          /\ stopping.controller.checks > 0 =>
               \E first \in DOMAIN stopping.controller.history :
                  /\ Cardinality(ChecksFrom(first)) >= stopping.controller.checks
                  /\ \A i \in ChecksFrom(first) : StableAt(i)
          /\ stopping.controller.history \in Seq([threshold : Nat, rate : Rates])
      BY DEF IInv, StoppingInv
    <2>2. PICK first \in DOMAIN stopping.controller.history :
             /\ Cardinality(ChecksFrom(first)) >= stopping.controller.checks
             /\ \A i \in ChecksFrom(first) : StableAt(i)
      BY <2>1, StoppingConstants
    <2>3. Cardinality(ChecksFrom(first)) \in Nat
      <3>1. ChecksFrom(first) = ChecksOf(stopping.controller.history, first)
        BY DEF ChecksFrom, ChecksOf
      <3> QED BY <2>1, <3>1, ChecksFinite DEF Observations
    <2>4. Cardinality(ChecksFrom(first)) >= Patience
      BY <2>1, <2>2, <2>3, StoppingConstants
    <2> QED BY <2>2, <2>4 DEF FrozenMeansConverged, StableAt
  <1> QED BY <1>1, Invariant, PTL

\* aggregate_anchor_diagnostics finds in the records the true, false and
\* unjudged hits that resolve_request counted, and no other hits.
THEOREM DiagnosticsMatch == ComparedSpec => []DiagnosticsAgree
  <1>1. IInv => DiagnosticsAgree
    <2> SUFFICES ASSUME IInv, Measured, options.judge_cache PROVE DiagnosticsAgree
      BY DEF DiagnosticsAgree
    <2>1. /\ RawCounts.active_tp = Cardinality(Class("tp"))
          /\ RawCounts.active_fp = Cardinality(Class("fp"))
          /\ RawCounts.active_unjudged = Cardinality(Class("unjudged"))
          /\ RawCounts.served_hits = Cardinality({i \in DOMAIN records : records[i].hit})
      BY DEF RawCounts, CountIf, Class
    <2>2. RecordsInv
      BY DEF IInv
    <2>3. /\ Cardinality(Class("tp")) = recorder.counts.true_accepts
          /\ Cardinality(Class("fp")) = recorder.counts.false_accepts
          /\ Cardinality(Class("unjudged")) = recorder.counts.unjudged_accepts
      BY <2>2 DEF Measured, RecordsInv
    <2> QED BY <2>1, <2>2, <2>3, HitClasses DEF DiagnosticsAgree
  <1> QED BY <1>1, Invariant, PTL

\* The gold anchor of a request counts as available exactly when the warm-up or
\* an earlier miss stored it, and a false positive is put down to an absent
\* anchor only when nothing had.
THEOREM AttributionHistorical == ComparedSpec => []AttributionByHistory
  <1>1. IInv => AttributionByHistory
    <2> SUFFICES ASSUME IInv, Measured, NEW i \in DOMAIN records
                 PROVE  /\ records[i].available <=> records[i].gold \in Warm \cup Misses(i - 1)
                        /\ ServedClass(records[i]) = "fp" =>
                              (Attribution(records[i]) = "gold_anchor_absent"
                                 <=> records[i].gold \notin Warm \cup Misses(i - 1))
      BY DEF AttributionByHistory
    <2>1. records[i].available <=> records[i].gold \in Warm \cup Misses(i - 1)
      BY DEF Measured, IInv, RowsInv, Recorded, Stored
    <2>2. Attribution(records[i]) = "gold_anchor_absent" <=> ~records[i].available
      BY DEF Attribution
    <2> QED BY <2>1, <2>2
  <1> QED BY <1>1, Invariant, PTL

\* The tracker and the responses agree on when the threshold became finite,
\* up to the request in between, and no response was served before it.
THEOREM LifecycleMatches == ComparedSpec => []LifecycleAgrees
  <1>1. IInv => LifecycleAgrees
    <2> SUFFICES ASSUME IInv, Compares PROVE LifecycleAgrees
      BY DEF LifecycleAgrees, Between
    <2>1. PICK n \in Nat : n = Len(trace) /\ DOMAIN trace = 1..n
      BY DEF IInv, LifecycleInv
    <2>2. /\ \A i \in FiniteAt : /\ tracker.prev.calibrated
                                 /\ \/ marks.calibrated \in {i, i + 1}
                                    \/ marks.calibrated = 0 /\ n = i
          /\ FiniteAt = {} /\ tracker.prev.calibrated =>
               \/ marks.calibrated \in 1..2
               \/ marks.calibrated = 0 /\ n = 1
          /\ marks.calibrated # 0 => tracker.prev.calibrated
          /\ \A i \in 1..n : trace[i].source = "cache" => marks.calibrated \in 1..i
      BY <2>1 DEF IInv, LifecycleInv
    <2>3. FiniteAt = {} => marks.calibrated \in 0..2
      BY <2>2
    <2> QED BY <2>1, <2>2, <2>3 DEF LifecycleAgrees, FiniteAt
  <1> QED BY <1>1, Invariant, PTL

\* After a response from the cache no row of the dataset is replayed.
THEOREM HitEndsReplay == ComparedSpec => []ReplayEndsAtHit
  <1>1. IInv => ReplayEndsAtHit
    <2> SUFFICES ASSUME IInv, Compares, NEW i \in DOMAIN trace, trace[i].source = "cache",
                        NEW j \in i + 1..Len(trace)
                 PROVE  j <= options.main
      BY DEF ReplayEndsAtHit
    <2>1. /\ trace \in Seq([source : {"cache", "llm"}, calibrated : BOOLEAN])
          /\ idx = IF Underway THEN Len(trace) + 1 ELSE Len(trace)
      BY DEF IInv, LifecycleInv
    <2>2. \A k \in i + 1..idx : k <= options.main
      BY DEF IInv, EndInv
    <2>3. j \in i + 1..idx
      BY <2>1
    <2> QED BY <2>2, <2>3
  <1> QED BY <1>1, Invariant, PTL

(***************************************************************************)
(* The array that runs the replays                                         *)
(***************************************************************************)
\* The summaries of the scorer lists that share the directories of c.
Results(c) == [Methods -> Sharers(c)]
TaskDir(c, s) == DirOf([combo |-> c, seed |-> s])

JobType ==
  [at : {"guard", "task", "system", "running", "save", "artifacts", "touch"},
   combo : Combos, todo : (SUBSET Seeds) \ {{}}, method : Methods,
   results : [Methods -> Combos \cup {Nothing}], known : SUBSET JudgedPairs]
DirType ==
  [checkpoint : [Methods -> Combos \cup {Nothing}],
   summary : [Methods -> Combos] \cup {NoSystems, Torn},
   complete : BOOLEAN, cache : SUBSET JudgedPairs, torn : BOOLEAN]

\* A job is Off or under way.
Runs(w) == worker[w] # Off

ArrayTyped ==
  /\ disk \in [Dirs -> DirType]
  /\ sweep \in Sweeps
  /\ DOMAIN commands \subseteq Combos
  /\ \A c \in DOMAIN commands : commands[c] \in (SUBSET Seeds) \ {{}}
  /\ pending \subseteq DOMAIN commands
  /\ worker \in [Workers -> JobType \cup {Off}]
  /\ server \in [Nodes -> Workers \cup {Nothing}]
  /\ submitter \in {"idle", "waiting"}
  /\ table.partial \in BOOLEAN
  /\ kills \in 0..MaxKills /\ forces \in 0..MaxForces

\* A scorer list has one job, which waits or is on one worker, while the
\* submitter waits for its array.
JobsInv ==
  /\ \A w \in Workers : Runs(w) => worker[w].combo \notin pending
  /\ \A v, w \in Workers :
        v # w /\ Runs(v) /\ Runs(w) => worker[v].combo # worker[w].combo
  /\ submitter = "idle" => pending = {} /\ \A w \in Workers : ~Runs(w)

\* Unless a run was forced, a job has only tasks that are not complete, or that
\* the job of another list may have completed.
LeftInv ==
  forces = 0 =>
    /\ \A c \in pending : Alone(c) => \A s \in commands[c] : ~disk[TaskDir(c, s)].complete
    /\ \A w \in Workers : Runs(w) /\ Alone(worker[w].combo) =>
          \A s \in worker[w].todo : ~disk[TaskDir(worker[w].combo, s)].complete

\* What a directory holds for the scorer list c.
Holds(contents, c) ==
  /\ \A m \in Methods : contents.checkpoint[m] \in {Nothing} \cup Sharers(c)
  /\ contents.summary \in {NoSystems, Torn} \cup Results(c)
  /\ contents.complete =>
        /\ \A m \in Methods : contents.checkpoint[m] # Nothing
        /\ forces = 0 /\ Alone(c) => contents.summary \in Results(c)

DiskInv == \A c \in Combos, s \in Seeds : Holds(disk[TaskDir(c, s)], c)

\* How far a job is with the task whose directory has these contents; alone in
\* it, a job knows the judgements in it and finds the summary it has written.
Progress(job, contents) ==
  /\ job.at \in {"guard", "task"} => job.method = "ensemble"
  /\ job.at \in {"system", "running", "save"} /\ job.method = "cosine" =>
        job.results["ensemble"] \in Sharers(job.combo) /\ contents.checkpoint["ensemble"] # Nothing
  /\ job.at \in {"artifacts", "touch"} =>
        job.results \in Results(job.combo) /\ \A m \in Methods : contents.checkpoint[m] # Nothing
  /\ job.at = "touch" /\ Alone(job.combo) => contents.summary \in Results(job.combo)
  /\ job.at \in {"system", "running", "save"} /\ Alone(job.combo) => contents.cache \subseteq job.known

ProgressInv == \A w \in Workers : Runs(w) => Progress(worker[w], disk[Dir(w)])

ArrayInv ==
  /\ ArrayTyped
  /\ JobsInv
  /\ LeftInv
  /\ DiskInv
  /\ ProgressInv
  /\ TableIsWhole

\* A nonempty finite set of integers has a least one.
LEMMA LeastExists ==
  ASSUME NEW S, S \subseteq Int, IsFiniteSet(S), S # {}
  PROVE  \E s \in S : \A r \in S : s <= r
  <1> DEFINE R == StrictSubsetOrdering(S)
             UpTo(s) == {r \in S : r <= s}
             Parts == {UpTo(s) : s \in S}
  <1>1. IsWellFoundedOn(R, FiniteSubsetsOf(S))
    BY FS_StrictSubsetOrderingWellFounded
  <1>2. Parts \subseteq FiniteSubsetsOf(S)
    <2> SUFFICES ASSUME NEW s \in S PROVE UpTo(s) \in FiniteSubsetsOf(S)
      OBVIOUS
    <2>1. UpTo(s) \in SUBSET S /\ IsFiniteSet(UpTo(s))
      BY FS_Subset
    <2> QED BY <2>1 DEF FiniteSubsetsOf
  <1>3. Parts # {}
    OBVIOUS
  <1>4. PICK x \in Parts : \A y \in Parts : ~ (<<y, x>> \in R)
    <2> HIDE DEF R, Parts
    <2> QED BY <1>1, <1>2, <1>3, WFMin
  <1>5. PICK s \in S : x = UpTo(s)
    OBVIOUS
  <1>6. ASSUME NEW r \in S, ~(s <= r) PROVE FALSE
    <2>1. s \in Int /\ r \in Int /\ r < s
      BY <1>6
    <2>2. UpTo(r) \subseteq UpTo(s) /\ s \in UpTo(s) /\ s \notin UpTo(r)
      <3>1. \A q \in S : q \in Int /\ (q <= r => q <= s)
        BY <2>1
      <3>2. s <= s /\ ~(s <= r)
        BY <2>1
      <3> QED BY <3>1, <3>2
    <2>3. UpTo(r) \in SUBSET S /\ UpTo(s) \in SUBSET S /\ UpTo(r) # UpTo(s)
      BY <2>2
    <2>4. <<UpTo(r), x>> \in R
      BY <1>5, <2>2, <2>3 DEF StrictSubsetOrdering
    <2> QED BY <1>4, <2>4
  <1> QED BY <1>6

LEMMA TaskDirs ==
  ASSUME NEW c \in Combos, NEW s \in Seeds
  PROVE  TaskDir(c, s) \in Dirs
  BY DEF TaskDir, Dirs, Tasks

\* Two tasks in one directory have one seed and the same sharers, and if one
\* list is alone there it is the other's as well.
LEMMA SameDirs ==
  ASSUME NEW c \in Combos, NEW d \in Combos, NEW s \in Seeds, NEW r \in Seeds,
         TaskDir(c, s) = TaskDir(d, r)
  PROVE  s = r /\ Sharers(c) = Sharers(d) /\ (Alone(c) => c = d) /\ (Alone(d) => c = d)
  <1>1. s = r /\ FirstScorer[c] = FirstScorer[d]
    BY DEF TaskDir, DirOf
  <1>2. Sharers(c) = Sharers(d) /\ c \in Sharers(c) /\ d \in Sharers(c)
    BY <1>1 DEF Sharers
  <1> QED BY <1>1, <1>2 DEF Alone

\* A list shares its own directory, with lists only.
LEMMA SharersAre ==
  ASSUME NEW c \in Combos
  PROVE  c \in Sharers(c) /\ Sharers(c) \subseteq Combos /\ Nothing \notin Sharers(c)
  BY ArrayAssumption DEF Sharers

\* The task that a job is at is one it has still to do.
LEMMA JobsTask ==
  ASSUME ArrayTyped, NEW w \in Workers, Runs(w)
  PROVE  /\ worker[w] \in JobType /\ worker[w].combo \in Combos
         /\ TaskOf(w) = [combo |-> worker[w].combo, seed |-> TaskOf(w).seed]
         /\ TaskOf(w).seed \in worker[w].todo
         /\ TaskOf(w).seed \in Seeds
         /\ Dir(w) = TaskDir(worker[w].combo, TaskOf(w).seed)
         /\ Dir(w) \in Dirs
         /\ disk[Dir(w)] \in DirType
  <1>1. worker[w] \in JobType
    BY DEF ArrayTyped, Runs
  <1>2. worker[w].todo \subseteq Seeds /\ worker[w].todo # {} /\ worker[w].combo \in Combos
    BY <1>1 DEF JobType
  <1>3. Seeds \subseteq Int /\ IsFiniteSet(Seeds)
    BY ArrayAssumption
  <1>4. \E s \in worker[w].todo : \A r \in worker[w].todo : s <= r
    <2>1. worker[w].todo \subseteq Int /\ IsFiniteSet(worker[w].todo)
      BY <1>2, <1>3, FS_Subset
    <2> QED BY <1>2, <2>1, LeastExists
  <1>5. SmallestOf(worker[w].todo) \in worker[w].todo
    BY <1>4 DEF SmallestOf
  <1>6. TaskOf(w) = [combo |-> worker[w].combo, seed |-> SmallestOf(worker[w].todo)]
    BY DEF TaskOf
  <1>7. Dir(w) = TaskDir(worker[w].combo, TaskOf(w).seed)
    BY <1>6 DEF Dir, TaskDir
  <1>8. TaskOf(w).seed \in worker[w].todo /\ TaskOf(w).seed \in Seeds
    BY <1>2, <1>5, <1>6
  <1>9. Dir(w) \in Dirs
    BY <1>2, <1>7, <1>8, TaskDirs
  <1> QED BY <1>1, <1>2, <1>6, <1>7, <1>8, <1>9 DEF ArrayTyped

\* Nothing takes a checkpoint away.
Grows(before, after) ==
  \A m \in Methods : before.checkpoint[m] # Nothing => after.checkpoint[m] # Nothing

\* What a directory holds for a list it holds for every other one that shares it.
LEMMA HoldsForSharers ==
  ASSUME NEW c \in Combos, NEW d \in Combos, NEW contents,
         Sharers(c) = Sharers(d), Alone(c) => c = d, Holds(contents, d)
  PROVE  Holds(contents, c)
  <1>1. Results(c) = Results(d)
    BY DEF Results
  <1>2. Alone(c) => Alone(d)
    BY DEF Alone
  <1> QED BY <1>1, <1>2 DEF Holds

\* What a job has reached stays when another job works in its directory.
LEMMA ProgressStays ==
  ASSUME NEW job, NEW before, NEW after, Progress(job, before), Grows(before, after),
         ~Alone(job.combo)
  PROVE  Progress(job, after)
  <1>1. "ensemble" \in Methods
    BY DEF Methods
  <1> QED BY <1>1 DEF Progress, Grows

\* A step of the job on w: what the job becomes and what its directory holds
\* then keep the invariant.
LEMMA JobStep ==
  ASSUME ArrayInv,
         NEW w \in Workers, Runs(w), NEW job, NEW contents,
         worker' = [worker EXCEPT ![w] = job],
         disk' = [disk EXCEPT ![Dir(w)] = contents],
         job \in JobType \cup {Off}, contents \in DirType,
         job # Off =>
           /\ job.combo = worker[w].combo /\ job.todo \subseteq worker[w].todo
           /\ contents.complete => disk[Dir(w)].complete \/ TaskOf(w).seed \notin job.todo
           /\ job.at = "task" \/ job.todo = worker[w].todo
           /\ Progress(job, contents),
         Holds(contents, worker[w].combo), Grows(disk[Dir(w)], contents),
         server' \in [Nodes -> Workers \cup {Nothing}], kills' \in 0..MaxKills,
         UNCHANGED <<commands, pending, submitter, sweep, table, forces>>
  PROVE  ArrayInv'
  <1> DEFINE combo == worker[w].combo
             seed == TaskOf(w).seed
             dir == Dir(w)
  <1>1. /\ worker[w] \in JobType /\ combo \in Combos /\ seed \in worker[w].todo /\ seed \in Seeds
        /\ dir = TaskDir(combo, seed) /\ dir \in Dirs /\ disk[dir] \in DirType
    BY JobsTask DEF ArrayInv
  <1>2. /\ worker \in [Workers -> JobType \cup {Off}] /\ disk \in [Dirs -> DirType]
        /\ worker'[w] = job /\ disk'[dir] = contents
        /\ \A v \in Workers : v # w => worker'[v] = worker[v]
        /\ \A d \in Dirs : d # dir => disk'[d] = disk[d]
    BY <1>1 DEF ArrayInv, ArrayTyped
  <1>3. \A c \in Combos, s \in Seeds :
           \/ TaskDir(c, s) # dir /\ disk'[TaskDir(c, s)] = disk[TaskDir(c, s)]
           \/ /\ s = seed /\ Sharers(c) = Sharers(combo) /\ (Alone(c) => c = combo)
              /\ TaskDir(c, s) = dir
    <2> TAKE c \in Combos, s \in Seeds
    <2>1. CASE TaskDir(c, s) = dir
      <3>1. PICK d \in Combos, r \in Seeds : d = combo /\ r = seed
        BY <1>1
      <3>2. TaskDir(c, s) = TaskDir(d, r)
        BY <1>1, <2>1, <3>1
      <3>3. s = r /\ Sharers(c) = Sharers(d) /\ (Alone(c) => c = d)
        BY <3>2, SameDirs
      <3> QED BY <2>1, <3>1, <3>3
    <2>2. CASE TaskDir(c, s) # dir
      BY <1>2, <2>2, TaskDirs
    <2> QED BY <2>1, <2>2
  <1>4. /\ submitter' = submitter /\ sweep' = sweep /\ pending' = pending /\ commands' = commands
        /\ table' = table /\ forces' = forces
    OBVIOUS
  <1>5. ArrayTyped'
    BY <1>1, <1>2 DEF ArrayInv, ArrayTyped
  <1>6. \A v \in Workers : Runs(v)' =>
           /\ Runs(v) /\ worker'[v].combo = worker[v].combo
           /\ worker'[v].todo \subseteq worker[v].todo
    BY <1>2 DEF Runs
  <1>7. JobsInv'
    BY <1>4, <1>6 DEF ArrayInv, JobsInv
  <1>8. \A v \in Workers : v # w /\ Runs(v) => worker[v].combo # combo
    BY DEF ArrayInv, JobsInv
  <1>9. LeftInv'
    <2> SUFFICES ASSUME forces = 0
                 PROVE  /\ \A c \in pending' : Alone(c) =>
                              \A s \in commands'[c] : ~disk'[TaskDir(c, s)].complete
                        /\ \A v \in Workers : Runs(v)' /\ Alone(worker'[v].combo) =>
                              \A s \in worker'[v].todo : ~disk'[TaskDir(worker'[v].combo, s)].complete
      BY <1>4 DEF LeftInv, TaskDir, DirOf, Alone, Sharers
    <2>1. ASSUME NEW c \in pending, Alone(c), NEW s \in commands[c]
          PROVE  ~disk'[TaskDir(c, s)].complete
      <3>1. c \in Combos /\ s \in Seeds /\ c # combo
        BY DEF ArrayInv, ArrayTyped, JobsInv
      <3>2. ~disk[TaskDir(c, s)].complete
        BY <2>1 DEF ArrayInv, LeftInv
      <3> QED BY <1>3, <2>1, <3>1, <3>2
    <2>2. ASSUME NEW v \in Workers, Runs(v)', Alone(worker'[v].combo), NEW s \in worker'[v].todo
          PROVE  ~disk'[TaskDir(worker'[v].combo, s)].complete
      <3>1. Runs(v) /\ worker'[v].combo = worker[v].combo /\ s \in worker[v].todo
        BY <1>6, <2>2
      <3>2. worker[v].combo \in Combos /\ s \in Seeds
        <4>1. worker[v] \in JobType
          BY <1>2, <3>1 DEF Runs
        <4> QED BY <3>1, <4>1 DEF JobType
      <3>3. ~disk[TaskDir(worker[v].combo, s)].complete
        BY <2>2, <3>1 DEF ArrayInv, LeftInv
      <3>4. CASE v = w /\ s = seed
        <4>1. job # Off /\ s \in job.todo
          BY <1>2, <2>2, <3>4 DEF Runs
        <4>2. ~contents.complete
          BY <1>1, <3>3, <3>4, <4>1
        <4> QED BY <1>1, <1>2, <3>1, <3>4, <4>2
      <3>5. CASE v # w \/ s # seed
        <4>1. PICK c \in Combos : c = worker[v].combo
          BY <3>2
        <4>2. c # combo \/ s # seed
          BY <1>8, <3>1, <3>5, <4>1
        <4>3. Alone(c)
          BY <2>2, <3>1, <4>1
        <4> QED BY <1>3, <3>1, <3>2, <3>3, <4>1, <4>2, <4>3
      <3> QED BY <3>4, <3>5
    <2> QED BY <1>4, <2>1, <2>2
  <1>10. DiskInv'
    <2> SUFFICES ASSUME NEW c \in Combos, NEW s \in Seeds
                 PROVE  Holds(disk[TaskDir(c, s)], c)'
      BY DEF DiskInv, TaskDir, DirOf
    <2>1. CASE TaskDir(c, s) = dir
      <3>1. PICK d \in Combos : d = combo
        BY <1>1
      <3>2. Sharers(c) = Sharers(d) /\ (Alone(c) => c = d) /\ Holds(contents, d)
        BY <1>3, <2>1, <3>1
      <3>3. Holds(contents, c)
        BY <3>2, HoldsForSharers
      <3>4. disk'[TaskDir(c, s)] = contents
        BY <1>1, <1>2, <2>1
      <3> QED BY <1>4, <3>3, <3>4 DEF Holds, TaskDir, DirOf, Alone, Sharers, Results
    <2>2. CASE TaskDir(c, s) # dir
      <3>1. disk'[TaskDir(c, s)] = disk[TaskDir(c, s)]
        BY <1>3, <2>2
      <3>2. Holds(disk[TaskDir(c, s)], c)
        BY DEF ArrayInv, DiskInv
      <3> QED BY <1>4, <3>1, <3>2 DEF Holds, TaskDir, DirOf, Alone, Sharers, Results
    <2> QED BY <2>1, <2>2
  <1>11. ProgressInv'
    <2> SUFFICES ASSUME NEW v \in Workers, Runs(v)'
                 PROVE  Progress(worker[v], disk[Dir(v)])'
      BY DEF ProgressInv
    <2>1. CASE v = w
      <3>1. job # Off /\ Progress(job, contents)
        BY <1>2, <2>1 DEF Runs
      <3>2. CASE job.at = "task"
        BY <1>2, <2>1, <3>1, <3>2 DEF Progress
      <3>3. CASE job.todo = worker[w].todo
        <4>1. Dir(w)' = dir
          BY <1>2, <3>1, <3>3 DEF Dir, TaskOf, DirOf
        <4>2. disk'[Dir(w)'] = contents
          BY <1>2, <4>1
        <4> QED BY <1>2, <2>1, <3>1, <4>2 DEF Progress, Alone, Sharers, Results
      <3> QED BY <3>1, <3>2, <3>3
    <2>2. CASE v # w
      <3>1. worker'[v] = worker[v] /\ Runs(v)
        BY <1>2, <1>6, <2>2
      <3>2. Progress(worker[v], disk[Dir(v)])
        BY <3>1 DEF ArrayInv, ProgressInv
      <3>3. Dir(v)' = Dir(v)
        BY <3>1 DEF Dir, TaskOf, DirOf
      <3>4. /\ worker[v].combo \in Combos /\ TaskOf(v).seed \in Seeds /\ Dir(v) \in Dirs
            /\ Dir(v) = TaskDir(worker[v].combo, TaskOf(v).seed)
        BY <3>1, JobsTask DEF ArrayInv
      <3>5. PICK was, is : was = disk[Dir(v)] /\ is = disk'[Dir(v)]
        OBVIOUS
      <3>6. Progress(worker[v], is)
        <4>1. CASE Dir(v) # dir
          BY <1>2, <3>2, <3>4, <3>5, <4>1
        <4>2. CASE Dir(v) = dir
          <5>1. PICK c \in Combos, s \in Seeds : c = worker[v].combo /\ s = TaskOf(v).seed
            BY <3>4
          <5>2. ~Alone(c)
            BY <1>3, <1>8, <2>2, <3>1, <3>4, <4>2, <5>1
          <5>3. Grows(was, is)
            BY <1>2, <3>5, <4>2
          <5>4. Progress(worker[v], was)
            BY <3>2, <3>5
          <5>5. PICK job0 : job0 = worker[v]
            OBVIOUS
          <5> QED BY <5>1, <5>2, <5>3, <5>4, <5>5, ProgressStays
        <4> QED BY <4>1, <4>2
      <3>7. disk'[Dir(v)'] = is
        BY <3>3, <3>5
      <3> QED BY <3>1, <3>6, <3>7 DEF Progress, Alone, Sharers, Results
    <2> QED BY <2>1, <2>2
  <1>12. TableIsWhole'
    BY <1>4 DEF ArrayInv, TableIsWhole, SweepTasks, Tasks
  <1> QED BY <1>5, <1>7, <1>9, <1>10, <1>11, <1>12 DEF ArrayInv

\* Where a job is and what its directory holds, at a step that is not its first.
LEMMA JobAt ==
  ASSUME ArrayInv, NEW w \in Workers,
         NEW point, At(w, point), point # "off"
  PROVE  /\ Runs(w) /\ worker[w] \in JobType /\ worker[w].at = point
         /\ Dir(w) \in Dirs /\ disk[Dir(w)] \in DirType
         /\ Holds(disk[Dir(w)], worker[w].combo)
         /\ Progress(worker[w], disk[Dir(w)])
  <1>1. Runs(w) /\ worker[w].at = point
    BY DEF Runs, At, Off
  <1>2. /\ worker[w] \in JobType /\ worker[w].combo \in Combos /\ TaskOf(w).seed \in Seeds
        /\ Dir(w) = TaskDir(worker[w].combo, TaskOf(w).seed)
        /\ Dir(w) \in Dirs /\ disk[Dir(w)] \in DirType
    BY <1>1, JobsTask DEF ArrayInv
  <1>3. PICK c \in Combos, s \in Seeds : c = worker[w].combo /\ s = TaskOf(w).seed
    BY <1>2
  <1>4. Holds(disk[TaskDir(c, s)], c)
    BY DEF ArrayInv, DiskInv
  <1>5. Progress(worker[w], disk[Dir(w)])
    BY <1>1 DEF ArrayInv, ProgressInv
  <1> QED BY <1>1, <1>2, <1>3, <1>4, <1>5

\* A job that is at another point, or knows more, or has other results.
LEMMA JobGetsOn ==
  ASSUME ArrayInv, NEW w \in Workers, Runs(w),
         NEW job \in JobType, NEW contents \in DirType,
         worker' = [worker EXCEPT ![w] = job],
         disk' = [disk EXCEPT ![Dir(w)] = contents] \/ (disk' = disk /\ contents = disk[Dir(w)]),
         job.combo = worker[w].combo, job.todo = worker[w].todo,
         contents.complete = disk[Dir(w)].complete,
         Progress(job, contents), Holds(contents, worker[w].combo),
         Grows(disk[Dir(w)], contents),
         server' \in [Nodes -> Workers \cup {Nothing}],
         UNCHANGED <<commands, pending, submitter, sweep, table, kills, forces>>
  PROVE  ArrayInv'
  <1>1. disk' = [disk EXCEPT ![Dir(w)] = contents]
    BY DEF ArrayInv, ArrayTyped
  <1>2. kills' \in 0..MaxKills
    BY DEF ArrayInv, ArrayTyped
  <1> QED BY <1>1, <1>2, JobStep

\* A job that is over, whatever it was doing to its directory.
LEMMA JobIsOver ==
  ASSUME ArrayInv, NEW w \in Workers, Runs(w),
         NEW contents \in DirType, ScriptExits(w),
         disk' = [disk EXCEPT ![Dir(w)] = contents] \/ (disk' = disk /\ contents = disk[Dir(w)]),
         Holds(contents, worker[w].combo), Grows(disk[Dir(w)], contents),
         kills' \in 0..MaxKills,
         UNCHANGED <<commands, pending, submitter, sweep, table, forces>>
  PROVE  ArrayInv'
  <1>1. disk' = [disk EXCEPT ![Dir(w)] = contents]
    BY DEF ArrayInv, ArrayTyped
  <1>2. worker' = [worker EXCEPT ![w] = Off]
    BY DEF ScriptExits, Becomes
  <1>3. server' \in [Nodes -> Workers \cup {Nothing}]
    BY DEF ScriptExits, ArrayInv, ArrayTyped
  <1> QED BY <1>1, <1>2, <1>3, JobStep

\* The steps that leave the directory alone and the results as they are.
LEMMA PlainSteps ==
  ASSUME ArrayInv, NEW w \in Workers,
         EnsureServer(w) \/ RunSystem(w) \/ FinishSystem(w)
  PROVE  ArrayInv'
  <1>1. PICK point \in {"task", "running", "save"} :
           /\ Moves(w, point)
           /\ UNCHANGED <<disk, commands, pending, submitter, sweep, table, kills, forces>>
           /\ \/ At(w, "guard") /\ point = "task"
              \/ At(w, "system") /\ point = "running"
              \/ At(w, "running") /\ point = "save"
    BY DEF EnsureServer, RunSystem, FinishSystem
  <1>2. PICK before \in {"guard", "system", "running"} : At(w, before)
    BY <1>1
  <1>3. /\ Runs(w) /\ worker[w] \in JobType /\ worker[w].at = before
        /\ disk[Dir(w)] \in DirType
        /\ Holds(disk[Dir(w)], worker[w].combo)
        /\ Progress(worker[w], disk[Dir(w)])
    BY <1>2, JobAt
  <1> DEFINE job == [worker[w] EXCEPT !.at = point]
             contents == disk[Dir(w)]
  <1>4. /\ job \in JobType /\ job.at = point /\ job.combo = worker[w].combo
        /\ job.todo = worker[w].todo /\ job.method = worker[w].method
        /\ job.results = worker[w].results /\ job.known = worker[w].known
    BY <1>1, <1>3 DEF JobType
  <1>5. worker' = [worker EXCEPT ![w] = job]
    BY <1>1 DEF Moves, Becomes
  <1>6. server' \in [Nodes -> Workers \cup {Nothing}]
    <2>1. CASE EnsureServer(w)
      BY <2>1 DEF EnsureServer, ArrayInv, ArrayTyped
    <2>2. CASE RunSystem(w) \/ FinishSystem(w)
      BY <2>2 DEF RunSystem, FinishSystem, ArrayInv, ArrayTyped
    <2> QED BY <2>1, <2>2
  <1> HIDE DEF job
  <1>7. Progress(job, contents)
    <2>1. \/ before = "guard" /\ point = "task"
          \/ before = "system" /\ point = "running"
          \/ before = "running" /\ point = "save"
      BY <1>1, <1>3 DEF At
    <2> QED BY <1>3, <1>4, <2>1 DEF Progress
  <1>8. Grows(disk[Dir(w)], contents)
    BY DEF Grows
  <1> QED BY <1>1, <1>3, <1>4, <1>5, <1>6, <1>7, <1>8, JobGetsOn

LEMMA StartTaskStep ==
  ASSUME ArrayInv, NEW w \in Workers, StartTask(w)
  PROVE  ArrayInv'
  <1>1. /\ Runs(w) /\ worker[w] \in JobType /\ worker[w].at = "task"
        /\ disk[Dir(w)] \in DirType
        /\ Holds(disk[Dir(w)], worker[w].combo)
        /\ Progress(worker[w], disk[Dir(w)])
    BY JobAt DEF StartTask
  <1> DEFINE known == LoadJudgements(w)
             job == [worker[w] EXCEPT !.at = "system", !.known = known]
             contents == disk[Dir(w)]
  <1>2. known \in SUBSET JudgedPairs
    BY <1>1 DEF LoadJudgements, DirType
  <1>3. worker' = [worker EXCEPT ![w] = job]
    BY DEF StartTask, Becomes
  <1> HIDE DEF known
  <1>4. /\ job \in JobType /\ job.at = "system" /\ job.combo = worker[w].combo
        /\ job.todo = worker[w].todo /\ job.method = "ensemble" /\ job.known = contents.cache
    BY <1>1, <1>2 DEF JobType, Progress, known, LoadJudgements
  <1> HIDE DEF job
  <1>5. Progress(job, contents)
    BY <1>4 DEF Progress
  <1>6. /\ disk' = disk /\ UNCHANGED <<commands, pending, submitter, sweep, table, kills, forces>>
        /\ server' \in [Nodes -> Workers \cup {Nothing}]
    BY DEF StartTask, ArrayInv, ArrayTyped
  <1>7. Grows(disk[Dir(w)], contents)
    BY DEF Grows
  <1> QED BY <1>1, <1>3, <1>4, <1>5, <1>6, <1>7, JobGetsOn

LEMMA JudgeStep ==
  ASSUME ArrayInv, NEW w \in Workers, NEW pair \in JudgedPairs,
         JudgePair(w, pair)
  PROVE  ArrayInv'
  <1>1. /\ Runs(w) /\ worker[w] \in JobType /\ worker[w].at = "running"
        /\ disk[Dir(w)] \in DirType
        /\ Holds(disk[Dir(w)], worker[w].combo)
        /\ Progress(worker[w], disk[Dir(w)])
    BY JobAt DEF JudgePair
  <1> DEFINE job == [worker[w] EXCEPT !.known = worker[w].known \cup {pair}]
             contents == Appended(disk[Dir(w)], pair)
  <1>2. worker' = [worker EXCEPT ![w] = job] /\ disk' = [disk EXCEPT ![Dir(w)] = contents]
    BY DEF JudgePair, Becomes, Writes
  <1>3. /\ job \in JobType /\ job.at = "running" /\ job.combo = worker[w].combo
        /\ job.todo = worker[w].todo /\ job.method = worker[w].method
        /\ job.results = worker[w].results /\ job.known = worker[w].known \cup {pair}
    BY <1>1 DEF JobType
  <1>4. /\ contents \in DirType /\ contents.checkpoint = disk[Dir(w)].checkpoint
        /\ contents.summary = disk[Dir(w)].summary
        /\ contents.complete = disk[Dir(w)].complete
        /\ contents.cache \subseteq disk[Dir(w)].cache \cup {pair}
    <2>1. CASE disk[Dir(w)].torn
      BY <1>1, <2>1 DEF Appended, DirType
    <2>2. CASE ~disk[Dir(w)].torn
      BY <1>1, <2>2 DEF Appended, DirType
    <2> QED BY <2>1, <2>2
  <1> HIDE DEF job, contents
  <1>5. Progress(job, contents)
    BY <1>1, <1>3, <1>4 DEF Progress
  <1>6. Holds(contents, worker[w].combo)
    BY <1>1, <1>4 DEF Holds
  <1>7. /\ UNCHANGED <<commands, pending, submitter, sweep, table, kills, forces>>
        /\ server' \in [Nodes -> Workers \cup {Nothing}]
    BY DEF JudgePair, ArrayInv, ArrayTyped
  <1>8. Grows(disk[Dir(w)], contents)
    BY <1>4 DEF Grows
  <1> QED BY <1>1, <1>2, <1>3, <1>4, <1>5, <1>6, <1>7, <1>8, JobGetsOn

\* What a job becomes when one of its systems is done.
NextJob(old, result) ==
  [old EXCEPT !.results[old.method] = result, !.method = "cosine",
              !.at = IF old.method = "ensemble" THEN "system" ELSE "artifacts"]

\* The result of a system is that of a list with the job's directory, and it is
\* saved.
LEMMA NextSystemProgress ==
  ASSUME NEW old \in JobType, NEW contents \in DirType, NEW before \in DirType,
         old.at \in {"system", "save"}, Progress(old, before), Grows(before, contents),
         NEW result \in Sharers(old.combo),
         contents.checkpoint[old.method] # Nothing, contents.cache = before.cache,
         NEW job, job = NextJob(old, result)
  PROVE  /\ job \in JobType /\ job.combo = old.combo /\ job.todo = old.todo
         /\ Progress(job, contents)
  <1>1. /\ old.method \in {"ensemble", "cosine"} /\ old.combo \in Combos
        /\ old.results \in [{"ensemble", "cosine"} -> Combos \cup {Nothing}]
        /\ result \in Combos
    BY SharersAre DEF JobType, Methods
  <1> DEFINE results == [old.results EXCEPT ![old.method] = result]
             point == IF old.method = "ensemble" THEN "system" ELSE "artifacts"
  <1>2. /\ results \in [{"ensemble", "cosine"} -> Combos \cup {Nothing}]
        /\ results[old.method] = result
        /\ \A m \in {"ensemble", "cosine"} : m # old.method => results[m] = old.results[m]
    BY <1>1
  <1>3. job = [old EXCEPT !.results = results, !.method = "cosine", !.at = point]
    BY DEF NextJob
  <1>4. point \in {"system", "artifacts"}
    OBVIOUS
  <1> HIDE DEF results, point
  <1>5. /\ job \in JobType /\ job.combo = old.combo /\ job.todo = old.todo
        /\ job.results = results /\ job.method = "cosine" /\ job.at = point
        /\ job.known = old.known
    BY <1>2, <1>3, <1>4 DEF JobType, Methods
  <1>6. Alone(job.combo) => contents.cache \subseteq job.known
    BY <1>5 DEF Progress
  <1>7. CASE old.method = "ensemble"
    <2>1. job.at = "system" /\ job.results["ensemble"] \in Sharers(job.combo)
      BY <1>2, <1>5, <1>7 DEF point
    <2> QED BY <1>5, <1>6, <1>7, <2>1 DEF Progress
  <1>8. CASE old.method = "cosine"
    <2>1. job.at = "artifacts"
      BY <1>5, <1>8 DEF point
    <2>2. old.results["ensemble"] \in Sharers(old.combo) /\ before.checkpoint["ensemble"] # Nothing
      BY <1>8 DEF Progress
    <2>3. job.results \in Results(job.combo)
      <3>1. \A m \in {"ensemble", "cosine"} : results[m] \in Sharers(old.combo)
        BY <1>2, <1>8, <2>2
      <3>2. results \in [{"ensemble", "cosine"} -> Sharers(old.combo)]
        BY <1>2, <3>1
      <3> QED BY <1>5, <3>2 DEF Results, Methods
    <2>4. \A m \in Methods : contents.checkpoint[m] # Nothing
      BY <1>8, <2>2 DEF Methods, Grows
    <2> QED BY <1>5, <1>6, <2>1, <2>3, <2>4 DEF Progress
  <1> QED BY <1>1, <1>5, <1>7, <1>8

LEMMA CheckpointStep ==
  ASSUME ArrayInv, NEW w \in Workers,
         LoadCheckpoint(w) \/ SaveCheckpoint(w)
  PROVE  ArrayInv'
  <1>1. PICK point \in {"system", "save"} : At(w, point)
    BY DEF LoadCheckpoint, SaveCheckpoint
  <1>2. /\ Runs(w) /\ worker[w] \in JobType /\ worker[w].at = point
        /\ disk[Dir(w)] \in DirType
        /\ Holds(disk[Dir(w)], worker[w].combo)
        /\ Progress(worker[w], disk[Dir(w)])
    BY <1>1, JobAt
  <1> DEFINE old == worker[w]
             before == disk[Dir(w)]
  <1>3. /\ UNCHANGED <<commands, pending, submitter, sweep, table, kills, forces>>
        /\ server' \in [Nodes -> Workers \cup {Nothing}]
    BY DEF LoadCheckpoint, SaveCheckpoint, ArrayInv, ArrayTyped
  <1>4. /\ old.method \in Methods /\ old.combo \in Combos /\ old.combo # Nothing
        /\ old.combo \in Sharers(old.combo) /\ Nothing \notin Sharers(old.combo)
        /\ Sharers(old.combo) \subseteq Combos
    BY <1>2, ArrayAssumption, SharersAre DEF JobType
  <1>5. CASE LoadCheckpoint(w)
    <2> DEFINE saved == before.checkpoint[old.method]
               job == NextJob(old, saved)
    <2>1. saved \in Sharers(old.combo) /\ saved # Nothing
      BY <1>2, <1>4, <1>5 DEF LoadCheckpoint, Holds
    <2>0. Grows(before, before)
      BY DEF Grows
    <2>2. worker' = [worker EXCEPT ![w] = job] /\ disk' = disk
      BY <1>5 DEF LoadCheckpoint, NextSystem, Becomes, NextJob
    <2>3. /\ job \in JobType /\ job.combo = old.combo /\ job.todo = old.todo
          /\ Progress(job, before)
      <3>1. PICK was \in JobType, held \in DirType : was = old /\ held = before
        BY <1>2
      <3>2. PICK result \in Sharers(was.combo) : result = saved
        BY <2>1, <3>1
      <3>3. PICK next : next = NextJob(was, result)
        OBVIOUS
      <3>4. Progress(was, held) /\ Grows(held, held) /\ held.checkpoint[was.method] # Nothing
        BY <1>2, <2>0, <2>1, <3>1
      <3>5. was.at \in {"system", "save"}
        BY <1>2, <3>1
      <3>6. /\ next \in JobType /\ next.combo = was.combo /\ next.todo = was.todo
            /\ Progress(next, held)
        BY <3>3, <3>4, <3>5, NextSystemProgress
      <3> QED BY <3>1, <3>2, <3>3, <3>6
    <2> HIDE DEF job
    <2> QED BY <1>2, <1>3, <2>0, <2>2, <2>3, JobGetsOn
  <1>6. CASE SaveCheckpoint(w)
    <2> DEFINE job == NextJob(old, old.combo)
               checkpoint == [before.checkpoint EXCEPT ![old.method] = old.combo]
               contents == [before EXCEPT !.checkpoint = checkpoint]
    <2>1. worker' = [worker EXCEPT ![w] = job] /\ disk' = [disk EXCEPT ![Dir(w)] = contents]
      BY <1>6 DEF SaveCheckpoint, NextSystem, Becomes, Writes, NextJob
    <2>2. /\ checkpoint \in [Methods -> Combos \cup {Nothing}]
          /\ checkpoint[old.method] = old.combo
          /\ \A m \in Methods : m # old.method => checkpoint[m] = before.checkpoint[m]
      BY <1>2, <1>4 DEF DirType
    <2> HIDE DEF checkpoint
    <2>3. /\ contents \in DirType /\ contents.checkpoint = checkpoint
          /\ contents.summary = before.summary /\ contents.complete = before.complete
          /\ contents.cache = before.cache
      BY <1>2, <2>2 DEF DirType
    <2> HIDE DEF job, contents
    <2>4. Grows(before, contents)
      BY <1>4, <2>2, <2>3 DEF Grows
    <2>5. contents.checkpoint[old.method] # Nothing
      BY <1>4, <2>2, <2>3
    <2>6. /\ job \in JobType /\ job.combo = old.combo /\ job.todo = old.todo
          /\ Progress(job, contents)
      <3>1. PICK was \in JobType, held \in DirType, holds \in DirType :
               was = old /\ held = before /\ holds = contents
        BY <1>2, <2>3
      <3>2. /\ Grows(held, holds)
            /\ holds.checkpoint[was.method] # Nothing /\ holds.cache = held.cache
        BY <2>3, <2>4, <2>5, <3>1
      <3>3. PICK result \in Sharers(was.combo) : result = was.combo
        BY <1>4, <3>1
      <3>4. PICK next : next = NextJob(was, result)
        OBVIOUS
      <3>5. Progress(was, held) /\ was.at \in {"system", "save"}
        BY <1>2, <3>1
      <3>6. /\ next \in JobType /\ next.combo = was.combo /\ next.todo = was.todo
            /\ Progress(next, holds)
        BY <3>2, <3>4, <3>5, NextSystemProgress
      <3> QED BY <3>1, <3>3, <3>4, <3>6 DEF job
    <2>7. Holds(contents, old.combo)
      <3>1. \A m \in Methods : contents.checkpoint[m] \in {Nothing} \cup Sharers(old.combo)
        BY <1>2, <1>4, <2>2, <2>3 DEF Holds
      <3> QED BY <1>2, <2>3, <2>4, <3>1 DEF Holds, Grows
    <2> QED BY <1>2, <1>3, <2>1, <2>3, <2>4, <2>6, <2>7, JobGetsOn
  <1> QED BY <1>5, <1>6

LEMMA WriteStep ==
  ASSUME ArrayInv, NEW w \in Workers, WriteArtifacts(w)
  PROVE  ArrayInv'
  <1>1. /\ Runs(w) /\ worker[w] \in JobType /\ worker[w].at = "artifacts"
        /\ disk[Dir(w)] \in DirType
        /\ Holds(disk[Dir(w)], worker[w].combo)
        /\ Progress(worker[w], disk[Dir(w)])
    BY JobAt DEF WriteArtifacts
  <1> DEFINE before == disk[Dir(w)]
             results == worker[w].results
             job == [worker[w] EXCEPT !.at = "touch"]
             contents == [before EXCEPT !.summary = results]
  <1>2. worker' = [worker EXCEPT ![w] = job] /\ disk' = [disk EXCEPT ![Dir(w)] = contents]
    BY DEF WriteArtifacts, Moves, Becomes, Writes
  <1>3. worker[w].combo \in Combos /\ results \in Results(worker[w].combo)
    BY <1>1 DEF JobType, Progress
  <1>4. results \in [Methods -> Combos]
    BY <1>3, SharersAre DEF Results
  <1>5. \A m \in Methods : before.checkpoint[m] # Nothing
    BY <1>1 DEF Progress
  <1> HIDE DEF results
  <1>6. /\ job \in JobType /\ job.at = "touch" /\ job.combo = worker[w].combo
        /\ job.todo = worker[w].todo /\ job.results = results
    BY <1>1 DEF JobType, results
  <1>7. /\ contents \in DirType /\ contents.checkpoint = before.checkpoint
        /\ contents.summary = results /\ contents.complete = before.complete
    BY <1>1, <1>4 DEF DirType
  <1> HIDE DEF job, contents
  <1>8. Progress(job, contents)
    BY <1>3, <1>5, <1>6, <1>7 DEF Progress
  <1>9. Holds(contents, worker[w].combo)
    BY <1>1, <1>3, <1>5, <1>7 DEF Holds
  <1>10. /\ UNCHANGED <<commands, pending, submitter, sweep, table, kills, forces>>
         /\ server' \in [Nodes -> Workers \cup {Nothing}]
    BY DEF WriteArtifacts, ArrayInv, ArrayTyped
  <1>11. Grows(disk[Dir(w)], contents)
    BY <1>7 DEF Grows
  <1> QED BY <1>1, <1>2, <1>6, <1>7, <1>8, <1>9, <1>10, <1>11, JobGetsOn

LEMMA TouchStep ==
  ASSUME ArrayInv, NEW w \in Workers, TouchComplete(w)
  PROVE  ArrayInv'
  <1>1. /\ Runs(w) /\ worker[w] \in JobType /\ worker[w].at = "touch"
        /\ disk[Dir(w)] \in DirType
        /\ Holds(disk[Dir(w)], worker[w].combo)
        /\ Progress(worker[w], disk[Dir(w)])
    BY JobAt DEF TouchComplete
  <1> DEFINE before == disk[Dir(w)]
             contents == [before EXCEPT !.complete = TRUE]
             left == worker[w].todo \ {TaskOf(w).seed}
             next == [Off EXCEPT !.at = "task", !.combo = worker[w].combo, !.todo = left]
  <1>2. disk' = [disk EXCEPT ![Dir(w)] = contents]
    BY DEF TouchComplete, Writes
  <1>3. /\ contents \in DirType /\ contents.checkpoint = before.checkpoint
        /\ contents.summary = before.summary
    BY <1>1 DEF DirType
  <1> HIDE DEF contents
  <1>4. Holds(contents, worker[w].combo)
    BY <1>1, <1>3 DEF Holds, Progress
  <1>5. /\ UNCHANGED <<commands, pending, submitter, sweep, table, kills, forces>>
        /\ Grows(disk[Dir(w)], contents)
    BY <1>3 DEF TouchComplete, Grows
  <1>6. CASE left = {}
    <2>1. ScriptExits(w)
      BY <1>6 DEF TouchComplete
    <2>2. kills' \in 0..MaxKills
      BY <1>5 DEF ArrayInv, ArrayTyped
    <2> QED BY <1>1, <1>2, <1>3, <1>4, <1>5, <2>1, <2>2, JobIsOver
  <1>7. CASE left # {}
    <2>1. worker' = [worker EXCEPT ![w] = next] /\ server' = server
      BY <1>7 DEF TouchComplete, Becomes
    <2>2. worker[w].combo \in Combos /\ left \in (SUBSET Seeds) \ {{}}
      BY <1>1, <1>7 DEF JobType
    <2>3. left \subseteq worker[w].todo /\ TaskOf(w).seed \notin left
      OBVIOUS
    <2> HIDE DEF left
    <2>4. /\ next \in JobType /\ next.at = "task" /\ next.combo = worker[w].combo
          /\ next.todo = left /\ next.method = "ensemble"
      BY <2>2 DEF JobType, Off, NoSystems, Methods
    <2> HIDE DEF next
    <2>5. Progress(next, contents)
      BY <2>4 DEF Progress
    <2>6. server' \in [Nodes -> Workers \cup {Nothing}] /\ kills' \in 0..MaxKills
      BY <1>5, <2>1 DEF ArrayInv, ArrayTyped
    <2> QED BY <1>1, <1>2, <1>3, <1>4, <1>5, <2>1, <2>3, <2>4, <2>5, <2>6, JobStep
  <1> QED BY <1>6, <1>7

\* A job that dies leaves its directory alone, or half a line or half a summary
\* in it.
LEMMA DeathStep ==
  ASSUME ArrayInv, NEW w \in Workers,
         LosesServer(w) \/ Dies(w)
  PROVE  ArrayInv'
  <1> USE DEF CommandFails, Strikes
  <1>1. Runs(w)
    BY DEF LosesServer, Dies, ExperimentRaises, ServerDoesNotStart,
           Killed, KilledAsItAppends, KilledAsItWrites, At, Off, Runs
  <1>2. /\ ScriptExits(w)
        /\ UNCHANGED <<commands, pending, submitter, sweep, table, forces>>
    BY DEF LosesServer, Dies, ExperimentRaises, ServerDoesNotStart,
           Killed, KilledAsItAppends, KilledAsItWrites
  <1>3. kills' = kills \/ (kills < MaxKills /\ kills' = kills + 1)
    BY DEF LosesServer, Dies, ExperimentRaises, ServerDoesNotStart,
           Killed, KilledAsItAppends, KilledAsItWrites
  <1>4. kills' \in 0..MaxKills
    <2>1. kills \in 0..MaxKills /\ MaxKills \in Nat
      BY ArrayAssumption DEF ArrayInv, ArrayTyped
    <2> QED BY <1>3, <2>1
  <1> DEFINE before == disk[Dir(w)]
  <1>5. /\ worker[w] \in JobType /\ worker[w].combo \in Combos
        /\ worker[w].at # "off" /\ At(w, worker[w].at)
    BY <1>1, JobsTask DEF ArrayInv, JobType, At
  <1>6. /\ before \in DirType /\ Holds(before, worker[w].combo)
        /\ Progress(worker[w], before)
    <2>1. PICK point : point = worker[w].at
      OBVIOUS
    <2> QED BY <1>5, <2>1, JobAt
  <1>7. CASE disk' = disk
    <2>1. Grows(before, before)
      BY DEF Grows
    <2> QED BY <1>1, <1>2, <1>4, <1>6, <1>7, <2>1, JobIsOver
  <1>8. CASE KilledAsItAppends(w)
    <2> DEFINE contents == [before EXCEPT !.torn = TRUE]
    <2>1. disk' = [disk EXCEPT ![Dir(w)] = contents]
      BY <1>8 DEF KilledAsItAppends, Writes
    <2>2. /\ contents \in DirType /\ contents.checkpoint = before.checkpoint
          /\ contents.summary = before.summary /\ contents.complete = before.complete
      BY <1>6 DEF DirType
    <2> HIDE DEF contents
    <2>3. Holds(contents, worker[w].combo)
      BY <1>6, <2>2 DEF Holds
    <2>4. Grows(before, contents)
      BY <2>2 DEF Grows
    <2> QED BY <1>1, <1>2, <1>4, <2>1, <2>2, <2>3, <2>4, JobIsOver
  <1>9. CASE KilledAsItWrites(w)
    <2> DEFINE contents == [before EXCEPT !.summary = Torn]
    <2>1. disk' = [disk EXCEPT ![Dir(w)] = contents]
      BY <1>9 DEF KilledAsItWrites, Writes
    <2>2. /\ contents \in DirType /\ contents.checkpoint = before.checkpoint
          /\ contents.summary = Torn /\ contents.complete = before.complete
      BY <1>6 DEF DirType
    <2>3. forces = 0 /\ Alone(worker[w].combo) => ~before.complete
      <3>1. /\ TaskOf(w).seed \in worker[w].todo
            /\ Dir(w) = TaskDir(worker[w].combo, TaskOf(w).seed)
        BY <1>1, JobsTask DEF ArrayInv
      <3> QED BY <1>1, <3>1 DEF ArrayInv, LeftInv
    <2> HIDE DEF contents
    <2>4. Holds(contents, worker[w].combo)
      BY <1>6, <2>2, <2>3 DEF Holds
    <2>5. Grows(before, contents)
      BY <2>2 DEF Grows
    <2> QED BY <1>1, <1>2, <1>4, <2>1, <2>2, <2>4, <2>5, JobIsOver
  <1> QED BY <1>7, <1>8, <1>9 DEF LosesServer, Dies, ExperimentRaises,
             ServerDoesNotStart, Killed

\* The jobs of some tasks are theirs and no others.
LEMMA JobsAreTheTasks ==
  ASSUME NEW tasks \in SUBSET Tasks
  PROVE  LET jobs == JobsOf(tasks)
         IN  /\ DOMAIN jobs \subseteq Combos
             /\ \A c \in DOMAIN jobs :
                   /\ jobs[c] \in (SUBSET Seeds) \ {{}}
                   /\ \A s \in jobs[c] : [combo |-> c, seed |-> s] \in tasks
  <1> DEFINE jobs == JobsOf(tasks)
  <1>1. \A task \in tasks : /\ task.combo \in Combos /\ task.seed \in Seeds
                            /\ task = [combo |-> task.combo, seed |-> task.seed]
    BY DEF Tasks
  <1>2. DOMAIN jobs = {task.combo : task \in tasks}
    BY DEF JobsOf
  <1>3. ASSUME NEW c \in DOMAIN jobs
        PROVE  /\ jobs[c] \in (SUBSET Seeds) \ {{}}
               /\ \A s \in jobs[c] : [combo |-> c, seed |-> s] \in tasks
    <2>1. jobs[c] = {task.seed : task \in {t \in tasks : t.combo = c}}
      BY <1>2, <1>3 DEF JobsOf
    <2>2. PICK task \in tasks : task.combo = c
      BY <1>2, <1>3
    <2>3. task.seed \in jobs[c]
      BY <2>1, <2>2
    <2> QED BY <1>1, <2>1, <2>3
  <1> QED BY <1>1, <1>2, <1>3

\* What a task leaves is neither no result nor half of one.
LEMMA WholeIsResult ==
  ASSUME NEW c \in Combos, NEW result \in Results(c)
  PROVE  result \notin {NoSystems, Torn}
  <1>1. Nothing \notin Combos /\ "torn" \notin Combos /\ "ensemble" \in Methods
    BY ArrayAssumption DEF Methods
  <1>2. result["ensemble"] \in Combos
    BY <1>1, SharersAre DEF Results
  <1>3. NoSystems["ensemble"] = Nothing /\ Torn["ensemble"] = "torn"
    BY <1>1 DEF NoSystems, Torn
  <1> QED BY <1>1, <1>2, <1>3

\* A table that is made from the summaries is what the scorer lists achieved.
LEMMA AggregateStep ==
  ASSUME ArrayInv, UNCHANGED <<sweep, forces>>,
         Aggregate \/ table' = NoTable
  PROVE  TableIsWhole' /\ table'.partial \in BOOLEAN
  <1>1. CASE table' = table
    BY <1>1 DEF ArrayInv, ArrayTyped, TableIsWhole, SweepTasks, Tasks, Alone, Sharers
  <1>2. CASE table' = NoTable
    BY <1>2 DEF NoTable, TableIsWhole, SweepTasks, Tasks, Alone, Sharers
  <1>3. CASE /\ \A task \in SweepTasks : IsComplete(task)
             /\ table' = [partial |-> FALSE, rows |-> SummaryRows]
    <2>1. \A task \in SweepTasks :
             /\ task.combo \in Combos /\ task.seed \in Seeds
             /\ DirOf(task) = TaskDir(task.combo, task.seed)
      BY DEF SweepTasks, Tasks, TaskDir, DirOf
    <2>2. \A task \in SweepTasks : Holds(disk[DirOf(task)], task.combo)
      <3> TAKE task \in SweepTasks
      <3>1. PICK c \in Combos, s \in Seeds : c = task.combo /\ s = task.seed
        BY <2>1
      <3> QED BY <2>1, <3>1 DEF ArrayInv, DiskInv
    <2>3. \A row \in SummaryRows : row.result \in Sharers(row.task.combo)
      <3> TAKE row \in SummaryRows
      <3>1. PICK task \in SweepTasks, m \in Methods :
               /\ disk[DirOf(task)].summary \notin {NoSystems, Torn}
               /\ row = [task |-> task, method |-> m, result |-> disk[DirOf(task)].summary[m]]
        BY DEF SummaryRows
      <3>2. disk[DirOf(task)].summary \in Results(task.combo)
        BY <2>2, <3>1 DEF Holds
      <3> QED BY <3>1, <3>2 DEF Results
    <2>4. ASSUME forces = 0, NEW task \in SweepTasks, NEW m \in Methods, Alone(task.combo)
          PROVE  \E row \in SummaryRows : row.task = task /\ row.method = m
      <3>1. disk[DirOf(task)].summary \in Results(task.combo)
        BY <1>3, <2>2, <2>4 DEF Holds, IsComplete
      <3>2. disk[DirOf(task)].summary \notin {NoSystems, Torn}
        BY <2>1, <3>1, WholeIsResult
      <3> DEFINE row == [task |-> task, method |-> m, result |-> disk[DirOf(task)].summary[m]]
      <3>3. row \in SummaryRows
        BY <3>1, <3>2 DEF SummaryRows
      <3> QED BY <3>3
    <2>5. table'.rows = SummaryRows /\ table'.partial = FALSE /\ forces' = forces
      BY <1>3
    <2>6. SweepTasks' = SweepTasks
      BY DEF SweepTasks, Tasks
    <2> QED BY <2>3, <2>4, <2>5, <2>6 DEF TableIsWhole, Alone, Sharers
  <1> QED BY <1>1, <1>2, <1>3 DEF Aggregate

\* Directories that nothing touches, and jobs that stand still.
LEMMA DiskStays ==
  ASSUME DiskInv, disk' = disk, forces' = 0 => forces = 0
  PROVE  DiskInv'
  <1> SUFFICES ASSUME NEW c \in Combos, NEW s \in Seeds
               PROVE  Holds(disk[TaskDir(c, s)], c)'
    BY DEF DiskInv, TaskDir, DirOf
  <1>1. Holds(disk[TaskDir(c, s)], c) /\ disk'[TaskDir(c, s)] = disk[TaskDir(c, s)]
    BY DEF DiskInv
  <1> QED BY <1>1 DEF Holds, TaskDir, DirOf, Alone, Sharers, Results

LEMMA JobStays ==
  ASSUME NEW v \in Workers, Progress(worker[v], disk[Dir(v)]),
         worker'[v] = worker[v], disk' = disk
  PROVE  Progress(worker[v], disk[Dir(v)])'
  <1>1. Dir(v)' = Dir(v)
    BY DEF Dir, TaskOf, DirOf
  <1>2. disk'[Dir(v)'] = disk[Dir(v)]
    BY <1>1
  <1> QED BY <1>2 DEF Progress, Alone, Sharers, Results

LEMMA TableStep ==
  ASSUME ArrayInv,
         NothingToSubmit \/ AggregatePartial \/ ArrayEnds
  PROVE  ArrayInv'
  <1>1. /\ UNCHANGED <<sweep, disk, commands, pending, worker, server, kills, forces>>
        /\ Aggregate \/ table' = NoTable
        /\ \/ submitter' = submitter
           \/ submitter' = "idle" /\ pending = {} /\ \A w \in Workers : At(w, "off")
    BY DEF NothingToSubmit, AggregatePartial, ArrayEnds
  <1>2. TableIsWhole' /\ table'.partial \in BOOLEAN
    BY <1>1, AggregateStep
  <1>3. ArrayTyped'
    BY <1>1, <1>2 DEF ArrayInv, ArrayTyped
  <1>4. \A w \in Workers : At(w, "off") => ~Runs(w)
    BY DEF ArrayInv, ArrayTyped, JobType, Runs, At
  <1>5. JobsInv'
    BY <1>1, <1>4 DEF ArrayInv, JobsInv, Runs
  <1>6. LeftInv'
    BY <1>1 DEF ArrayInv, LeftInv, Runs, TaskDir, DirOf, Alone, Sharers
  <1>7. DiskInv'
    BY <1>1, DiskStays DEF ArrayInv
  <1>8. ProgressInv'
    BY <1>1, JobStays DEF ArrayInv, ProgressInv, Runs
  <1> QED BY <1>2, <1>3, <1>5, <1>6, <1>7, <1>8 DEF ArrayInv

LEMMA SubmitStep ==
  ASSUME ArrayInv, SubmitRemaining \/ SubmitForced
  PROVE  ArrayInv'
  <1>1. PICK force \in BOOLEAN :
           /\ Submit(force)
           /\ \/ ~force /\ forces' = forces
              \/ forces < MaxForces /\ forces' = forces + 1
    BY DEF SubmitRemaining, SubmitForced
  <1> DEFINE jobs == JobsOf(Remaining(force))
  <1>2. /\ submitter = "idle" /\ submitter' = "waiting"
        /\ commands' = jobs /\ pending' = DOMAIN jobs
        /\ UNCHANGED <<sweep, disk, worker, server, table, kills>>
    BY <1>1 DEF Submit
  <1>3. forces \in 0..MaxForces /\ MaxForces \in Nat
    BY ArrayAssumption DEF ArrayInv, ArrayTyped
  <1>4. forces' \in 0..MaxForces /\ (forces' = 0 => ~force /\ forces = 0)
    BY <1>1, <1>3
  <1>5. /\ DOMAIN jobs \subseteq Combos
        /\ \A c \in DOMAIN jobs :
              /\ jobs[c] \in (SUBSET Seeds) \ {{}}
              /\ \A s \in jobs[c] : [combo |-> c, seed |-> s] \in Remaining(force)
    <2>1. PICK tasks \in SUBSET Tasks : tasks = Remaining(force)
      BY DEF Remaining, SweepTasks
    <2> QED BY <2>1, JobsAreTheTasks
  <1> HIDE DEF jobs
  <1>6. ArrayTyped'
    BY <1>2, <1>4, <1>5 DEF ArrayInv, ArrayTyped
  <1>7. \A w \in Workers : ~Runs(w) /\ ~Runs(w)'
    BY <1>2 DEF ArrayInv, JobsInv, Runs
  <1>8. JobsInv'
    BY <1>2, <1>7 DEF JobsInv
  <1>9. LeftInv'
    <2> SUFFICES ASSUME forces' = 0, NEW c \in pending', Alone(c), NEW s \in commands'[c]
                 PROVE  ~disk[TaskDir(c, s)].complete
      BY <1>2, <1>7 DEF LeftInv, TaskDir, DirOf, Alone, Sharers
    <2>1. [combo |-> c, seed |-> s] \in Remaining(force) /\ ~force
      BY <1>2, <1>4, <1>5
    <2> QED BY <2>1 DEF Remaining, IsComplete, TaskDir
  <1>10. DiskInv'
    BY <1>2, <1>4, DiskStays DEF ArrayInv
  <1>11. ProgressInv'
    BY <1>7 DEF ProgressInv
  <1>12. TableIsWhole'
    BY <1>2, <1>4 DEF ArrayInv, TableIsWhole, SweepTasks, Tasks, Alone, Sharers
  <1> QED BY <1>6, <1>8, <1>9, <1>10, <1>11, <1>12 DEF ArrayInv

LEMMA StartStep ==
  ASSUME ArrayInv, NEW w \in Workers, NEW c \in pending,
         StartArrayTask(w, c)
  PROVE  ArrayInv'
  <1> DEFINE seeds == commands[c]
             job == [Off EXCEPT !.at = "guard", !.combo = c, !.todo = seeds]
  <1>1. /\ At(w, "off") /\ pending' = pending \ {c}
        /\ worker' = [worker EXCEPT ![w] = job]
        /\ UNCHANGED <<disk, commands, server, submitter, sweep, table, kills, forces>>
    BY DEF StartArrayTask, Becomes
  <1>2. c \in Combos /\ seeds \in (SUBSET Seeds) \ {{}}
    BY DEF ArrayInv, ArrayTyped
  <1> HIDE DEF seeds
  <1>3. /\ job \in JobType /\ job.at = "guard" /\ job.combo = c /\ job.todo = seeds
        /\ job.method = "ensemble"
    BY <1>2 DEF JobType, Off, NoSystems, Methods
  <1> HIDE DEF job
  <1>4. /\ worker'[w] = job /\ \A v \in Workers : v # w => worker'[v] = worker[v]
        /\ worker' \in [Workers -> JobType \cup {Off}]
    BY <1>1, <1>3 DEF ArrayInv, ArrayTyped
  <1>5. /\ pending \subseteq Combos /\ submitter = "waiting"
        /\ \A v \in Workers : Runs(v) => worker[v].combo \notin pending
    BY DEF ArrayInv, ArrayTyped, JobsInv
  <1>6. \A v \in Workers : v # w => Runs(v)' = Runs(v)
    BY <1>4 DEF Runs
  <1>7. ArrayTyped'
    BY <1>1, <1>4 DEF ArrayInv, ArrayTyped
  <1>8. JobsInv'
    <2>1. \A v \in Workers : Runs(v)' => worker'[v].combo \notin pending'
      BY <1>1, <1>3, <1>4, <1>5, <1>6
    <2>2. ASSUME NEW v \in Workers, NEW u \in Workers, v # u, Runs(v)', Runs(u)'
          PROVE  worker'[v].combo # worker'[u].combo
      <3>1. CASE v = w
        BY <1>3, <1>4, <1>5, <1>6, <2>2, <3>1
      <3>2. CASE u = w
        BY <1>3, <1>4, <1>5, <1>6, <2>2, <3>2
      <3>3. CASE v # w /\ u # w
        BY <1>4, <1>6, <2>2, <3>3 DEF ArrayInv, JobsInv
      <3> QED BY <3>1, <3>2, <3>3
    <2>3. submitter' # "idle"
      BY <1>1, <1>5
    <2> QED BY <2>1, <2>2, <2>3 DEF JobsInv
  <1>9. LeftInv'
    <2> SUFFICES ASSUME forces = 0
                 PROVE  /\ \A d \in pending' : Alone(d) =>
                              \A s \in commands[d] : ~disk[TaskDir(d, s)].complete
                        /\ \A v \in Workers : Runs(v)' /\ Alone(worker'[v].combo) =>
                              \A s \in worker'[v].todo : ~disk[TaskDir(worker'[v].combo, s)].complete
      BY <1>1 DEF LeftInv, TaskDir, DirOf, Alone, Sharers
    <2>1. \A d \in pending : Alone(d) => \A s \in commands[d] : ~disk[TaskDir(d, s)].complete
      BY DEF ArrayInv, LeftInv
    <2>2. \A v \in Workers : Runs(v) /\ Alone(worker[v].combo) =>
             \A s \in worker[v].todo : ~disk[TaskDir(worker[v].combo, s)].complete
      BY DEF ArrayInv, LeftInv
    <2>3. ASSUME NEW v \in Workers, Runs(v)', Alone(worker'[v].combo)
          PROVE  \A s \in worker'[v].todo : ~disk[TaskDir(worker'[v].combo, s)].complete
      <3>1. CASE v = w
        BY <1>3, <1>4, <2>1, <2>3, <3>1 DEF seeds
      <3>2. CASE v # w
        BY <1>4, <1>6, <2>2, <2>3, <3>2
      <3> QED BY <3>1, <3>2
    <2> QED BY <1>1, <2>1, <2>3
  <1>10. DiskInv'
    BY <1>1, DiskStays DEF ArrayInv
  <1>11. ProgressInv'
    <2> SUFFICES ASSUME NEW v \in Workers, Runs(v)'
                 PROVE  Progress(worker[v], disk[Dir(v)])'
      BY DEF ProgressInv
    <2>1. CASE v = w
      BY <1>3, <1>4, <2>1 DEF Progress
    <2>2. CASE v # w
      BY <1>1, <1>4, <1>6, <2>2, JobStays DEF ArrayInv, ProgressInv
    <2> QED BY <2>1, <2>2
  <1>12. TableIsWhole'
    BY <1>1 DEF ArrayInv, TableIsWhole, SweepTasks, Tasks, Alone, Sharers
  <1> QED BY <1>7, <1>8, <1>9, <1>10, <1>11, <1>12 DEF ArrayInv

LEMMA InitHolds ==
  ASSUME ArrayInit
  PROVE  ArrayInv
  <1> USE DEF ArrayInit
  <1>1. ArrayTyped
    <2>1. 0 \in 0..MaxKills /\ 0 \in 0..MaxForces
      BY ArrayAssumption
    <2>2. NoSystems \in [Methods -> Combos \cup {Nothing}]
      BY DEF NoSystems
    <2>3. disk \in [Dirs -> DirType]
      BY <2>2 DEF DirType
    <2>4. /\ worker \in [Workers -> JobType \cup {Off}]
          /\ server \in [Nodes -> Workers \cup {Nothing}]
      OBVIOUS
    <2>5. DOMAIN commands = {} /\ pending = {} /\ table.partial \in BOOLEAN
      BY DEF NoTable
    <2>6. submitter = "idle" /\ kills = 0 /\ forces = 0
      OBVIOUS
    <2> QED BY <2>1, <2>3, <2>4, <2>5, <2>6 DEF ArrayTyped
  <1>2. JobsInv /\ LeftInv /\ ProgressInv
    <2>1. pending = {} /\ \A w \in Workers : ~Runs(w)
      BY DEF Runs
    <2> QED BY <2>1 DEF JobsInv, LeftInv, ProgressInv
  <1>3. DiskInv
    BY TaskDirs DEF DiskInv, Holds, NoSystems
  <1>4. TableIsWhole
    BY DEF TableIsWhole, NoTable, SweepTasks, Tasks, Alone, Sharers
  <1> QED BY <1>1, <1>2, <1>3, <1>4 DEF ArrayInv

LEMMA NextKeeps ==
  ASSUME ArrayInv, [ArrayNext]_arrayVars
  PROVE  ArrayInv'
  <1>1. CASE SubmitRemaining \/ SubmitForced
    BY <1>1, SubmitStep
  <1>2. CASE NothingToSubmit \/ AggregatePartial \/ ArrayEnds
    BY <1>2, TableStep
  <1>3. ASSUME NEW w \in Workers, NEW c \in pending, StartArrayTask(w, c)
        PROVE  ArrayInv'
    BY <1>3, StartStep
  <1>4. ASSUME NEW w \in Workers, Works(w)
        PROVE  ArrayInv'
    BY <1>4, PlainSteps, StartTaskStep, CheckpointStep, WriteStep, TouchStep, DeathStep DEF Works
  <1>5. ASSUME NEW w \in Workers, Dies(w)
        PROVE  ArrayInv'
    BY <1>5, DeathStep
  <1>6. ASSUME NEW w \in Workers, NEW pair \in JudgedPairs, JudgePair(w, pair)
        PROVE  ArrayInv'
    BY <1>6, JudgeStep
  <1>7. CASE UNCHANGED arrayVars
    <2>1. UNCHANGED <<disk, commands, pending, worker, server, submitter, sweep, table, kills, forces>>
      BY <1>7 DEF arrayVars
    <2>2. ArrayTyped' /\ JobsInv'
      BY <2>1 DEF ArrayInv, ArrayTyped, JobsInv, Runs
    <2>3. LeftInv'
      BY <2>1 DEF ArrayInv, LeftInv, Runs, TaskDir, DirOf, Alone, Sharers
    <2>4. DiskInv' /\ ProgressInv'
      BY <2>1, DiskStays, JobStays DEF ArrayInv, ProgressInv, Runs
    <2>5. TableIsWhole'
      BY <2>1 DEF ArrayInv, TableIsWhole, SweepTasks, Tasks, Alone, Sharers
    <2> QED BY <2>2, <2>3, <2>4, <2>5 DEF ArrayInv
  <1> QED BY <1>1, <1>2, <1>3, <1>4, <1>5, <1>6, <1>7 DEF ArrayNext, Starts

LEMMA ArrayInvariant == ArraySpec => []ArrayInv
  <1>1. ArrayInit => ArrayInv
    BY InitHolds
  <1>2. ArrayInv /\ [ArrayNext]_arrayVars => ArrayInv'
    BY NextKeeps
  <1> QED BY <1>1, <1>2, PTL DEF ArraySpec

\* Directories, jobs and the table are always of their types.
THEOREM ArrayTypeCorrect == ArraySpec => []ArrayTypeOK
  <1>1. ArrayInv => ArrayTypeOK
    <2> SUFFICES ASSUME ArrayTyped
                 PROVE  ArrayTypeOK
      BY DEF ArrayInv
    <2>1. \A w \in Workers : worker[w] = Off \/ worker[w] \in JobType
      BY DEF ArrayTyped
    <2> QED BY <2>1 DEF ArrayTyped, ArrayTypeOK, DirType, JobType
  <1> QED BY <1>1, ArrayInvariant, PTL

\* Whatever dies, and whenever, and whichever lists share a directory: a task
\* counts as complete only when both systems have been replayed and saved, with
\* a whole summary as long as nothing was forced and its list has the directory
\* for itself (submit_replay_array.py, run_experiment).
THEOREM CompleteIsFinished == ArraySpec => []CompleteMeansFinished
  <1>1. ArrayInv => CompleteMeansFinished
    <2> SUFFICES ASSUME ArrayInv, NEW task \in Tasks, IsComplete(task)
                 PROVE  /\ \A m \in Methods : disk[DirOf(task)].checkpoint[m] # Nothing
                        /\ forces = 0 /\ Alone(task.combo)
                              => disk[DirOf(task)].summary \notin {NoSystems, Torn}
      BY DEF CompleteMeansFinished
    <2>1. PICK c \in Combos, s \in Seeds :
             c = task.combo /\ s = task.seed /\ DirOf(task) = TaskDir(c, s)
      BY DEF Tasks, TaskDir, DirOf
    <2>2. Holds(disk[TaskDir(c, s)], c)
      BY DEF ArrayInv, DiskInv
    <2>3. \A result \in Results(c) : result \notin {NoSystems, Torn}
      BY WholeIsResult
    <2> QED BY <2>1, <2>2, <2>3 DEF Holds, IsComplete
  <1> QED BY <1>1, ArrayInvariant, PTL

\* Every row of the table was computed with a list that has the row's directory,
\* and a table that is not partial has every task whose list is alone in its
\* directory, unless a run was forced (write_aggregate_tables).
THEOREM TableHasEveryTask == ArraySpec => []TableIsWhole
  <1>1. ArrayInv => TableIsWhole
    BY DEF ArrayInv
  <1> QED BY <1>1, ArrayInvariant, PTL

\* What a replay finds in the file of judgements it does not ask the LLM for
\* again, however often its job is run, when its list is alone in the directory
\* (JudgeDecisionCache).
THEOREM JudgedPairsPaidOnce == ArraySpec => PairsPaidOnce
  <1> DEFINE Once == \A w \in Workers, pair \in JudgedPairs :
                       JudgePair(w, pair) /\ Alone(worker[w].combo)
                       => pair \notin disk[Dir(w)].cache
  <1>1. ArrayInv => Once
    <2> SUFFICES ASSUME ArrayInv, NEW w \in Workers, NEW pair \in JudgedPairs,
                        JudgePair(w, pair), Alone(worker[w].combo)
                 PROVE  pair \notin disk[Dir(w)].cache
      OBVIOUS
    <2>1. worker[w].at = "running" /\ Progress(worker[w], disk[Dir(w)])
      BY JobAt DEF JudgePair
    <2>2. pair \notin worker[w].known
      BY DEF JudgePair
    <2> QED BY <2>1, <2>2 DEF Progress
  <1>2. ArrayInv /\ [ArrayNext]_arrayVars => [Once]_arrayVars
    BY <1>1
  <1>3. ArraySpec => [][Once]_arrayVars
    BY <1>2, ArrayInvariant, PTL DEF ArraySpec
  <1> QED BY <1>3 DEF PairsPaidOnce
===============================================================================
