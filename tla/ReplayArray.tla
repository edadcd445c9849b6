------------------------------ MODULE ReplayArray ------------------------------
(***************************************************************************)
(* submit_replay_array.py and what it starts: a sweep of replay tasks, one *)
(* for each scorer list and seed, run by the tasks of a SLURM array.  An   *)
(* array task runs the script of one job: the seeds of one scorer list,    *)
(* one after the other, each an online_replay_h1h0_final.py that replays   *)
(* the ensemble and then the cosine system and resumes from what is on     *)
(* disk.  A job may die at any point; the submitter is run again until     *)
(* every task has its _COMPLETE file.                                      *)
(*                                                                         *)
(* The submitter waits for its array, and it is assumed that nobody starts *)
(* it a second time meanwhile: write_files rewrites the files that waiting *)
(* array tasks are about to read.  A result stands for the scorer list     *)
(* that it was computed with.  Two jobs whose lists start with one scorer  *)
(* share their directories; what they write there at the very same moment  *)
(* is written one after the other here.                                    *)
(***************************************************************************)
EXTENDS Integers, FiniteSets

CONSTANTS
    Combos,       \* the lists of scorers that the sweeps into this directory name
    Sweeps,       \* those that one sweep names, its scorers_list
    FirstScorer,  \* of each, the part of it that names the output directory
    Seeds,
    JudgedPairs,  \* (query, candidate) pairs that the replays of a task judge
    Workers,      \* GPUs the array may occupy at once
    NodeOf,       \* the machine of each, where one vLLM server can listen
    Nothing,
    MaxKills,     \* bound: jobs that die
    MaxForces     \* bound: submissions with --force

Methods == {"ensemble", "cosine"}
Tasks == [combo : Combos, seed : Seeds]
Nodes == {NodeOf[w] : w \in Workers}

\* output_dir, whose name has of the scorers only the first.
DirOf(task) == [scorer |-> FirstScorer[task.combo], seed |-> task.seed]
Dirs == {DirOf(task) : task \in Tasks}

\* The scorer lists whose tasks have the directories of a list's tasks, and
\* whether there is no other one: nothing in the submitter sees to it.
Sharers(combo) == {c \in Combos : FirstScorer[c] = FirstScorer[combo]}
Alone(combo) == Sharers(combo) = {combo}

ASSUME ArrayAssumption ==
    /\ Sweeps \subseteq SUBSET Combos
    /\ Seeds \subseteq Int /\ IsFiniteSet(Seeds)
    /\ Nothing \notin Combos \cup Workers /\ "torn" \notin Combos
    /\ MaxKills \in Nat /\ MaxForces \in Nat

VARIABLES
    sweep,     \* scorers_list, with which the submitter is run every time
    disk,      \* what each output directory holds
    commands,  \* commands.txt with the scripts it names: of each job, named by its combo, the seeds
    pending,   \* jobs whose array task has not started
    worker,    \* the array task on each GPU
    server,    \* for each node, the worker whose script started the vLLM server there
    submitter, \* "idle", or "waiting" for its array
    table,     \* final_tables/aggregate.csv
    kills, forces

arrayVars == <<sweep, disk, commands, pending, worker, server, submitter, table, kills, forces>>

NoSystems == [m \in Methods |-> Nothing]
Torn == [m \in Methods |-> "torn"]
NoTable == [partial |-> TRUE, rows |-> {}]
Off == [at |-> "off", combo |-> Nothing, todo |-> {}, method |-> "ensemble",
        results |-> NoSystems, known |-> {}]

\* A checkpoint of another version, or one that cannot be read, is like none.
ArrayInit ==
    /\ sweep \in Sweeps
    /\ disk = [d \in Dirs |-> [checkpoint |-> NoSystems, summary |-> NoSystems,
                               complete |-> FALSE, cache |-> {}, torn |-> FALSE]]
    /\ commands = <<>>
    /\ pending = {}
    /\ worker = [w \in Workers |-> Off]
    /\ server = [n \in Nodes |-> Nothing]
    /\ submitter = "idle"
    /\ table = NoTable
    /\ kills = 0
    /\ forces = 0

SmallestOf(seeds) == CHOOSE s \in seeds : \A r \in seeds : s <= r
TaskOf(w) == [combo |-> worker[w].combo, seed |-> SmallestOf(worker[w].todo)]
Dir(w) == DirOf(TaskOf(w))
At(w, point) == worker[w].at = point
Becomes(w, changed) == worker' = [worker EXCEPT ![w] = changed]
Moves(w, point) == Becomes(w, [worker[w] EXCEPT !.at = point])
Writes(w, contents) == disk' = [disk EXCEPT ![Dir(w)] = contents]

(***************************************************************************)
(* The submitter.                                                          *)
(***************************************************************************)
\* Mutant: a task that has written something is taken for complete.
IsCompleteBySummary(task) == disk[DirOf(task)].summary # NoSystems

IsComplete(task) == disk[DirOf(task)].complete

\* build_replay_suite.
SweepTasks == {task \in Tasks : task.combo \in sweep}

Remaining(force) == {task \in SweepTasks : force \/ ~IsComplete(task)}

\* The jobs of some tasks: one for each scorer list.
JobsOf(tasks) ==
    [c \in {task.combo : task \in tasks} |->
        {task.seed : task \in {t \in tasks : t.combo = c}}]

\* The rows of all summaries that can be read.
SummaryRows ==
    {[task |-> task, method |-> m, result |-> disk[DirOf(task)].summary[m]] :
       task \in {t \in SweepTasks : disk[DirOf(t)].summary \notin {NoSystems, Torn}}, m \in Methods}

\* Mutant: the tables are made whatever is complete.
AggregateAny ==
    IF SummaryRows # {}
    THEN table' = [partial |-> FALSE, rows |-> SummaryRows]
    ELSE UNCHANGED table

\* write_aggregate_tables, which refuses when a task is not complete, and when
\* there is no row.
Aggregate ==
    IF (\A task \in SweepTasks : IsComplete(task)) /\ SummaryRows # {}
    THEN table' = [partial |-> FALSE, rows |-> SummaryRows]
    ELSE UNCHANGED table

\* --aggregate-only.  What the rows of a partial table are is left out.
AggregatePartial ==
    /\ SummaryRows # {}
    /\ table' = NoTable
    /\ UNCHANGED <<sweep, disk, commands, pending, worker, server, submitter, kills, forces>>

Submit(force) ==
    LET jobs == JobsOf(Remaining(force))
    IN  /\ submitter = "idle"
        /\ Remaining(force) # {}
        /\ commands' = jobs
        /\ pending' = DOMAIN jobs
        /\ submitter' = "waiting"
        /\ UNCHANGED <<sweep, disk, worker, server, table, kills>>

SubmitRemaining == Submit(FALSE) /\ UNCHANGED forces
SubmitForced == forces < MaxForces /\ Submit(TRUE) /\ forces' = forces + 1

NothingToSubmit ==
    /\ submitter = "idle"
    /\ Remaining(FALSE) = {}
    /\ Aggregate
    /\ UNCHANGED <<sweep, disk, commands, pending, worker, server, submitter, kills, forces>>

\* wait_for_slurm_job returns.
ArrayEnds ==
    /\ submitter = "waiting"
    /\ pending = {} /\ \A w \in Workers : At(w, "off")
    /\ submitter' = "idle"
    /\ Aggregate
    /\ UNCHANGED <<sweep, disk, commands, pending, worker, server, kills, forces>>

(***************************************************************************)
(* The script of a job.                                                    *)
(***************************************************************************)
StartArrayTask(w, c) ==
    /\ c \in pending /\ At(w, "off")
    /\ pending' = pending \ {c}
    /\ Becomes(w, [Off EXCEPT !.at = "guard", !.combo = c, !.todo = commands[c]])
    /\ UNCHANGED <<sweep, disk, commands, server, submitter, table, kills, forces>>

\* The vLLM server of the node is used if one answers, and started otherwise.
EnsureServer(w) ==
    /\ At(w, "guard")
    /\ server' = [server EXCEPT ![NodeOf[w]] = IF @ = Nothing THEN w ELSE @]
    /\ Moves(w, "task")
    /\ UNCHANGED <<sweep, disk, commands, pending, submitter, table, kills, forces>>

\* The EXIT trap stops the server that this script started, whoever else uses it.
ScriptExits(w) ==
    /\ Becomes(w, Off)
    /\ server' = [server EXCEPT ![NodeOf[w]] = IF @ = w THEN Nothing ELSE @]

\* Mutant: without set -e.
ScriptGoesOn(w) == Moves(w, "touch") /\ UNCHANGED server

\* What a failed command does to the script.
CommandFails(w) == ScriptExits(w)

TouchComplete(w) ==
    LET left == worker[w].todo \ {TaskOf(w).seed}
    IN  /\ At(w, "touch")
        /\ Writes(w, [disk[Dir(w)] EXCEPT !.complete = TRUE])
        /\ IF left = {} THEN ScriptExits(w)
           ELSE /\ Becomes(w, [Off EXCEPT !.at = "task", !.combo = worker[w].combo, !.todo = left])
                /\ UNCHANGED server
        /\ UNCHANGED <<sweep, commands, pending, submitter, table, kills, forces>>

(***************************************************************************)
(* run_experiment.                                                         *)
(***************************************************************************)
\* Mutant: the file of judgements is not read.
LoadNothing(w) == {}

\* JudgeDecisionCache._load.
LoadJudgements(w) == disk[Dir(w)].cache

StartTask(w) ==
    /\ At(w, "task")
    /\ Becomes(w, [worker[w] EXCEPT !.at = "system", !.known = LoadJudgements(w)])
    /\ UNCHANGED <<sweep, disk, commands, pending, server, submitter, table, kills, forces>>

\* The next system, with the result of the one that is done.
NextSystem(w, result) ==
    LET m == worker[w].method
    IN  Becomes(w, [worker[w] EXCEPT !.results[m] = result, !.method = "cosine",
                                     !.at = IF m = "ensemble" THEN "system" ELSE "artifacts"])

LoadCheckpoint(w) ==
    LET saved == disk[Dir(w)].checkpoint[worker[w].method]
    IN  /\ At(w, "system")
        /\ saved # Nothing
        /\ NextSystem(w, saved)
        /\ UNCHANGED <<sweep, disk, commands, pending, server, submitter, table, kills, forces>>

RunSystem(w) ==
    /\ At(w, "system")
    /\ disk[Dir(w)].checkpoint[worker[w].method] = Nothing
    /\ Moves(w, "running")
    /\ UNCHANGED <<sweep, disk, commands, pending, server, submitter, table, kills, forces>>

\* What the file of judgements holds after one more line: a line that is
\* appended to a torn one cannot be read either.
Appended(contents, pair) ==
    IF contents.torn THEN [contents EXCEPT !.torn = FALSE]
    ELSE [contents EXCEPT !.cache = @ \cup {pair}]

\* A pair that is not known yet is judged by the LLM, noted, and added to the
\* file.  A call that raises is swallowed by the collector and changes nothing.
JudgePair(w, pair) ==
    /\ At(w, "running")
    /\ pair \notin worker[w].known
    /\ server[NodeOf[w]] # Nothing
    /\ Becomes(w, [worker[w] EXCEPT !.known = @ \cup {pair}])
    /\ Writes(w, Appended(disk[Dir(w)], pair))
    /\ UNCHANGED <<sweep, commands, pending, server, submitter, table, kills, forces>>

\* A miss asks the LLM for the response, and nothing catches it if it is gone.
LosesServer(w) ==
    /\ At(w, "running")
    /\ server[NodeOf[w]] = Nothing
    /\ CommandFails(w)
    /\ UNCHANGED <<sweep, disk, commands, pending, submitter, table, kills, forces>>

FinishSystem(w) ==
    /\ At(w, "running")
    /\ Moves(w, "save")
    /\ UNCHANGED <<sweep, disk, commands, pending, server, submitter, table, kills, forces>>

\* _save_system_checkpoint, by way of a temporary file.
SaveCheckpoint(w) ==
    /\ At(w, "save")
    /\ Writes(w, [disk[Dir(w)] EXCEPT !.checkpoint[worker[w].method] = worker[w].combo])
    /\ NextSystem(w, worker[w].combo)
    /\ UNCHANGED <<sweep, commands, pending, server, submitter, table, kills, forces>>

\* write_artifacts, which writes the summary in place.
WriteArtifacts(w) ==
    /\ At(w, "artifacts")
    /\ Writes(w, [disk[Dir(w)] EXCEPT !.summary = worker[w].results])
    /\ Moves(w, "touch")
    /\ UNCHANGED <<sweep, commands, pending, server, submitter, table, kills, forces>>

(***************************************************************************)
(* A time limit, a dead GPU, an exception.                                 *)
(***************************************************************************)
Strikes == kills < MaxKills /\ kills' = kills + 1

ExperimentRaises(w) ==
    /\ worker[w].at \in {"system", "running", "save", "artifacts"}
    /\ Strikes
    /\ CommandFails(w)
    /\ UNCHANGED <<sweep, disk, commands, pending, submitter, table, forces>>

ServerDoesNotStart(w) ==
    /\ At(w, "guard") /\ server[NodeOf[w]] = Nothing
    /\ Strikes
    /\ ScriptExits(w)
    /\ UNCHANGED <<sweep, disk, commands, pending, submitter, table, forces>>

\* Between two steps; the server goes with the processes of its job.
Killed(w) ==
    /\ ~At(w, "off")
    /\ Strikes
    /\ ScriptExits(w)
    /\ UNCHANGED <<sweep, disk, commands, pending, submitter, table, forces>>

KilledAsItAppends(w) ==
    /\ At(w, "running")
    /\ worker[w].known # JudgedPairs /\ server[NodeOf[w]] # Nothing
    /\ Strikes
    /\ Writes(w, [disk[Dir(w)] EXCEPT !.torn = TRUE])
    /\ ScriptExits(w)
    /\ UNCHANGED <<sweep, commands, pending, submitter, table, forces>>

KilledAsItWrites(w) ==
    /\ At(w, "artifacts")
    /\ Strikes
    /\ Writes(w, [disk[Dir(w)] EXCEPT !.summary = Torn])
    /\ ScriptExits(w)
    /\ UNCHANGED <<sweep, commands, pending, submitter, table, forces>>

(***************************************************************************)
(* All together.                                                           *)
(***************************************************************************)
Starts == \E w \in Workers, c \in pending : StartArrayTask(w, c)

Works(w) ==
    \/ EnsureServer(w)
    \/ StartTask(w)
    \/ LoadCheckpoint(w)
    \/ RunSystem(w)
    \/ LosesServer(w)
    \/ FinishSystem(w)
    \/ SaveCheckpoint(w)
    \/ WriteArtifacts(w)
    \/ TouchComplete(w)

Dies(w) ==
    \/ ExperimentRaises(w)
    \/ ServerDoesNotStart(w)
    \/ Killed(w)
    \/ KilledAsItAppends(w)
    \/ KilledAsItWrites(w)

ArrayNext ==
    \/ SubmitRemaining
    \/ SubmitForced
    \/ NothingToSubmit
    \/ AggregatePartial
    \/ ArrayEnds
    \/ Starts
    \/ \E w \in Workers : Works(w) \/ Dies(w) \/ \E pair \in JudgedPairs : JudgePair(w, pair)

ArraySpec == ArrayInit /\ [][ArrayNext]_arrayVars

\* SLURM starts what is pending, a replay gets on, and somebody submits again
\* what is left, as the resume support of run_experiment expects.
FairSpec ==
    /\ ArraySpec
    /\ WF_arrayVars(Starts)
    /\ \A w \in Workers : WF_arrayVars(Works(w))
    /\ WF_arrayVars(SubmitRemaining)
    /\ WF_arrayVars(ArrayEnds)

(***************************************************************************)
(* Properties.                                                             *)
(***************************************************************************)
ArrayTypeOK ==
    /\ disk \in [Dirs -> [checkpoint : [Methods -> Combos \cup {Nothing}],
                          summary : [Methods -> Combos] \cup {NoSystems, Torn},
                          complete : BOOLEAN, cache : SUBSET JudgedPairs, torn : BOOLEAN]]
    /\ sweep \in Sweeps
    /\ DOMAIN commands \subseteq Combos
    /\ \A c \in DOMAIN commands : commands[c] \in (SUBSET Seeds) \ {{}}
    /\ pending \subseteq DOMAIN commands
    /\ \A w \in Workers :
          \/ worker[w] = Off
          \/ worker[w] \in [at : {"guard", "task", "system", "running", "save", "artifacts", "touch"},
                            combo : Combos, todo : (SUBSET Seeds) \ {{}}, method : Methods,
                            results : [Methods -> Combos \cup {Nothing}], known : SUBSET JudgedPairs]
    /\ server \in [Nodes -> Workers \cup {Nothing}]
    /\ submitter \in {"idle", "waiting"}
    /\ table.partial \in BOOLEAN
    /\ kills \in 0..MaxKills /\ forces \in 0..MaxForces

\* A task counts as complete only when both of its systems have been replayed
\* to the end and saved, wherever its jobs died before.  Its summary is whole
\* too, as long as nothing is forced and no other list's job, which works in the
\* directory after it was completed, cuts the summary off.
CompleteMeansFinished ==
    \A task \in Tasks :
        IsComplete(task) =>
            LET contents == disk[DirOf(task)]
            IN  /\ \A m \in Methods : contents.checkpoint[m] # Nothing
                /\ forces = 0 /\ Alone(task.combo)
                      => contents.summary \notin {NoSystems, Torn}

\* A row of the table was computed with a scorer list that has its task's
\* directory, which is its own list if that is alone there; and a table that is
\* not partial has both methods of every task whose list is alone, unless a run
\* was forced: --force leaves _COMPLETE where it is, and write_artifacts cuts
\* the old summary off before the new one is there.
TableIsWhole ==
    /\ \A row \in table.rows : row.result \in Sharers(row.task.combo)
    /\ ~table.partial /\ forces = 0 =>
          \A task \in SweepTasks, m \in Methods :
              Alone(task.combo)
              => \E row \in table.rows : row.task = task /\ row.method = m

\* What the table says of itself, a row for each scorer list: the row is what
\* this list achieved.  The code breaks it for lists that start with one scorer:
\* the directory is named after that scorer, the job of one list takes the
\* other's checkpoints for its own, and both rows are read from one summary.
RowsAreTheirOwn == \A row \in table.rows : row.result = row.task.combo

\* What the file of judgements promises of a task that is run again: a pair
\* whose judgement is on disk is not sent to the LLM once more, unless the job of
\* another list put it there meanwhile.
PairsPaidOnce ==
    [][\A w \in Workers, pair \in JudgedPairs :
          JudgePair(w, pair) /\ Alone(worker[w].combo)
          => pair \notin disk[Dir(w)].cache]_arrayVars

\* However often jobs die, lose the server of another job or leave half a file
\* behind, submitting again completes every task in the end.
EveryTaskCompletes == <>(\A task \in SweepTasks : disk[DirOf(task)].complete)
=============================================================================
