# A verification project for fode-hpc-wflop

TLA+ models of this repository, TLC runs over small instances of them, and
theorems about them whose proofs TLAPS checks. The repository computes
wind-farm layouts with eighteen single-objective searches, two offshore genetic
algorithms and seven multi-objective searches, each under a fixed budget of layout
evaluations, and runs the published comparison as campaigns on a remote host. What
it promises is exactness: every evaluation is counted, every index of a parallel
stage runs once, no result depends on the schedule, what a search reports is the best
it has paid for, no accepted result is computed again, and a report is made only
of results that belong together.

`PROJECT.json` lists components, runs, mutants, the map from definitions to
source lines, hazards and theorems. This file explains them. Paths are relative to
`src/`.

## 1. Inventory

### 1.1 Components

| Component | Source | State it keeps | Operations | Modelled by |
|---|---|---|---|---|
| Persistent executor | `hpc/fode_cpp/src/executor.cpp`, `executor.hpp` | threads, `task_`, `end_`, `next_`, `completed_workers_`, `started_workers_`, `epoch_`, `stopping_` | constructor, `parallel_for`, `worker_loop`, destructor | `PersistentExecutor`, `ForkJoin` |
| Evaluator | `hpc/fode_cpp/src/evaluator.cpp` | flat arrays handed from loop to loop | validate; five parallel loops, or three of which one may be parallel | `Evaluator`, `BatchEvaluation`, `WakeModel` |
| FODE optimizer | `hpc/fode_cpp/src/optimizer.cpp` | population, fitness, archive, eight history matrices, two FES counters, best | initialize, a generation, LPSR, local search, result | `FodeOptimizer`, `FixedWorkSearch` |
| Layout repair | `optimizer.cpp`, `algorithms.cpp`, `hpc/gga_cpp/src/main.cpp` | occupied cells, `placed`, `draw` | mark, fill, drop, emit | `LayoutRepair` |
| Algorithm family | `hpc/wflop_cpp/src/algorithms.cpp` | `Runtime` (budget, best), populations, archives, clusters, personal and global bests, references | thirteen generation loops for seventeen searches | ten modules, composed in `AlgorithmFamily` |
| Registry and command line | `hpc/wflop_cpp/src/registry.cpp`, `main.cpp` | the records, the output file | choose the searches, run, write aside, rename | `WflopCommand` |
| GGA, GeoGA, T-MOEA | `hpc/gga_cpp/src/main.cpp` | population; population and report | three optimizers, two repairs | `GeometricGenetic`, `NondominatedSorting`, `LayoutRepair` |
| PBEA program | `hpc/pbea_cpp/src/main.cpp` | populations, archives, ideal point, reference range | NSGA-II, AR-MOEA, MOPSO, MORIME, MOEA/D, MOEA/D-P | five modules, composed in `FrontFamily` |
| Campaign runner | `scripts/run_all_*`, `run_fixed_work_campaign.sh`, `run_bde_*`, `run_offshore_*`, `run_pbea_*` | the build directory; per campaign: environment, `.partial` and result files, manifest, receipt | build, record, reuse or run a seed, publish, seal, summarize | `CampaignRunner`, `ResumableWork` |
| Suite launcher and controller | `scripts/launch_*`, `scripts/deploy_and_launch_*` | `suite.lock`, `status.json`, the worktree's HEAD | lock, begin, end; merge, gate, decide, launch | `FormalSuite` |
| Staged campaign | `hpc/wflop_cpp/spark2/campaign.sh` | build, admission, performance and formal receipts, result files | four commands | `StagedCampaign` |
| Case loader, counter RNG, FODE command line, finalizer, preparation, audits, statistics, contracts | see `PROJECT.json` | none between calls | read, compare, compute | not modelled, see 8 |

### 1.2 How they interact

* An optimizer owns one executor and calls `parallel_for` for candidates, repair
  and evaluation. It relies on one thing: when the call returns, every index has
  run exactly once and its writes are visible. `ForkJoin` is that promise, and
  `Evaluator` is written over it.
* The evaluator answers a batch: `BatchEvaluation` is what it owes the optimizers,
  which see only the values.
* A single-objective search owes its caller a fixed amount of work and an honest
  best. `FixedWorkSearch` is that promise, implemented by FODE, by the seventeen of the
  algorithm family and by GGA and GeoGA. A multi-objective search owes a front of what
  it has evaluated: `FrontSearch`, implemented by the seven of them.
* The command line owes the campaign an output file that is whole. A campaign owes
  the suite resumable work: a job that is accepted stays accepted, and a receipt is
  written over complete work (`ResumableWork`). Campaigns talk to each other only
  through files.
* The controller and the operator start launchers; launchers exclude each other
  with `flock`; the run inherits the lock's descriptor. The controller also writes
  two things a live run reads: the worktree and the build directory.
* The staged campaign is a separate, older path with four commands that communicate
  through receipts; its results are whole outputs of the command line.

### 1.3 What is hard, and what correctness means

* **Executor.** Threads that spin and then sleep on an atomic; a destructor and
  a constructor that race with their workers' first and last reads. Correct: each
  index once, no early return, plain fields never raced, no epoch missed, no
  wake-up lost, every call and the destructor return.
* **Evaluator.** Flat arrays whose positions are decoded from one integer, written
  by many threads in no order, by two different schedules. Correct: indices of a loop
  do not disturb each other, a cell is written once, and the answer is the physics
  of each layout with every addend in its order.
* **Searches.** Vectors that must follow a population through replacement, ranking,
  reduction, restarts and tournaments; a budget that ends in the middle of a batch,
  and for some searches in the middle of a generation of several batches; two
  counters that both guard FODE's loop; archives trimmed for one size and used at
  another. Correct: vectors aligned, budget spent exactly, the best reported is the
  best evaluated, memories sound, elites kept, every loop ends.
* **Fronts.** Archives cut member by member, reference corners that outlive the
  layouts they stem from, offspring that replace neighbors one after another, reports
  made from something else than the archive. Correct: the front is that of
  everything evaluated until room runs out and never dominated within itself
  afterwards; nothing held is given up for something worse.
* **Repair.** Four random fills, one with a fallback that can overshoot. Correct: always
  ends with one available cell per turbine and keeps what the search asked for.
* **Campaigns.** Crashes between any two file operations, kills of the launcher
  alone, deployments while a run is live, rebuilds between gates. Correct: one suite
  at a time, accepted results kept, *completed* backed by the files, one recorded
  commit per analysis, formal results only from a binary that passed the gates.

The hazards behind this list, each at its line, are in `PROJECT.json`.

## 2. Plan

| # | Modules | Abstract specification | Run | Theorems | State |
|---|---|---|---|---|---|
| 1 | `PersistentExecutor` | `ForkJoin` | `executor_team`, `executor_serial` | all safety, refinement | done |
| 2 | `FodeOptimizer` | `FixedWorkSearch` | `fode` | all safety, refinement | done |
| 3 | `LayoutRepair`, four programs | | `repair` | all safety | done |
| 4 | `CampaignRunner`, `FormalSuite` (composes it) | `ResumableWork` | `suite`, `suite_provenance` | all safety, refinement | done |
| 5 | `Evaluator` over `ForkJoin`, `WakeModel` | `BatchEvaluation` | `evaluator` | all safety, refinement | done |
| 6 | `AlgorithmFamily` over `SuccessHistory`, `CompetitiveElimination`, `HierarchicalDE`, `ElitistSearch`, `ParticleSwarm`, `HierarchicalSwarm`, `GeneticLayouts`, `GeometricGenetic` | `FixedWorkSearch` | `family`, `cede_terminal` | all safety, refinement | done |
| 7 | `FrontFamily` over `NondominatedSorting`, `AdaptiveReference`, `ArchiveSwarm`, `Decomposition` | `FrontSearch` | `fronts` | all safety, refinement | done |
| 8 | `WflopCommand` | | `wflop_command` | all safety | done |
| 9 | `StagedCampaign` | | `staged_campaign` | its safety property | done |

Left for later: the front/summary pair of the three-objective campaign (section 8).

## 3. The models

### 3.1 `PersistentExecutor` and `ForkJoin`

One state component per field of the class, and `pc` per thread. Each access
another thread can observe is an action: the stores of `parallel_for` (`SetTask`,
`SetNext`, `SetEnd`, `ResetCompleted`, `PublishEpoch`, `NotifyJob`), the loop of
`consume_current_job` (`FetchIndex`, `CheckIndex`, `RunIndex`), the worker's poll
and sleep (`LoadEpoch`, `KeepWaiting`, `WaitEpoch`, `SeeJob`, `SeeStop`), the join,
and the destructor. `held`, `observed`, `current` and `spins` are the threads' local
variables; `runs`, `calls` and `args` are history. `WaitEpoch` compares and sleeps in
one step, as `std::atomic::wait` does, and a sleeping worker only proceeds when it is
notified: a lost notification would be visible.

`ForkJoin` knows one call: `Fork` a range, `Finish` each index once, `Return` when
nothing is left. The refinement maps `todo` to the indices not run yet.

Abstracted: memory orders. Acquire and release pairs make each atomic behave as one
location; the plain fields get `NoFieldRace` instead. Exceptions of a task or of
thread creation are not modelled.

### 3.2 `FodeOptimizer`, `FixedWorkSearch`

Stages of a generation are actions: `EvaluateChildren` (the batch cut to the
budget), `SelectSurvivors` (archive, replacement, histories), `Reduce` or
`KeepPopulation` (LPSR), `CountLegacy`, `LocalSearch`, `LeaveLoop`, `Finalize`. A row
keeps the name of the slot it started in, so alignment is a statement about sets of
names: `history[f][k]` is the set of rows of a matrix. A layout is a value with a
power; the operators that build a layout may build any, so what only shapes a
candidate is not kept (success memory, p-best, `r1`, `r2`, fractional weights,
iteration counter). `retain_rows` throws when a matrix has the wrong number of rows:
that is the stage `"drifted"`.

`FixedWorkSearch` spends a budget in batches, improves its best or leaves it, and
ends when the budget is spent.

### 3.3 `LayoutRepair`

One candidate through one of the four repairs of the repository, chosen by the first
state: FODE's, the one the algorithm family shares, GGA's and T-MOEA's. `Mark` takes one
coordinate (off the grid it is drawn again, or cannot occur; a blocked one is dropped),
`CountPlaced`, `Fill` (FODE: one draw and, past the limit, the fallback) or `Draw` (the
others: draw until a free cell comes), `Drop` (GGA may have too many), `Emit`. The random
stream is an adversary: it may draw any cell at any time.

### 3.4 The algorithm family

`WflopRuntime` is `struct Runtime`, through which every search evaluates: `Prefix` cuts a
batch to the budget, `Evaluate` counts it and lets each row replace a smaller best,
`EvaluateUntracked` only counts (`track_best = false`), `Unless` is the exception of
an empty batch. `PopulationSearch` adds the population and its fitness vector, and for the differential
evolutions the archive and the linear reduction. On these, one module per kind of loop:

| Module | Searches | What it keeps beside the population |
|---|---|---|
| `SuccessHistory` | LSHADE, CLSHADE, ALSHADE, MS-SHADE, WFADDE | archive of beaten parents, or of failed trials |
| `CompetitiveElimination` | CEDE | archive; how many rows the remaining budget pays for in each of three batches |
| `HierarchicalDE` | LSDE | archive, clusters and which of them had success |
| `ElitistSearch` | ISE, BDE, AIGA, CIGA, PPGA | the turbine order of each row (AIGA) |
| `ParticleSwarm` | AGPSO, CGPSO | personal bests, global best, stagnation, turbine order |
| `HierarchicalSwarm` | HGPSO | references, global best, stagnation |
| `GeneticLayouts` | AGA, SUGGA | layouts as rows of cells, and the least productive cell of each |
| `GeometricGenetic` | GGA, GeoGA | nothing: the best is looked up in the last population |

A stage between two evaluations is an action; ranking is `Ranked`, the stable sort of the
code. A layout is a value with a power, except in `GeneticLayouts`, whose operators must
keep a layout feasible by themselves. What only shapes a candidate (success memories,
strategies, donors, chaos maps, velocities, levels, distances) is a free choice of a
repaired layout; where it decides control it is kept (clusters are partitions the
distances could produce, stagnation counts are exact).

`AlgorithmFamily` is `optimize` and the `main` of `gga_cpp`: the first state chooses a
search, and only its steps follow. Each module states in `SettingOK` what its searches need
of their parameters: a budget that pays for the initial population, and what the constants
of the code guarantee beyond it, such as a floor of three rows (LSHADE and its kin), an
elite smaller than the population (`BreedingSetting`, PPGA) and a restart of at most half of
it (LSDE). ISE leaves its loop below four rows, and has fewer only when the budget is spent on
them (`SphericalSetting`). `WflopCommand` shows that every registered name and
problem does lead to a search.

### 3.5 The front family

`ParetoFronts` has dominance, the ranking by fronts, the survivors by rank, the order
crossover, and the counting of evaluations. The code peels one front off after the other;
`Rank` says which front a layout ends up on: the longest chain of layouts above it
(`ChainsAbove`). A population whose order matters only to ties is the number of copies of
each layout. Crowding distance, grid and indicator are a free choice, except that the ends
of a front have infinite distance. On it: `NondominatedSorting` (NSGA-II with the
crossover, T-MOEA with its budget), `AdaptiveReference` (AR-MOEA: archive, reference
range), `ArchiveSwarm` (MOPSO, MORIME), `Decomposition` (MOEA/D, MOEA/D-P: the ideal point
and the replacement, one offspring per step). `FrontFamily` composes them as
`AlgorithmFamily` does.

`FrontSearch` is what they owe: with room for it, the front held is the front of
everything evaluated; without, a set of evaluated, mutually nondominated points; and a
run ends with its budget spent. MOEA/D has no archive and owes the second from the start.

### 3.6 `WflopCommand`

One invocation after another for the same output, each asked for some names on one
or all cases. Records stay in memory (`RunOne`), are written aside (`OpenTemporary`,
`WriteSome`) and renamed. `RunFails` is any exception; `Kill` may come between any two
steps and leaves the files as they are. A record carries the invocation it comes from.

### 3.7 `CampaignRunner`, `FormalSuite`, `ResumableWork`

`CampaignRunner` is the script that `run_all_*` is, with the campaign scripts it
calls inlined: `BuildAll`, per campaign `Rebuild` (some), `RecordEnvironment`, per
seed `ReuseSeed` or `MissSeed`, `Execute`, `ValidateStaged`/`ValidateDirect`,
`Publish`, then `OpenManifest`, `FillManifest`, `WriteReceipt`, and at the end
`Summarize`. `RunFails` is `set -e`: any command may be the last. Two kinds of
campaign differ in the code and in the model: staged ones write `.partial` and
rename, and count their files at the receipt; the others write in place (the
program itself renames, which is `WflopCommand`) and count before the manifest. Some
manifests cover `environment.json`; some campaigns build again.

`FormalSuite` EXTENDS it with the launcher (`TakeLock`, `RefuseLock`, `Begin`,
`End`), the controller (`Merge`, `CheckIdentity`, `Gate`, `ReadStatus`, `Launch`), the
operator (`LaunchByHand`, `KillLauncher`) and `HostCrash`. A result is abstracted to
the binary and the run that wrote it. A crash may lose the content, not the name, of
any file the live run wrote: rename without fsync.

`ResumableWork`: `Accept` a job once, `Seal` a family whose jobs are all accepted,
`Lose` some.

### 3.8 `StagedCampaign`

The four commands of `campaign.sh`, one at a time, each a sequence of steps that may
stop anywhere (`Stop`): `RequireFrozenInputs`, `Compile`, the build receipt in two
steps (the redirection empties it first); `RequireBuildIdentity`, `EnterGate` with the
receipts of the earlier gates, per file `Reuse` or `Execute`, `Augment`, `Publish`, and
the receipt, again in two steps. `Change` checks out another commit or copies another
freeze at any time. A version stands for all the frozen inputs and for the binary built
from them; `earned` is the history of which binary computed all results of a gate.

### 3.9 `Evaluator`, `BatchEvaluation`, `WakeModel`

`Evaluator` is one call of `evaluate_population_hpc`. A loop is a record of its body,
its size and whether it goes to the executor; `StagedLoops` and `FusedLoops` are the two
schedules. The arrays are one memory of `<<array, position>>`, zero as constructed,
and the body of a loop is a function from the memory to what it writes, with the
code's own index arithmetic. A parallel loop takes its calls from `ForkJoin`
(`CallParallelFor` is `Fork`, `End` is `Finish`, `ReturnFromParallelFor` is `Return`,
which also starts the next loop); an index reads at `Begin` and writes at `End`, with at most
one in flight per thread, in any order. A loop on the caller goes index by index.

`BatchEvaluation` gives the answer at once, from the geometry: losses to the
turbines strictly upwind, farthest first; directions outside, speeds inside;
weakest turbine first. It knows no positions, schedules or sorts of an array.

`WakeModel` is the arithmetic both share. Doubles become integers, and a sum that
decides a rounding is the sequence of its addends, so "the same number" includes
"added in the same order". The overlap of a wake and a rotor is a constant operator.

## 4. The runs

| Run | Instance | Shows |
|---|---|---|
| `executor_team` | two workers and the caller, two calls of one or three indices, spin limit 1, fair | no race, no missed epoch, no lost wake-up, no deadlock; calls return; implements `ForkJoin` |
| `executor_serial` | no workers, two calls, all ranges below six | the serial path runs every index, empty ranges too |
| `fode` | 4 rows down to 3, 3 layouts, 23 evaluations, archive of two fifths, 2 histories, fair | alignment, best, archive, draws, elitism; ends; implements `FixedWorkSearch` |
| `repair` | 4 turbines on 7 cells, 2 of them blocked for FODE and the family, coordinates 0 to 8, 3 draws before the fallback, up to 6 coordinates for GGA; all four repairs | ends, feasible, keeps the proposal |
| `family` | nineteen searches on a case each: 2 to 5 rows, 3 or 4 layouts, budgets of 7 to 19 evaluations (2 or 3 generations); AGA: two turbines on four free cells, SUGGA: three | vectors aligned, best kept, memories sound, ground kept, weakest leaves; implements `FixedWorkSearch` |
| `fronts` | seven searches on a case each: 3 to 6 layouts, 2 to 6 members, 2 or 3 generations | leaders, ideal points, reports, crossover, replacement; implements `FrontSearch` |
| `evaluator` | 3 threads, batches of 0 to 3 layouts of 1 to 3 turbines on 2 by 3 cells, 2 directions, 3 speeds, both schedules, layouts that are not feasible | indices undisturbed, cells written once; implements `BatchEvaluation`; a call is never stuck |
| `wflop_command` | 2 invocations, every name and some lists on every problem, one or both of 2 cases | the output is whole; registry and dispatch agree |
| `suite` | 2 runs, 1 controller, 2 commits (the worktree not cloned yet, or at the first), 2 campaigns of 2 seeds (one staged, one that rebuilds and hashes its environment), fair | one suite at a time, *completed* backed, one commit per analysis, accepted work kept; implements `ResumableWork`; the lock is freed |
| `staged_campaign` | 2 versions, 2 admission files, 1 performance and 1 formal file, 2 changes | formal results follow the gates |
| `suite_provenance` | 2 runs, 2 controllers, 1 campaign | violation, see 7 |
| `cede_terminal` | CEDE with 3 rows and 6 evaluations | violation, see 7 |

Bounds and why they suffice:

* Executor: two calls are the fewest in which a late worker of one call meets the next;
  one index leaves a worker without work, three give each thread one. Spin limit 1 lets
  a worker poll once and then sleep. The serial run is exhaustive over its ranges.
* FODE: 23 evaluations of four rows contain the initial batch, whole generations with
  and without local search, one reduction and a last batch cut short. The powers put
  one layout within the five per cent of the best that triggers local search and one
  outside.
* Repair: seven cells and one coordinate beyond each end of the grid; with one free cell
  to spare when two are blocked, a limit of three draws makes both the random fill
  and the fallback happen, separately and in one step; six coordinates make GGA drop.
* Family: each budget is chosen so that the run of that search meets its reduction, its
  restart, its tournament, or its early exit, and a last generation that the budget cuts
  (CEDE and HGPSO take several budgets, one per way of cutting). Three layouts with
  different powers tell better, equal and worse apart; four are needed for LSDE's three
  clusters beside a new layout.
* Fronts: a case has two extremes, a compromise that ties with one of them, and a
  dominated layout; the archive of AR-MOEA meets four mutually nondominated points with
  room for three; two generations are the fewest in which something kept in one is
  compared in the next, three let MOPSO's archive refill. AR-MOEA's layouts are two of
  four cells, so that different layouts may leave a cell to neither and the crossover
  must not reach it. The same crossover in NSGA-II runs on two of three cells, which two
  different layouts cover: its case has the six members that room for both ends of a
  front on three axes takes, too many for six layouts. The theorem covers both searches.
  The extents below which AR-MOEA widens an axis (1e-6) and what it widens it to (1.0)
  are two and three units, so that an axis of one unit is widened as well as one of none.
* Evaluator: with three turbines, two directions and two layouts every decoded factor
  (row, direction, turbine, position, speed) takes two values or more; three turbines
  give ties along the wind and a turbine in two wakes; one turbine gives the empty
  loop. Three threads leave the fused loop parallel for two layouts and on the caller
  for one.
* Command: two invocations are the fewest in which one meets the files another has left.
* Suite: two runs are what a race needs, one controller deploys beside either; two seeds
  separate *this* from *other*, two campaigns *before* from *after*; two commits, and a
  worktree that may hold the first already, let a deployment change HEAD between two
  campaigns. A run that fails leaves every prefix of its work for the second.
* Staged campaign: two versions and two changes allow a rebuild and a revert; two files in
  the first gate allow one to be reused and the other computed again.

Deadlock is checked: for the evaluator that is the statement that a call ends (every
step but `Ended` brings the call forward). Only the suite switches it off: its operator
need never launch again.

## 5. Fairness

* Executor: weak fairness of each thread's own steps. Threads are scheduled by the
  operating system and each step is enabled until taken; a sleeping worker has no
  step until it is notified. Tasks are assumed to end.
* FODE and the family: weak fairness of the one sequential loop, whichever candidates come.
* Repair: weak fairness of the loop, and of each cell being drawn for the three repairs
  without a fallback: their streams draw every cell with the same probability, and leave
  one out for ever with probability zero. For FODE nothing is assumed of the draws, so
  its share of `RepairEnds` is due to the fallback alone.
* Suite: weak fairness of each run and each launcher. `RunFails` counts as a step, so
  a run that is failing is not obliged to succeed, only to end. Controllers, the
  operator and crashes are never obliged to act.
* The other specifications state none: they are about what may not happen.

## 6. The theorems

Every theorem holds for all values of the constants under the named assumptions of
the module.

* **`PersistentExecutor_proofs`**, assuming `ExecutorAssumption` (finitely many
  workers, the caller is not one of them). The invariant is split by phase of the
  caller's life: constructing, quiet (every worker has finished the present
  epoch), dispatching, tearing down. Its core is a count: `completed` equals the number
  of workers that stand at the present epoch while a job is out. From that follow
  `DoneOnReturn` (the join sees all), `NoFieldRace` (stores happen only in quiet
  phases), `NoMissedEpoch` and `NoLostWakeup`. `AtMostOnce` needs that indices at or
  above `next` have not run and that no two threads hold the same one. The
  refinement to `ForkJoin` uses the same invariant.
* **`FodeOptimizer_proofs`**, assuming `FodeAssumption` (budget at least the
  initial population; at least three rows at the start and at the floor). The
  invariant adds to the checked properties a ledger: at each stage what `fes` and
  `legacy` differ by. `legacy + InitialSize <= fes` at the head of the loop is why the
  second guard can never end a run early. Theorems: `NeverDrifts`,
  `BudgetSpentExactly`, `BestIsBest`, `ArchiveStaysSound`, `DrawsStayPossible`,
  `EliteIsKept` and the refinement `FodeIsFixedWork`.
* **`FormalSuite_proofs`**, assuming `SuiteAssumption` (a suite names each campaign
  once), `FilesAssumption` and `DigestAssumption` (the markers for a missing and an
  empty file are not contents). Everything rests on the lock: `OneSuiteAtATime` is
  inductive with types alone, and with it what one run established about the files
  holds when it acts on them. `RunInv` says what a run knows at each step (seeds
  before the present one are accepted, the present one is not, the manifest is
  filled); it gives `WorkIsKept` and `SuiteIsResumable`. A second invariant, `CInv`,
  follows the files until they are reported: campaigns behind the run are backed, a
  passed run not yet reported has everything backed and one commit, and nothing
  writes while the status says completed. It gives `CompletedBacked` and
  `OneHeadAnalysed`. A crash is harmless there because only a live run's results can
  be lost, and none is live.
* **`Campaign_proofs`**, two independent parts. Of `StagedCampaign`, assuming
  `StagesAssumption` (each gate has a file; the two file markers are not contents): the
  invariant says what a command knows at each place (`Located`, `AtHand`): the files before
  the present one carry the identity of the running gate, which was computed by the binary
  it names. `Admitted`: that identity had earned the gates before. With `ResultsSound` and
  `ReceiptsSound`, and because `earned` only grows, `GatesHold` follows: no rebuild or
  change of the freeze can take back what a receipt of the same identity says.
  Of `WflopCommand`, assuming `CommandAssumption` (no empty manifest, no empty list of
  names): `WorkSplit`, the records and what is left to do make up the work of the request;
  `FileGrows`, the temporary file holds the first of the records. `OutputAlwaysWhole`
  follows for any number of invocations, kills and failures. `PairsStayRegistered`
  compares the registry with the dispatch for every list.
* **`LayoutRepair_proofs`**, assuming `RepairAssumption` (the turbines fit on the available
  cells). The output takes the first cells of a set, and how many those are is the one
  fact about data: the number of smaller members maps a finite set injectively into as
  many numbers, hence onto (`FewMembers`). The invariant `IInv` says of the marking loop
  that every available cell looked at is occupied, and of the filling loop how `placed`
  relates to the occupied cells and when a cell beyond the proposal may be among them.
  `AlwaysFeasible` and `ProposalRespected` hold for all four repairs on any grid.
* **`AlgorithmFamily_proofs`**, assuming `SettingAssumption` (the `SettingOK` of each chosen
  search) and, for the refinement, `BudgetAssumption` (the budgets compared have a
  greatest); layouts, powers, population sizes and budgets are any. It is built in layers.
  *Runtime*: `RunSound` says that what is counted and reported belongs to what was
  evaluated; `EvaluateSound` that a batch within the budget keeps that, `PrefixPays` that
  the first rows cut to the budget are within it. *Ranking*: `Ranked` is a bijection of the
  rows (each is preceded by a different number of others), so that keeping the first of it
  keeps the rows that are best: for every power, as many rows at least that good
  as before, up to the rows kept. That is `GroundKept`, for the greedy replacement, the
  reduction, and the merge of parents and offspring. *Archives* fit and hold only beaten
  layouts. On these each module has its invariant (`HistoryInv`, `CompetitiveInv`,
  `ClusteredInv`, `ElitistInv`, `SwarmInv`, `LeveledInv`, `GeneticInv`, `GeometricInv`):
  what the stage `pc` lets the vectors be, how much of the budget is left there, and where
  the best is held; a lemma says that a step keeps it. CEDE's needs
  what a generation still owes (`SharePaidFor`), the swarms' that personal bests and `gbest`
  agree only between the stages, HGPSO's that a row is ahead of its reference only while its
  stagnation is zero, GeoGA's that a layout forgotten was no better than one held.
  `FamilyInv` is the sum; a step of one search leaves the variables of the others at their
  first value. No invariant has the stage `"thrown"`: evaluate is never called with nothing
  left. Theorems: `VectorsStayParallel`, `BestIsNeverLost`, `MemoryStaysSound`,
  `GroundStaysKept`, `WeakestAlwaysLeaves`, and `FamilyIsFixedWork`, that every step
  maps to one of `FixedWorkSearch` or a stutter.
* **`FrontFamily_proofs`**, assuming `SettingAssumption` and, for the refinement,
  `WorkAssumption` (the runs compared have a longest); layouts, objectives, axes, population
  sizes, generations, weights and neighborhoods are any. What the searches share is restated
  for a setting in place of the one that is run and proved once. The argument is coverage
  (`CoversIn`, `NoWorseIn`): below every layout of a population is one of its first front
  (`FrontBelow`), rank is 0 on that front only (`RankOnFront`), so survival by rank keeps the
  whole front as long as it fits. `Knows` is the invariant that follows: while nothing was cut, for
  every layout evaluated one is held that is no worse on any objective. `FrontInv` is the sum of
  `SortingInv` (beside it: the least of each objective is held), `ReferencesInv` (archive and
  corners follow everything evaluated), `SwarmInv` (the archive has 1 to `PopulationSize`
  members, MOPSO's none that another dominates) and `DecomposedInv` (the ideal point; rows and
  offspring have been evaluated), each over `RunInv`, the ledger of generations and
  evaluations. Theorems: `LeadersAreSound`, `IdealIsRemembered`, `ReportIsSound`,
  `CellsAreInherited`, the action property `NothingIsGivenUp`, and `FamilyIsFrontSearch`,
  that every step maps to `Batch`, `Settle` or `Finish` of `FrontSearch` or a stutter.

* **`Evaluator_proofs`**, assuming `WakeAssumption` (a grid, at least one direction and one
  speed, a probability for each pair), `WakeShareAssumption` (what one turbine takes from
  another is a number) and `EvaluatorAssumption` (at least one thread; the
  arguments have their types; nothing is assumed of a layout). The arithmetic comes first:
  `PositionsApart` (`k * n + t` tells the block `k` from the place `t` in it),
  `PositionWithin`, `Decoded` and `DecodedBlock` (what `/` and `%` give back), each from
  products expanded by hand. `StableOrderSound`: the sort of any keys has each
  turbine at one place, because no two have equally many before them. `Owed(i)` is what
  index `i` of the present loop must write, computed from the arguments alone, and
  `WrittenIsOwed` says that this is what its body computes once the arrays it reads are
  `Ready`. The invariant `EInv` joins `Ready` with `LoopInv`: an index in flight holds
  `Owed(i)`, and the memory matches what the indices that are done owed. Because
  the cells of two indices differ (`OwedApart`) and a loop writes none of the arrays it
  reads, `ReadsStayStable` and `WritesStayApart` follow. `AnswersAreDetermined`: a call
  rejects its arguments exactly when they are not valid, and otherwise each row of the
  result is `AnswerTo(row)`, which mentions no memory, schedule or thread.
  `EvaluatorIsBatchEvaluation` goes on to what that answer is. The code adds up the shares
  of all turbines before one in its sort along the wind, `BatchEvaluation` those of the
  turbines strictly upwind. Both sorts are by rank, which fixes them (`SortedIsOrder`), so
  up to its own place a turbine meets the ones upwind and then the ones level with it
  (`UpwindThenLevel`), whose shares are zero and dropped (`WindLossesOfRow`). What the folds
  compute is found by a set of numbers that has 0 and the successor of each number in it
  (`Reaches`), in place of the induction schema.

Only model-checked:

* Liveness (`EveryCallReturns`, `RunEnds`, `RepairEnds`, `LockFreed`) and the fairness
  half of the refinements: outside what the prover does.

## 7. Findings

* `suite_provenance` shows a completed, analysed suite in which a result was computed
  by a program built from another commit than the one its campaign's
  `environment.json` records, the one the summarizer takes for the results' commit.
  Two ways lead there. The controller merges and rebuilds in the worktree and
  build directory of a live run before it reads the status. And a later run rewrites
  `environment.json` with the present HEAD and reuses the earlier run's results, which
  the seed validator accepts without asking which binary made them. What does hold is
  `OneHeadPerAnalysis`: the *recorded* commits agree.
* `cede_terminal` shows CEDE evaluating, and paying for, a random mutation better than
  the best it reports: it passes `track_best = false` (`algorithms.cpp:2047`) and keeps
  none of these layouts, where `shared/contracts/algorithm_parameters.json:22` asks to
  retain every evaluated candidate and update the best state.

Two more things were met while modelling; neither has a run of its own. MORIME's
archive is filled by rank and crowding up to its size, dominated layouts included
(`hpc/pbea_cpp/src/main.cpp:1414`), where `docs/semantic_discrepancy_ledger.tsv:68` speaks
of the current nondominated archive; `LeadersSound` therefore asks for nondominated
leaders of MOPSO only. And when the two parents of an offspring coincide, MOEA/D takes
the position after the *slot number* of the first in the pool (`main.cpp:2300`), not after
its position; that only shapes a candidate.

## 8. Limits and what is not modelled

* Numbers. Power, wakes, costs and objectives are values with an order; arithmetic on
  them is not modelled, nor are the spline and cable-cost arithmetic of the offshore
  program. Determinism of a whole search in the number of threads follows from the
  counter-keyed generator and `ForkJoin` for tasks that write their own cells only, which
  `Evaluator` shows of the evaluation and nothing of the candidate loops.
* Counter RNG: a pure function of its key, the models draw every value it could return.
  That two draws of a run never share a key is not checked.
* A budget below the initial population is outside the assumptions (`FodeAssumption`,
  `SettingOK`): FODE evaluates the whole population anyway, the swarms index beyond a
  short batch. Listed as a hazard without a property; every campaign passes 24,000.
* The front and the summary of a three-objective run count as one file in
  `CampaignRunner`. Their two renames are a hazard no property covers, and the finalizer,
  which hashes a complete file matrix and renames one receipt, is not modelled.
* Suites started without the launcher, as the README of the repository also shows, and two
  commands for one output at the same time: no lock is taken there, and temporary names
  are shared (a hazard without a property).
* `campaign.sh`: the monitor of external load and the quiet-host check are part of
  "the status is false" or "a command fails"; its status command changes nothing.
* Exceptions of a parallel task or of thread creation; reuse of a process id; host names,
  worker counts and the rsync of assets.
* Case loader, FODE command line, problem preparation, audits, statistics, contracts: pure
  functions of files that run once, with no state between calls.
