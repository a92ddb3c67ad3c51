--------------------------- MODULE HierarchicalDE ---------------------------
(***************************************************************************)
(* LSDE: optimize_lsde of hpc/wflop_cpp/src/algorithms.cpp.  A generation  *)
(* partitions the rows into three clusters, evaluates one trial per row,   *)
(* and, when two clusters have stagnated beside one that has improved,     *)
(* overwrites the worst rows of the stagnant two with rows of the first    *)
(* improved one; then the population follows a cosine plan.                *)
(*                                                                         *)
(* Distances are not computed.  Equal layouts fall into one cluster, the   *)
(* best row's is the first, and farthest-first centroids leave as many     *)
(* clusters occupied as there are different layouts, up to three; any      *)
(* partition like that is taken.  Layers and donors only shape a trial.    *)
(***************************************************************************)
EXTENDS PopulationSearch

Algorithms == {"lsde"}

\* size: initial_population, 120; floor: minimum_population, max(4, ceil(0.3 * turbines))
\* and at most 120; percent: 140; restart: 10; plan: the cosine plan, population size
\* for the evaluations spent.
SettingOK(s) ==
  /\ RuntimeSetting(s)
  /\ s.floor \in Nat /\ s.floor >= 3
  /\ \A b \in s.budgets : s.size \in s.floor .. b
  /\ s.percent \in Nat /\ s.restart \in 0 .. 50
  /\ \A b \in s.budgets : s.plan \in [0 .. b -> s.floor .. s.size]

InitialSize == Setting[algorithm].size
ArchivePercent == Setting[algorithm].percent
RestartPercent == Setting[algorithm].restart
Plan == Setting[algorithm].plan

Clusters == 0 .. 2

VARIABLES
  cluster,  \* cluster_of each row, in the present generation
  active    \* clusters in which a row has improved

vars == <<pc, deVars, runtimeVars, cluster, active>>

Capacity(size) == RoundedQuotient(ArchivePercent * size, 100)

Init == DEInit /\ cluster = <<>> /\ active = {}

Initialize ==
  /\ pc = "init"
  /\ InitializeRows(InitialSize)
  /\ pc' = "loop"
  /\ UNCHANGED <<archive, cluster, active>>

\* cluster_of for the cluster each present layout is nearest to.
IsPartition(of) ==
  LET present == {population[r] : r \in Rows}
      occupied == IF Cardinality(present) >= 3 THEN 3 ELSE Cardinality(present)
  IN /\ of[population[First(fitness)]] = 0
     /\ {of[l] : l \in present} = 0 .. occupied - 1

\* Clusters from the state before selection, then trials, selection and memories.
Generation ==
  /\ pc = "loop"
  /\ fes < budget
  /\ \E of \in [{population[r] : r \in Rows} -> Clusters] :
       IsPartition(of) /\ cluster' = [r \in Rows |-> of[population[r]]]
  /\ \E batch \in [Prefix(Rows) -> Layouts] :
       /\ Evaluate(batch)
       /\ Replace(batch, Improved(batch))
       /\ archive' = archive \cup Parents(Improved(batch))
       /\ active' = {cluster'[r] : r \in Improved(batch)}
  /\ pc' = "restart"

Members(c) == {r \in Rows : cluster[r] = c}

CeilPercent(percent, n) == (percent * n + 99) \div 100

\* The first two stagnant clusters, when there are two beside an active one.
Restarted ==
  LET stagnant == Clusters \ active
  IN IF Cardinality(stagnant) >= 2 /\ active # {}
       THEN {c \in stagnant : Cardinality({d \in stagnant : d < c}) < 2}
       ELSE {}

\* The worst rows of a stagnant cluster, at least one of them.
Overwritten(c) ==
  LET count == IF CeilPercent(RestartPercent, Cardinality(Members(c))) >= 1
                 THEN CeilPercent(RestartPercent, Cardinality(Members(c))) ELSE 1
      Worse(i, j) == fitness[i] < fitness[j] \/ (fitness[i] = fitness[j] /\ i < j)
  IN {r \in Members(c) : Cardinality({s \in Members(c) : Worse(s, r)}) < count}

\* Rows of the first active cluster are copied over them, with their fitness.
Restart ==
  /\ pc = "restart"
  /\ LET rows == UNION {Overwritten(c) : c \in Restarted}
         source == IF active = {} THEN {} ELSE
                     Members(CHOOSE c \in active : \A d \in active : c <= d)
     IN \E from \in [rows -> source] :
          /\ population' = [r \in Rows |->
               IF r \in rows THEN population[from[r]] ELSE population[r]]
          /\ fitness' = [r \in Rows |->
               IF r \in rows THEN fitness[from[r]] ELSE fitness[r]]
  /\ pc' = "reduce"
  /\ UNCHANGED <<archive, cluster, active, runtimeVars>>

\* The population never grows back; the archive is trimmed to the new size every time.
ReducePopulation ==
  /\ pc = "reduce"
  /\ LET size == IF Plan[fes] < Size THEN Plan[fes] ELSE Size
     IN /\ IF size < Size THEN KeepTop(size) ELSE UNCHANGED <<population, fitness>>
        /\ Trim(archive, Capacity(size))
  /\ pc' = "loop"
  /\ UNCHANGED <<cluster, active, runtimeVars>>

LeaveLoop ==
  /\ pc = "loop" /\ fes >= budget
  /\ pc' = "finish"
  /\ UNCHANGED <<deVars, runtimeVars, cluster, active>>

Finish ==
  /\ pc = "finish"
  /\ pc' = "done"
  /\ UNCHANGED <<deVars, runtimeVars, cluster, active>>

Step ==
  \/ Initialize \/ Generation \/ Restart \/ ReducePopulation \/ LeaveLoop \/ Finish

-----------------------------------------------------------------------------
(* Properties.                                                             *)

\* Between generations the archive fits the present population.
ArchiveFits == pc = "loop" => Cardinality(archive) <= Capacity(Size)

\* A restart is the only step that may give up a row for a worse one, and it gives up
\* only rows of clusters without success, while another cluster has just had one.  The
\* best row is lost only with a whole cluster of rows that are no better and no worse.
RestartJustified ==
  /\ \A r \in Rows \cap DOMAIN fitness' : pc # "reduce" /\ fitness'[r] < fitness[r] =>
       pc = "restart" /\ cluster[r] \notin active /\ active # {}
  /\ pc = "restart" /\ (\A r \in Rows : fitness'[r] < fitness[First(fitness)]) =>
       \A r \in Members(cluster[First(fitness)]) : fitness[r] = fitness[First(fitness)]
=============================================================================
