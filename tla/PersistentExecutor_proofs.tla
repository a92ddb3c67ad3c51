--------------------- MODULE PersistentExecutor_proofs ----------------------
(***************************************************************************)
(* The safety of the thread team for every number of workers, every set of *)
(* ranges and every number of calls.                                       *)
(***************************************************************************)
EXTENDS PersistentExecutor, FiniteSetTheorems, TLAPS

\* A worker between jobs, polling or asleep.
Waiting == {"load", "test", "wait", "asleep"}

\* The caller has published a job and not left its join.
Dispatch == {"notify", "join"} \cup Consuming

\* The caller prepares a job, or has left the join: the workers are idle.
Quiet == {"idle", "set_task", "set_next", "set_end", "reset", "publish",
          "clear", "serial", "stop", "bump"}

\* Workers that have nothing left to do for the current epoch.
Finished == {w \in Workers : pc[w] \in Waiting /\ observed[w] = epoch}

\* Workers that have announced themselves to the constructor.
Announced == {w \in Workers : pc[w] \in Waiting}

\* A thread that has taken an index and not finished it.
Holding(t) == pc[t] \in {"check", "run"}

-----------------------------------------------------------------------------
(* The inductive invariant, by phase of the caller's life.                 *)

InvConstruct ==
  /\ pc[Caller] = "construct" =>
       /\ epoch = 0 /\ calls = 0 /\ args = <<0, 0>> /\ ~stopping
       /\ started = Cardinality(Announced)
       /\ \A w \in Workers :
            /\ pc[w] \in {"unborn", "enter", "announce"} \cup Waiting
            /\ observed[w] = 0 /\ current[w] = 0
  /\ pc[Caller] # "construct" =>
       \A w \in Workers : pc[w] \notin {"unborn", "enter", "announce"}

InvStopping ==
  /\ stopping <=> pc[Caller] \in {"bump", "wake", "reap", "gone"}
  /\ \A w \in Workers : pc[w] = "exit" => stopping

\* What a worker's view of epoch_ can be.
InvQuiet ==
  pc[Caller] \in Quiet =>
    \A w \in Workers :
      /\ pc[w] \in Waiting \cup {"exit"}
      /\ observed[w] = epoch
      /\ pc[w] = "test" => current[w] = epoch

InvDispatch ==
  pc[Caller] \in Dispatch =>
    /\ completed = Cardinality(Finished)
    /\ \A w \in Workers :
         \/ /\ observed[w] = epoch - 1
            /\ pc[w] \in Waiting
            /\ pc[w] = "test" => current[w] \in {epoch - 1, epoch}
            /\ pc[w] = "asleep" => pc[Caller] = "notify"
         \/ /\ observed[w] = epoch
            /\ pc[w] \in Consuming \cup {"complete"}
         \/ /\ observed[w] = epoch
            /\ pc[w] \in Waiting
            /\ pc[w] = "test" => current[w] = epoch

InvTeardown ==
  pc[Caller] \in {"wake", "reap", "gone"} =>
    \A w \in Workers :
      /\ pc[w] \in Waiting \cup {"exit"}
      /\ observed[w] = epoch - 1
      /\ pc[w] = "test" => current[w] \in {epoch - 1, epoch}
      /\ pc[w] = "asleep" => pc[Caller] = "wake"

\* What the fields of the job hold once the caller has written them.
InvJob ==
  /\ pc[Caller] \notin {"construct", "idle", "stop", "bump", "wake", "reap", "gone"} =>
       args \in Ranges /\ args[1] < args[2]
  /\ pc[Caller] \in Dispatch => task = calls /\ end = args[2] /\ next >= args[1]
  /\ pc[Caller] \in {"set_next", "set_end", "reset", "publish"} => task = calls
  /\ pc[Caller] \in {"set_end", "reset", "publish"} => next = args[1]
  /\ pc[Caller] \in {"reset", "publish"} => end = args[2]
  /\ pc[Caller] = "publish" => completed = 0

\* Every index below next_ has been run or is held by exactly one thread, none
\* at or above it has been touched.
InvIndices ==
  /\ pc[Caller] \in {"set_task", "set_next", "set_end", "reset", "publish"} =>
       \A i \in Indices : runs[i] = 0
  /\ pc[Caller] \in Dispatch =>
       \A i \in IndicesOf(args) :
         /\ i >= next => runs[i] = 0
         /\ i < next => runs[i] = 1 \/ \E t \in Threads : Holding(t) /\ held[t] = i
  /\ \A t \in Threads : Holding(t) =>
       /\ args[1] <= held[t] /\ held[t] < next
       /\ pc[t] = "run" => held[t] < end
       /\ held[t] < end => runs[held[t]] = 0
  /\ \A t, u \in Threads : Holding(t) /\ Holding(u) /\ held[t] = held[u] => t = u
  /\ \A i \in Indices : runs[i] <= 1

\* Whoever has left consume_current_job has seen the range exhausted.
InvExhausted ==
  /\ pc[Caller] = "join" => next >= end
  /\ \A w \in Workers : pc[w] = "complete" => next >= end

InvSerial ==
  pc[Caller] = "serial" =>
    /\ Workers = {}
    /\ args[1] <= held[Caller] /\ held[Caller] <= args[2]
    /\ \A i \in IndicesOf(args) :
         /\ i < held[Caller] => runs[i] = 1
         /\ i >= held[Caller] => runs[i] = 0

IInv ==
  /\ TypeOK
  /\ InvConstruct /\ InvStopping /\ InvQuiet /\ InvDispatch /\ InvTeardown
  /\ InvJob /\ InvIndices /\ InvExhausted /\ InvSerial /\ DoneOnReturn
-----------------------------------------------------------------------------
(* Facts about the operators the model is built from.                      *)

\* Counting one more element.
LEMMA OneMoreElement ==
  ASSUME NEW S, NEW T, NEW x, IsFiniteSet(S), x \notin S, T = S \cup {x}
  PROVE  Cardinality(T) = Cardinality(S) + 1
BY FS_AddElement

\* Counting one more run of an index.
LEMMA OneMoreRun ==
  ASSUME NEW f \in [Indices -> Nat], NEW i
  PROVE  [f EXCEPT ![i] = @ + 1] \in [Indices -> Nat]
<1>1. ASSUME NEW j \in Indices PROVE [f EXCEPT ![i] = @ + 1][j] \in Nat
  <2>1. CASE j = i
    BY <2>1
  <2>2. CASE j # i
    BY <2>2
  <2>3. QED
    BY <2>1, <2>2
<1>2. QED
  BY <1>1

\* The indices of the latest call are among those the model counts.
LEMMA CallIndices == TypeOK => IndicesOf(args) \subseteq Indices
BY DEF TypeOK, Indices, IndicesOf

-----------------------------------------------------------------------------
(* The two waits of the caller on a counter.                               *)

\* started_workers_ reaching the team's size means that every worker has read
\* epoch_ and stands in its loop.
LEMMA EveryWorkerAnnounced ==
  IInv /\ Constructed => \A w \in Workers : w \in Announced
<1> SUFFICES ASSUME IInv, Constructed PROVE Announced = Workers
  OBVIOUS
<1>1. Announced \in SUBSET Workers /\ Cardinality(Announced) = Cardinality(Workers)
  BY DEF Announced, Constructed, Step, IInv, InvConstruct
<1>2. QED
  BY <1>1, FS_Subset, ExecutorAssumption

\* completed_workers_ reaching the team's size means that every worker is done
\* with the epoch.
LEMMA EveryWorkerFinished ==
  IInv /\ Join => \A w \in Workers : w \in Finished
<1> SUFFICES ASSUME IInv, Join PROVE Finished = Workers
  OBVIOUS
<1>1. Finished \in SUBSET Workers /\ Cardinality(Finished) = Cardinality(Workers)
  BY DEF Finished, Join, Step, IInv, InvDispatch, Dispatch
<1>2. QED
  BY <1>1, FS_Subset, ExecutorAssumption

-----------------------------------------------------------------------------
(* Every step preserves each part of the invariant.                        *)

\* Every step keeps the fields, counters and locals in their types.
LEMMA Inductive_TypeOK == IInv /\ [Next]_vars => TypeOK'
<1> SUFFICES ASSUME IInv, [Next]_vars PROVE TypeOK'
  OBVIOUS
<1> USE ExecutorAssumption DEF IInv, Step, Goto, job, signal, local, ghost, Threads, TypeOK, CallerPCs, WorkerPCs, Indices, IndicesOf
<1>1. ASSUME NEW w \in Workers, Spawn(w) \/ EnterLoop(w) \/ Announce(w) \/ LoadEpoch(w) PROVE TypeOK'
  BY <1>1 DEF Spawn, EnterLoop, Announce, LoadEpoch
<1>2. ASSUME NEW w \in Workers,
       \/ KeepWaiting(w)
       \/ SeeStop(w)
       \/ SeeJob(w)
       \/ WaitEpoch(w)
       \/ Complete(w)
     PROVE  TypeOK'
  BY <1>2 DEF KeepWaiting, SeeStop, SeeJob, WaitEpoch, Complete
<1>3. ASSUME NEW t \in Threads, FetchIndex(t) \/ CheckIndex(t) PROVE TypeOK'
  BY <1>3 DEF FetchIndex, CheckIndex
<1>4. ASSUME NEW t \in Threads, RunIndex(t) PROVE TypeOK'
  <2>1. runs' \in [Indices -> Nat]
    BY <1>4, OneMoreRun DEF RunIndex
  <2>2. QED
    BY <1>4, <2>1 DEF RunIndex
<1>5. CASE Constructed \/ SerialIndex \/ Join \/ JoinThreads \/ Destroy
  BY <1>5 DEF Constructed, SerialIndex, Join, JoinThreads, Destroy
<1>6. CASE SetTask \/ SetNext \/ SetEnd \/ ResetCompleted \/ ClearTask
  BY <1>6 DEF SetTask, SetNext, SetEnd, ResetCompleted, ClearTask
<1>7. CASE PublishEpoch
  BY <1>7 DEF PublishEpoch
<1>8. CASE NotifyJob
  BY <1>8 DEF NotifyJob, WakeAll
<1>9. CASE SetStopping
  BY <1>9 DEF SetStopping
<1>10. CASE BumpEpoch
  BY <1>10 DEF BumpEpoch
<1>11. CASE NotifyStop
  BY <1>11 DEF NotifyStop, WakeAll
<1>12. ASSUME NEW r \in Ranges, Call(r) PROVE TypeOK'
  BY <1>12 DEF Call
<1>13. CASE UNCHANGED vars
  BY <1>13 DEF vars
<1> QED
  BY <1>1, <1>2, <1>3, <1>4, <1>5, <1>6, <1>7, <1>8, <1>9, <1>10, <1>11, <1>12, <1>13 DEF Next, CallerStep, WorkerStep, Consume, Terminated

\* The constructor's count of announced workers is kept by every step.
LEMMA Inductive_InvConstruct == IInv /\ [Next]_vars => InvConstruct'
<1> SUFFICES ASSUME IInv, [Next]_vars PROVE InvConstruct'
  OBVIOUS
<1> USE ExecutorAssumption DEF IInv, Step, Goto, job, signal, local, ghost, Threads, TypeOK, InvConstruct, Announced, InvDispatch, InvQuiet, Dispatch, Quiet, Consuming, Waiting
<1>1. ASSUME NEW w \in Workers, Spawn(w) PROVE InvConstruct'
  BY <1>1 DEF Spawn
<1>2. ASSUME NEW w \in Workers, EnterLoop(w) PROVE InvConstruct'
  BY <1>2 DEF EnterLoop
<1>3. ASSUME NEW w \in Workers, Announce(w) PROVE InvConstruct'
  <2>1. CASE pc[Caller] = "construct"
    <3>1. Announced' = Announced \cup {w} /\ w \notin Announced
      BY <1>3 DEF Announce
    <3>2. IsFiniteSet(Announced)
      BY FS_Subset
    <3>3. Cardinality(Announced') = Cardinality(Announced) + 1
      BY <3>1, <3>2, OneMoreElement
    <3>4. QED
      BY <1>3, <2>1, <3>3 DEF Announce
  <2>2. CASE pc[Caller] # "construct"
    BY <1>3, <2>2 DEF Announce
  <2>3. QED
    BY <2>1, <2>2
<1>4. ASSUME NEW w \in Workers, LoadEpoch(w) PROVE InvConstruct'
  BY <1>4 DEF LoadEpoch
<1>5. ASSUME NEW w \in Workers, SeeStop(w) \/ SeeJob(w) \/ Complete(w) PROVE InvConstruct'
  BY <1>5 DEF SeeStop, SeeJob, Complete
<1>6. ASSUME NEW w \in Workers, KeepWaiting(w) PROVE InvConstruct'
  BY <1>6 DEF KeepWaiting
<1>7. ASSUME NEW w \in Workers, WaitEpoch(w) PROVE InvConstruct'
  BY <1>7 DEF WaitEpoch
<1>8. ASSUME NEW t \in Threads, FetchIndex(t) \/ CheckIndex(t) \/ RunIndex(t) PROVE InvConstruct'
  BY <1>8 DEF FetchIndex, CheckIndex, RunIndex
<1>9. CASE SerialIndex \/ Join \/ JoinThreads \/ Destroy
  BY <1>9 DEF SerialIndex, Join, JoinThreads, Destroy
<1>10. CASE Constructed
  BY <1>10, EveryWorkerAnnounced DEF Constructed
<1>11. CASE SetTask \/ SetNext \/ SetEnd \/ ResetCompleted \/ ClearTask
  BY <1>11 DEF SetTask, SetNext, SetEnd, ResetCompleted, ClearTask
<1>12. CASE 
       \/ PublishEpoch
       \/ NotifyJob
       \/ SetStopping
       \/ BumpEpoch
       \/ NotifyStop
  BY <1>12 DEF PublishEpoch, NotifyJob, WakeAll, SetStopping, BumpEpoch, NotifyStop
<1>13. ASSUME NEW r \in Ranges, Call(r) PROVE InvConstruct'
  BY <1>13 DEF Call
<1>14. CASE UNCHANGED vars
  BY <1>14 DEF vars
<1> QED
  BY <1>1, <1>2, <1>3, <1>4, <1>5, <1>6, <1>7, <1>8, <1>9, <1>10, <1>11, <1>12, <1>13, <1>14 DEF Next, CallerStep, WorkerStep, Consume, Terminated

\* stopping_ is set exactly in the destructor, and only then do workers leave.
LEMMA Inductive_InvStopping == IInv /\ [Next]_vars => InvStopping'
<1> SUFFICES ASSUME IInv, [Next]_vars PROVE InvStopping'
  OBVIOUS
<1> USE ExecutorAssumption DEF IInv, Step, Goto, job, signal, local, ghost, Threads, TypeOK, InvStopping, InvQuiet, Quiet, InvDispatch, Dispatch, InvConstruct, Waiting, Consuming
<1>1. ASSUME NEW w \in Workers, Spawn(w) \/ EnterLoop(w) \/ Announce(w) \/ LoadEpoch(w) PROVE InvStopping'
  BY <1>1 DEF Spawn, EnterLoop, Announce, LoadEpoch
<1>2. ASSUME NEW w \in Workers,
       \/ KeepWaiting(w)
       \/ SeeStop(w)
       \/ SeeJob(w)
       \/ WaitEpoch(w)
       \/ Complete(w)
     PROVE  InvStopping'
  BY <1>2 DEF KeepWaiting, SeeStop, SeeJob, WaitEpoch, Complete
<1>3. ASSUME NEW t \in Threads, FetchIndex(t) \/ CheckIndex(t) \/ RunIndex(t) PROVE InvStopping'
  BY <1>3 DEF FetchIndex, CheckIndex, RunIndex
<1>4. CASE Constructed \/ SerialIndex \/ Join \/ JoinThreads \/ Destroy
  BY <1>4 DEF Constructed, SerialIndex, Join, JoinThreads, Destroy
<1>5. CASE SetTask \/ SetNext \/ SetEnd \/ ResetCompleted \/ ClearTask
  BY <1>5 DEF SetTask, SetNext, SetEnd, ResetCompleted, ClearTask
<1>6. CASE 
       \/ PublishEpoch
       \/ NotifyJob
       \/ SetStopping
       \/ BumpEpoch
       \/ NotifyStop
  BY <1>6 DEF PublishEpoch, NotifyJob, WakeAll, SetStopping, BumpEpoch, NotifyStop
<1>7. ASSUME NEW r \in Ranges, Call(r) PROVE InvStopping'
  BY <1>7 DEF Call
<1>8. CASE UNCHANGED vars
  BY <1>8 DEF vars
<1> QED
  BY <1>1, <1>2, <1>3, <1>4, <1>5, <1>6, <1>7, <1>8 DEF Next, CallerStep, WorkerStep, Consume, Terminated

\* Between jobs every worker keeps waiting at the current epoch.
LEMMA Inductive_InvQuiet == IInv /\ [Next]_vars => InvQuiet'
<1> SUFFICES ASSUME IInv, [Next]_vars PROVE InvQuiet'
  OBVIOUS
<1> USE ExecutorAssumption DEF IInv, Step, Goto, job, signal, local, ghost, Threads, TypeOK, InvConstruct, InvStopping, InvQuiet, Quiet, InvDispatch, Dispatch, Waiting, Consuming
<1>1. ASSUME NEW w \in Workers, Spawn(w) \/ EnterLoop(w) \/ Announce(w) \/ LoadEpoch(w) PROVE InvQuiet'
  BY <1>1 DEF Spawn, EnterLoop, Announce, LoadEpoch
<1>2. ASSUME NEW w \in Workers,
       \/ KeepWaiting(w)
       \/ SeeStop(w)
       \/ SeeJob(w)
       \/ WaitEpoch(w)
       \/ Complete(w)
     PROVE  InvQuiet'
  BY <1>2 DEF KeepWaiting, SeeStop, SeeJob, WaitEpoch, Complete
<1>3. ASSUME NEW t \in Threads, FetchIndex(t) \/ CheckIndex(t) \/ RunIndex(t) PROVE InvQuiet'
  BY <1>3 DEF FetchIndex, CheckIndex, RunIndex
<1>4. CASE SerialIndex \/ JoinThreads \/ Destroy
  BY <1>4 DEF SerialIndex, JoinThreads, Destroy
<1>5. CASE Constructed
  BY <1>5, EveryWorkerAnnounced DEF Constructed, Announced
<1>6. CASE Join
  BY <1>6, EveryWorkerFinished DEF Join, Finished
<1>7. CASE SetTask \/ SetNext \/ SetEnd \/ ResetCompleted \/ ClearTask
  BY <1>7 DEF SetTask, SetNext, SetEnd, ResetCompleted, ClearTask
<1>8. CASE 
       \/ PublishEpoch
       \/ NotifyJob
       \/ SetStopping
       \/ BumpEpoch
       \/ NotifyStop
  BY <1>8 DEF PublishEpoch, NotifyJob, WakeAll, SetStopping, BumpEpoch, NotifyStop
<1>9. ASSUME NEW r \in Ranges, Call(r) PROVE InvQuiet'
  BY <1>9 DEF Call
<1>10. CASE UNCHANGED vars
  BY <1>10 DEF vars
<1> QED
  BY <1>1, <1>2, <1>3, <1>4, <1>5, <1>6, <1>7, <1>8, <1>9, <1>10 DEF Next, CallerStep, WorkerStep, Consume, Terminated

\* During a job completed_workers_ counts the workers done with the epoch.
LEMMA Inductive_InvDispatch == IInv /\ [Next]_vars => InvDispatch'
<1> SUFFICES ASSUME IInv, [Next]_vars PROVE InvDispatch'
  OBVIOUS
<1> USE ExecutorAssumption DEF IInv, Step, Goto, job, signal, local, ghost, Threads, TypeOK, InvConstruct, InvStopping, InvQuiet, Quiet, InvDispatch, Dispatch, Waiting, Consuming, Finished, InvJob
<1>1. ASSUME NEW w \in Workers, Spawn(w) PROVE InvDispatch'
  BY <1>1 DEF Spawn
<1>2. ASSUME NEW w \in Workers, EnterLoop(w) PROVE InvDispatch'
  BY <1>2 DEF EnterLoop
<1>3. ASSUME NEW w \in Workers, Announce(w) PROVE InvDispatch'
  BY <1>3 DEF Announce
<1>4. ASSUME NEW w \in Workers, LoadEpoch(w) PROVE InvDispatch'
  BY <1>4 DEF LoadEpoch
<1>5. ASSUME NEW w \in Workers, KeepWaiting(w) PROVE InvDispatch'
  BY <1>5 DEF KeepWaiting
<1>6. ASSUME NEW w \in Workers, SeeStop(w) PROVE InvDispatch'
  BY <1>6 DEF SeeStop
<1>7. ASSUME NEW w \in Workers, SeeJob(w) PROVE InvDispatch'
  BY <1>7 DEF SeeJob
<1>8. ASSUME NEW w \in Workers, WaitEpoch(w) PROVE InvDispatch'
  BY <1>8 DEF WaitEpoch
<1>9. ASSUME NEW w \in Workers, Complete(w) PROVE InvDispatch'
  <2>1. CASE pc[Caller] \in Dispatch
    <3>1. Finished' = Finished \cup {w} /\ w \notin Finished
      BY <1>9, <2>1 DEF Complete
    <3>2. IsFiniteSet(Finished)
      BY FS_Subset
    <3>3. Cardinality(Finished') = Cardinality(Finished) + 1
      BY <3>1, <3>2, OneMoreElement
    <3>4. completed' = Cardinality(Finished')
      BY <1>9, <2>1, <3>3 DEF Complete
    <3>5. QED
      BY <1>9, <2>1, <3>4 DEF Complete
  <2>2. CASE pc[Caller] \notin Dispatch
    BY <1>9, <2>2 DEF Complete
  <2>3. QED
    BY <2>1, <2>2
<1>10. ASSUME NEW t \in Threads, FetchIndex(t) PROVE InvDispatch'
  BY <1>10 DEF FetchIndex
<1>11. ASSUME NEW t \in Threads, CheckIndex(t) PROVE InvDispatch'
  <2>1. CASE t = Caller
    <3>1. Finished' = Finished
      BY <1>11, <2>1 DEF CheckIndex
    <3>2. QED
      BY <1>11, <2>1, <3>1 DEF CheckIndex
  <2>2. CASE t \in Workers
    <3>1. Finished' = Finished
      BY <1>11, <2>2 DEF CheckIndex
    <3>2. pc[Caller]' = pc[Caller]
      BY <1>11, <2>2 DEF CheckIndex
    <3>3. QED
      BY <1>11, <2>2, <3>1, <3>2 DEF CheckIndex
  <2>3. QED
    BY <2>1, <2>2
<1>12. ASSUME NEW t \in Threads, RunIndex(t) PROVE InvDispatch'
  BY <1>12 DEF RunIndex
<1>13. CASE Constructed \/ SerialIndex \/ Join \/ JoinThreads \/ Destroy
  BY <1>13 DEF Constructed, SerialIndex, Join, JoinThreads, Destroy
<1>14. CASE SetTask \/ SetNext \/ SetEnd \/ ResetCompleted \/ ClearTask
  BY <1>14 DEF SetTask, SetNext, SetEnd, ResetCompleted, ClearTask
<1>15. CASE SetStopping \/ BumpEpoch \/ NotifyStop
  BY <1>15 DEF SetStopping, BumpEpoch, NotifyStop, WakeAll
<1>16. CASE PublishEpoch
  <2>1. Finished' = {}
    BY <1>16 DEF PublishEpoch
  <2>2. completed' = Cardinality(Finished')
    BY <1>16, <2>1, FS_EmptySet DEF PublishEpoch
  <2>3. QED
    BY <1>16, <2>2 DEF PublishEpoch
<1>17. CASE NotifyJob
  BY <1>17 DEF NotifyJob, WakeAll
<1>18. ASSUME NEW r \in Ranges, Call(r) PROVE InvDispatch'
  BY <1>18 DEF Call
<1>19. CASE UNCHANGED vars
  BY <1>19 DEF vars
<1> QED
  BY <1>1, <1>2, <1>3, <1>4, <1>5, <1>6, <1>7, <1>8, <1>9, <1>10, <1>11, <1>12, <1>13, <1>14, <1>15, <1>16, <1>17, <1>18, <1>19 DEF Next, CallerStep, WorkerStep, Consume, Terminated

\* After the last bump of epoch_ no worker sleeps without a notification to come.
LEMMA Inductive_InvTeardown == IInv /\ [Next]_vars => InvTeardown'
<1> SUFFICES ASSUME IInv, [Next]_vars PROVE InvTeardown'
  OBVIOUS
<1> USE ExecutorAssumption DEF IInv, Step, Goto, job, signal, local, ghost, Threads, TypeOK, InvConstruct, InvStopping, InvQuiet, Quiet, InvTeardown, InvDispatch, Dispatch, Waiting, Consuming
<1>1. ASSUME NEW w \in Workers, Spawn(w) \/ EnterLoop(w) \/ Announce(w) \/ LoadEpoch(w) PROVE InvTeardown'
  BY <1>1 DEF Spawn, EnterLoop, Announce, LoadEpoch
<1>2. ASSUME NEW w \in Workers,
       \/ KeepWaiting(w)
       \/ SeeStop(w)
       \/ SeeJob(w)
       \/ WaitEpoch(w)
       \/ Complete(w)
     PROVE  InvTeardown'
  BY <1>2 DEF KeepWaiting, SeeStop, SeeJob, WaitEpoch, Complete
<1>3. ASSUME NEW t \in Threads, FetchIndex(t) \/ CheckIndex(t) \/ RunIndex(t) PROVE InvTeardown'
  BY <1>3 DEF FetchIndex, CheckIndex, RunIndex
<1>4. CASE Constructed \/ SerialIndex \/ Join \/ JoinThreads \/ Destroy
  BY <1>4 DEF Constructed, SerialIndex, Join, JoinThreads, Destroy
<1>5. CASE SetTask \/ SetNext \/ SetEnd \/ ResetCompleted \/ ClearTask
  BY <1>5 DEF SetTask, SetNext, SetEnd, ResetCompleted, ClearTask
<1>6. CASE 
       \/ PublishEpoch
       \/ NotifyJob
       \/ SetStopping
       \/ BumpEpoch
       \/ NotifyStop
  BY <1>6 DEF PublishEpoch, NotifyJob, WakeAll, SetStopping, BumpEpoch, NotifyStop
<1>7. ASSUME NEW r \in Ranges, Call(r) PROVE InvTeardown'
  BY <1>7 DEF Call
<1>8. CASE UNCHANGED vars
  BY <1>8 DEF vars
<1> QED
  BY <1>1, <1>2, <1>3, <1>4, <1>5, <1>6, <1>7, <1>8 DEF Next, CallerStep, WorkerStep, Consume, Terminated

\* The caller's writes of the job fields stay in force while workers use them.
LEMMA Inductive_InvJob == IInv /\ [Next]_vars => InvJob'
<1> SUFFICES ASSUME IInv, [Next]_vars PROVE InvJob'
  OBVIOUS
<1> USE ExecutorAssumption DEF IInv, Step, Goto, job, signal, local, ghost, Threads, TypeOK, InvConstruct, InvJob, InvStopping, InvQuiet, Quiet, InvDispatch, Dispatch, InvTeardown, Waiting, Consuming, CallerPCs, WorkerPCs
<1>1. ASSUME NEW w \in Workers, Spawn(w) \/ EnterLoop(w) \/ Announce(w) \/ LoadEpoch(w) PROVE InvJob'
  BY <1>1 DEF Spawn, EnterLoop, Announce, LoadEpoch
<1>2. ASSUME NEW w \in Workers,
       \/ KeepWaiting(w)
       \/ SeeStop(w)
       \/ SeeJob(w)
       \/ WaitEpoch(w)
       \/ Complete(w)
     PROVE  InvJob'
  BY <1>2 DEF KeepWaiting, SeeStop, SeeJob, WaitEpoch, Complete
<1>3. ASSUME NEW t \in Threads, FetchIndex(t) \/ CheckIndex(t) \/ RunIndex(t) PROVE InvJob'
  BY <1>3 DEF FetchIndex, CheckIndex, RunIndex
<1>4. CASE Constructed \/ SerialIndex \/ Join \/ JoinThreads \/ Destroy
  BY <1>4 DEF Constructed, SerialIndex, Join, JoinThreads, Destroy
<1>5. CASE SetTask \/ SetNext \/ SetEnd \/ ResetCompleted \/ ClearTask
  BY <1>5 DEF SetTask, SetNext, SetEnd, ResetCompleted, ClearTask
<1>6. CASE 
       \/ PublishEpoch
       \/ NotifyJob
       \/ SetStopping
       \/ BumpEpoch
       \/ NotifyStop
  BY <1>6 DEF PublishEpoch, NotifyJob, WakeAll, SetStopping, BumpEpoch, NotifyStop
<1>7. ASSUME NEW r \in Ranges, Call(r) PROVE InvJob'
  BY <1>7 DEF Call
<1>8. CASE UNCHANGED vars
  BY <1>8 DEF vars
<1> QED
  BY <1>1, <1>2, <1>3, <1>4, <1>5, <1>6, <1>7, <1>8 DEF Next, CallerStep, WorkerStep, Consume, Terminated

\* next_ keeps separating the indices taken from those not yet taken.
LEMMA Inductive_InvIndices == IInv /\ [Next]_vars => InvIndices'
<1> SUFFICES ASSUME IInv, [Next]_vars PROVE InvIndices'
  OBVIOUS
<1> USE ExecutorAssumption DEF IInv, Step, Goto, job, signal, local, ghost, Threads, TypeOK, InvIndices, Holding, Dispatch, Consuming, InvQuiet, Quiet, InvDispatch, InvTeardown, Waiting, InvConstruct, InvJob, IndicesOf, CallerPCs, WorkerPCs
<1>1. ASSUME NEW w \in Workers, Spawn(w) \/ EnterLoop(w) \/ Announce(w) \/ LoadEpoch(w) PROVE InvIndices'
  BY <1>1 DEF Spawn, EnterLoop, Announce, LoadEpoch
<1>2. ASSUME NEW w \in Workers,
       \/ KeepWaiting(w)
       \/ SeeStop(w)
       \/ SeeJob(w)
       \/ WaitEpoch(w)
       \/ Complete(w)
     PROVE  InvIndices'
  BY <1>2 DEF KeepWaiting, SeeStop, SeeJob, WaitEpoch, Complete
<1>3. ASSUME NEW t \in Threads, FetchIndex(t) PROVE InvIndices'
  BY <1>3 DEF FetchIndex
<1>4. ASSUME NEW t \in Threads, CheckIndex(t) PROVE InvIndices'
  BY <1>4 DEF CheckIndex
<1>5. ASSUME NEW t \in Threads, RunIndex(t) PROVE InvIndices'
  <2>1. pc[Caller] \in Dispatch /\ held[t] \in IndicesOf(args) /\ runs[held[t]] = 0
    BY <1>5 DEF RunIndex
  <2>2. \A u \in Threads : Holding(u)' <=> Holding(u) /\ u # t
    BY <1>5 DEF RunIndex
  <2>3. held[t] \in Indices
    BY <2>1 DEF Indices
  <2>4. /\ runs'[held[t]] = 1
        /\ \A i \in Indices : i # held[t] => runs'[i] = runs[i]
    BY <1>5, <2>1, <2>3 DEF RunIndex
  <2>5. QED
    BY <1>5, <2>1, <2>2, <2>3, <2>4 DEF RunIndex
<1>6. CASE Constructed \/ Join \/ JoinThreads \/ Destroy
  BY <1>6 DEF Constructed, Join, JoinThreads, Destroy
<1>7. CASE SerialIndex
  <2>1. \A t \in Threads : ~Holding(t) /\ ~Holding(t)'
    BY <1>7 DEF SerialIndex, InvSerial
  <2>2. \A i \in Indices : runs'[i] <= 1
    BY <1>7 DEF SerialIndex, InvSerial
  <2>3. QED
    BY <1>7, <2>1, <2>2 DEF SerialIndex, InvSerial
<1>8. CASE SetTask \/ SetNext \/ SetEnd \/ ResetCompleted \/ ClearTask
  BY <1>8 DEF SetTask, SetNext, SetEnd, ResetCompleted, ClearTask
<1>9. CASE PublishEpoch
  <2>1. \A t \in Threads : ~Holding(t) /\ ~Holding(t)'
    BY <1>9 DEF PublishEpoch
  <2>2. \A i \in IndicesOf(args) : i \in Indices /\ i >= next /\ runs[i] = 0
    BY <1>9, CallIndices DEF PublishEpoch
  <2>3. QED
    BY <1>9, <2>1, <2>2 DEF PublishEpoch
<1>10. CASE NotifyJob
  <2>1. \A t \in Threads : Holding(t)' <=> Holding(t)
    BY <1>10 DEF NotifyJob, WakeAll
  <2>2. \A t \in Threads : pc'[t] = "run" => pc[t] = "run"
    BY <1>10 DEF NotifyJob, WakeAll
  <2>3. /\ pc[Caller] \in Dispatch /\ pc'[Caller] \in Dispatch
        /\ pc'[Caller] = "fetch"
    BY <1>10 DEF NotifyJob, WakeAll
  <2>4. UNCHANGED <<next, end, held, args, runs>>
    BY <1>10 DEF NotifyJob, WakeAll
  <2> HIDE DEF Holding, Dispatch, IndicesOf, TypeOK, InvQuiet, InvDispatch, InvTeardown, InvConstruct, InvJob
  <2>5. QED
    BY <1>10, <2>1, <2>2, <2>3, <2>4
<1>11. CASE SetStopping
  BY <1>11 DEF SetStopping
<1>12. CASE BumpEpoch
  BY <1>12 DEF BumpEpoch
<1>13. CASE NotifyStop
  BY <1>13 DEF NotifyStop, WakeAll
<1>14. ASSUME NEW r \in Ranges, Call(r) PROVE InvIndices'
  BY <1>14 DEF Call
<1>15. CASE UNCHANGED vars
  BY <1>15 DEF vars
<1> QED
  BY <1>1, <1>2, <1>3, <1>4, <1>5, <1>6, <1>7, <1>8, <1>9, <1>10, <1>11, <1>12, <1>13, <1>14, <1>15 DEF Next, CallerStep, WorkerStep, Consume, Terminated

\* A thread that left consume_current_job saw next_ reach end_.
LEMMA Inductive_InvExhausted == IInv /\ [Next]_vars => InvExhausted'
<1> SUFFICES ASSUME IInv, [Next]_vars PROVE InvExhausted'
  OBVIOUS
<1> USE ExecutorAssumption DEF IInv, Step, Goto, job, signal, local, ghost, Threads, TypeOK, InvExhausted, Dispatch, Consuming, InvQuiet, Quiet, InvDispatch, InvTeardown, Waiting, InvConstruct, InvJob, InvIndices, Holding
<1>1. ASSUME NEW w \in Workers, Spawn(w) \/ EnterLoop(w) \/ Announce(w) \/ LoadEpoch(w) PROVE InvExhausted'
  BY <1>1 DEF Spawn, EnterLoop, Announce, LoadEpoch
<1>2. ASSUME NEW w \in Workers,
       \/ KeepWaiting(w)
       \/ SeeStop(w)
       \/ SeeJob(w)
       \/ WaitEpoch(w)
       \/ Complete(w)
     PROVE  InvExhausted'
  BY <1>2 DEF KeepWaiting, SeeStop, SeeJob, WaitEpoch, Complete
<1>3. ASSUME NEW t \in Threads, FetchIndex(t) \/ RunIndex(t) PROVE InvExhausted'
  BY <1>3 DEF FetchIndex, RunIndex
<1>4. ASSUME NEW t \in Threads, CheckIndex(t) PROVE InvExhausted'
  BY <1>4 DEF CheckIndex
<1>5. CASE Constructed \/ SerialIndex \/ Join \/ JoinThreads \/ Destroy
  BY <1>5 DEF Constructed, SerialIndex, Join, JoinThreads, Destroy
<1>6. CASE SetTask \/ SetNext \/ SetEnd \/ ResetCompleted \/ ClearTask
  BY <1>6 DEF SetTask, SetNext, SetEnd, ResetCompleted, ClearTask
<1>7. CASE 
       \/ PublishEpoch
       \/ NotifyJob
       \/ SetStopping
       \/ BumpEpoch
       \/ NotifyStop
  BY <1>7 DEF PublishEpoch, NotifyJob, WakeAll, SetStopping, BumpEpoch, NotifyStop
<1>8. ASSUME NEW r \in Ranges, Call(r) PROVE InvExhausted'
  BY <1>8 DEF Call
<1>9. CASE UNCHANGED vars
  BY <1>9 DEF vars
<1> QED
  BY <1>1, <1>2, <1>3, <1>4, <1>5, <1>6, <1>7, <1>8, <1>9 DEF Next, CallerStep, WorkerStep, Consume, Terminated

\* The serial loop has run exactly the indices below its counter.
LEMMA Inductive_InvSerial == IInv /\ [Next]_vars => InvSerial'
<1> SUFFICES ASSUME IInv, [Next]_vars PROVE InvSerial'
  OBVIOUS
<1> USE ExecutorAssumption DEF IInv, Step, Goto, job, signal, local, ghost, Threads, TypeOK, InvSerial, InvJob, IndicesOf, Indices, InvIndices
<1>1. ASSUME NEW w \in Workers, Spawn(w) \/ EnterLoop(w) \/ Announce(w) \/ LoadEpoch(w) PROVE InvSerial'
  BY <1>1 DEF Spawn, EnterLoop, Announce, LoadEpoch
<1>2. ASSUME NEW w \in Workers,
       \/ KeepWaiting(w)
       \/ SeeStop(w)
       \/ SeeJob(w)
       \/ WaitEpoch(w)
       \/ Complete(w)
     PROVE  InvSerial'
  BY <1>2 DEF KeepWaiting, SeeStop, SeeJob, WaitEpoch, Complete
<1>3. ASSUME NEW t \in Threads, FetchIndex(t) \/ CheckIndex(t) \/ RunIndex(t) PROVE InvSerial'
  BY <1>3 DEF FetchIndex, CheckIndex, RunIndex
<1>4. CASE Constructed \/ Join \/ JoinThreads \/ Destroy
  BY <1>4 DEF Constructed, Join, JoinThreads, Destroy
<1>5. CASE SerialIndex
  BY <1>5 DEF SerialIndex
<1>6. CASE SetTask \/ SetNext \/ SetEnd \/ ResetCompleted \/ ClearTask
  BY <1>6 DEF SetTask, SetNext, SetEnd, ResetCompleted, ClearTask
<1>7. CASE 
       \/ PublishEpoch
       \/ NotifyJob
       \/ SetStopping
       \/ BumpEpoch
       \/ NotifyStop
  BY <1>7 DEF PublishEpoch, NotifyJob, WakeAll, SetStopping, BumpEpoch, NotifyStop
<1>8. ASSUME NEW r \in Ranges, Call(r) PROVE InvSerial'
  BY <1>8 DEF Call
<1>9. CASE UNCHANGED vars
  BY <1>9 DEF vars
<1> QED
  BY <1>1, <1>2, <1>3, <1>4, <1>5, <1>6, <1>7, <1>8, <1>9 DEF Next, CallerStep, WorkerStep, Consume, Terminated

\* Every step keeps the promise of a parallel_for that has returned.
LEMMA Inductive_DoneOnReturn == IInv /\ [Next]_vars => DoneOnReturn'
<1> SUFFICES ASSUME IInv, [Next]_vars PROVE DoneOnReturn'
  OBVIOUS
<1> USE ExecutorAssumption DEF IInv, Step, Goto, job, signal, local, ghost, Threads, TypeOK, DoneOnReturn, InvIndices, Holding, InvExhausted, InvSerial, InvConstruct, InvJob, IndicesOf, InvQuiet, Quiet, Dispatch, Consuming, Waiting, InvDispatch, InvTeardown
<1>1. ASSUME NEW w \in Workers, Spawn(w) \/ EnterLoop(w) \/ Announce(w) \/ LoadEpoch(w) PROVE DoneOnReturn'
  BY <1>1 DEF Spawn, EnterLoop, Announce, LoadEpoch
<1>2. ASSUME NEW w \in Workers,
       \/ KeepWaiting(w)
       \/ SeeStop(w)
       \/ SeeJob(w)
       \/ WaitEpoch(w)
       \/ Complete(w)
     PROVE  DoneOnReturn'
  BY <1>2 DEF KeepWaiting, SeeStop, SeeJob, WaitEpoch, Complete
<1>3. ASSUME NEW t \in Threads, FetchIndex(t) \/ CheckIndex(t) \/ RunIndex(t) PROVE DoneOnReturn'
  BY <1>3 DEF FetchIndex, CheckIndex, RunIndex
<1>4. CASE Constructed \/ JoinThreads \/ Destroy
  BY <1>4 DEF Constructed, JoinThreads, Destroy
<1>5. CASE SerialIndex
  BY <1>5 DEF SerialIndex
<1>6. CASE Join
  <2>1. \A t \in Threads : ~Holding(t)
    BY <1>6, EveryWorkerFinished DEF Join, Finished
  <2>2. QED
    BY <1>6, <2>1 DEF Join
<1>7. CASE SetTask \/ SetNext \/ SetEnd \/ ResetCompleted \/ ClearTask
  BY <1>7 DEF SetTask, SetNext, SetEnd, ResetCompleted, ClearTask
<1>8. CASE 
       \/ PublishEpoch
       \/ NotifyJob
       \/ SetStopping
       \/ BumpEpoch
       \/ NotifyStop
  BY <1>8 DEF PublishEpoch, NotifyJob, WakeAll, SetStopping, BumpEpoch, NotifyStop
<1>9. ASSUME NEW r \in Ranges, Call(r) PROVE DoneOnReturn'
  BY <1>9 DEF Call
<1>10. CASE UNCHANGED vars
  BY <1>10 DEF vars
<1> QED
  BY <1>1, <1>2, <1>3, <1>4, <1>5, <1>6, <1>7, <1>8, <1>9, <1>10 DEF Next, CallerStep, WorkerStep, Consume, Terminated

-----------------------------------------------------------------------------
(* The invariant, and what follows from it.                                *)

\* The invariant holds before the constructor has started a thread.
LEMMA InitIInv == Init => IInv
<1> SUFFICES ASSUME Init PROVE IInv
  OBVIOUS
<1> USE ExecutorAssumption DEF Init, Threads
<1>1. TypeOK
  <2>1. /\ pc \in [Threads -> CallerPCs \cup WorkerPCs]
        /\ pc[Caller] \in CallerPCs
        /\ \A w \in Workers : pc[w] \in WorkerPCs
    BY DEF CallerPCs, WorkerPCs
  <2>2. runs \in [Indices -> Nat] /\ held \in [Threads -> Int]
    OBVIOUS
  <2>3. /\ observed \in [Workers -> Nat] /\ current \in [Workers -> Nat]
        /\ spins \in [Workers -> Nat]
    OBVIOUS
  <2>4. task \in 0 .. MaxCalls /\ calls \in 0 .. MaxCalls
    OBVIOUS
  <2>5. QED
    BY <2>1, <2>2, <2>3, <2>4 DEF TypeOK
<1>2. InvConstruct
  <2>1. Announced = {}
    BY DEF Announced, Waiting
  <2>2. QED
    BY <2>1, FS_EmptySet DEF InvConstruct
<1>3. InvStopping /\ InvQuiet /\ InvDispatch /\ InvTeardown
  BY DEF InvStopping, InvQuiet, InvDispatch, InvTeardown, Quiet, Dispatch, Consuming
<1>4. InvJob /\ InvExhausted /\ InvSerial /\ DoneOnReturn
  BY DEF InvJob, InvExhausted, InvSerial, DoneOnReturn, Dispatch, Consuming
<1>5. InvIndices
  BY DEF InvIndices, Holding, Dispatch, Consuming
<1> QED
  BY <1>1, <1>2, <1>3, <1>4, <1>5 DEF IInv

\* Every step of the team preserves the invariant.
LEMMA NextIInv == IInv /\ [Next]_vars => IInv'
BY Inductive_TypeOK, Inductive_InvConstruct, Inductive_InvStopping,
   Inductive_InvQuiet, Inductive_InvDispatch, Inductive_InvTeardown,
   Inductive_InvJob, Inductive_InvIndices, Inductive_InvExhausted,
   Inductive_InvSerial, Inductive_DoneOnReturn DEF IInv

\* The inductive invariant holds in every reachable state of executor.cpp's team.
THEOREM Invariance == Spec => []IInv
<1>1. QED
  BY InitIInv, NextIInv, PTL DEF Spec

\* The fields keep their types: no counter of the team ever goes below zero.
THEOREM TypeCorrect == Spec => []TypeOK
<1>1. IInv => TypeOK
  BY DEF IInv
<1>2. QED
  BY <1>1, Invariance, PTL

\* For every team and range no index is run twice or outside the range.
THEOREM NoIndexTwice == Spec => []AtMostOnce
<1>1. IInv => AtMostOnce
  <2> SUFFICES ASSUME IInv PROVE AtMostOnce
    OBVIOUS
  <2> USE ExecutorAssumption DEF IInv, TypeOK, Threads
  <2>1. \A t \in Threads : pc[t] = "run" => Holding(t) /\ pc[Caller] \in Dispatch
    BY DEF Holding, InvQuiet, InvDispatch, InvTeardown, InvConstruct, Quiet,
           Dispatch, Consuming, Waiting, CallerPCs
  <2>2. \A t \in Threads : pc[t] = "run" =>
          held[t] \in IndicesOf(args) /\ runs[held[t]] = 0
    BY <2>1 DEF InvIndices, InvJob, IndicesOf
  <2>3. QED
    BY <2>1, <2>2 DEF AtMostOnce, InvIndices
<1>2. QED
  BY <1>1, Invariance, PTL

\* parallel_for returns only when every index of the call has finished.
THEOREM CompleteOnReturn == Spec => []DoneOnReturn
<1>1. IInv => DoneOnReturn
  BY DEF IInv
<1>2. QED
  BY <1>1, Invariance, PTL

\* The caller never writes task_ or end_ while a worker may read them.
THEOREM FieldsUncontended == Spec => []NoFieldRace
<1>1. IInv => NoFieldRace
  <2> SUFFICES ASSUME IInv, NEW w \in Workers, pc[w] \in Consuming \cup {"complete"}
               PROVE  pc[Caller] \in Dispatch /\ task = calls /\ end = args[2]
    BY DEF NoFieldRace, Dispatch
  <2> USE DEF IInv, TypeOK, Dispatch, Quiet, Consuming, Waiting
  <2>1. pc[Caller] \in Dispatch
    BY DEF InvQuiet, InvTeardown, InvConstruct, CallerPCs
  <2>2. QED
    BY <2>1 DEF InvJob
<1>2. QED
  BY <1>1, Invariance, PTL

\* No epoch is skipped or served twice: between jobs every worker stands at the
\* current one.
THEOREM EpochsCaughtUp == Spec => []NoMissedEpoch
<1>1. IInv => NoMissedEpoch
  BY DEF IInv, NoMissedEpoch, InvQuiet, InvStopping, Quiet, Waiting
<1>2. QED
  BY <1>1, Invariance, PTL

\* A worker never sleeps through a job or through the destructor.
THEOREM WakeUpsKept == Spec => []NoLostWakeup
<1>1. IInv => NoLostWakeup
  <2> SUFFICES ASSUME IInv, NEW w \in Workers, pc[w] = "asleep",
                      observed[w] # epoch \/ stopping
               PROVE  pc[Caller] \in {"notify", "bump", "wake"}
    BY DEF NoLostWakeup
  <2> QED
    BY DEF IInv, TypeOK, CallerPCs, InvConstruct, InvStopping, InvQuiet, InvDispatch,
           InvTeardown, Dispatch, Quiet, Consuming, Waiting
<1>2. QED
  BY <1>1, Invariance, PTL

\* Every step moves a worker's observed_epoch by at most one.
THEOREM EpochsOneByOne == Spec => EpochsInOrder
<1>1. IInv /\ [Next]_vars => [\A w \in Workers : observed'[w] \in {observed[w], observed[w] + 1}]_vars
  <2> SUFFICES ASSUME IInv, [Next]_vars, NEW v \in Workers
               PROVE  observed'[v] \in {observed[v], observed[v] + 1}
    OBVIOUS
  <2> USE ExecutorAssumption DEF IInv, TypeOK, Threads, Step, Goto, job, signal, local, ghost
  <2>1. ASSUME NEW w \in Workers, EnterLoop(w) PROVE observed'[v] \in {observed[v], observed[v] + 1}
    BY <2>1 DEF EnterLoop, InvConstruct, CallerPCs
  <2>2. ASSUME NEW w \in Workers, SeeJob(w) PROVE observed'[v] \in {observed[v], observed[v] + 1}
    BY <2>2 DEF SeeJob, InvConstruct, InvStopping, InvQuiet, InvDispatch, InvTeardown,
                Dispatch, Quiet, Consuming, Waiting, CallerPCs
  <2>3. ASSUME NEW w \in Workers,
               \/ Spawn(w) \/ Announce(w) \/ LoadEpoch(w) \/ KeepWaiting(w)
               \/ SeeStop(w) \/ WaitEpoch(w) \/ Complete(w)
        PROVE  observed' = observed
    BY <2>3 DEF Spawn, Announce, LoadEpoch, KeepWaiting, SeeStop, WaitEpoch, Complete
  <2>4. ASSUME NEW t \in Threads, Consume(t) PROVE observed' = observed
    BY <2>4 DEF Consume, FetchIndex, CheckIndex, RunIndex
  <2>5. ASSUME \/ Constructed \/ SerialIndex \/ Join \/ JoinThreads \/ Destroy
               \/ SetTask \/ SetNext \/ SetEnd \/ ResetCompleted \/ ClearTask
               \/ PublishEpoch \/ NotifyJob \/ SetStopping \/ BumpEpoch \/ NotifyStop
               \/ (\E r \in Ranges : Call(r)) \/ UNCHANGED vars
        PROVE  observed' = observed
    BY <2>5 DEF Constructed, SerialIndex, Join, JoinThreads, Destroy, SetTask, SetNext,
                SetEnd, ResetCompleted, ClearTask, PublishEpoch, NotifyJob, WakeAll,
                SetStopping, BumpEpoch, NotifyStop, Call, vars
  <2>6. QED
    BY <2>1, <2>2, <2>3, <2>4, <2>5 DEF Next, CallerStep, WorkerStep, Terminated
<1>2. QED
  BY <1>1, Invariance, PTL DEF Spec, EpochsInOrder
-----------------------------------------------------------------------------
(* The team implements the abstract fork/join.                             *)

\* The refinement mapping's variables.
Phase == IF InCall THEN "running"
         ELSE IF pc[Caller] = "gone" THEN "destroyed" ELSE "idle"

Todo == {i \in IndicesOf(args) : runs[i] = 0}

\* One more index of the call has been run, the one thread t held.
LEMMA RunFinishes ==
  ASSUME IInv, NEW t \in Threads, RunIndex(t)
  PROVE  \E i \in Todo : FJ!Finish(i)
<1> USE ExecutorAssumption DEF IInv, TypeOK, Threads, Step, Goto, RunIndex
<1>1. Holding(t) /\ pc[Caller] \in Dispatch
  BY DEF Holding, InvQuiet, InvDispatch, InvTeardown, InvConstruct, Quiet,
         Dispatch, Consuming, Waiting, CallerPCs
<1>2. held[t] \in IndicesOf(args) /\ runs[held[t]] = 0
  BY <1>1 DEF InvIndices, InvJob, IndicesOf
<1>3. \A i \in IndicesOf(args) : i \in Indices
  BY CallIndices
<1>4. Todo' = Todo \ {held[t]}
  BY <1>2, <1>3 DEF Todo
<1>5. InCall /\ InCall' /\ calls' = calls
  BY <1>1 DEF InCall, Dispatch, Consuming
<1>6. QED
  BY <1>2, <1>4, <1>5 DEF Todo, FJ!Finish

\* A step of the serial path finishes an index or returns.
LEMMA SerialFinishesOrReturns ==
  IInv /\ SerialIndex => (\E i \in Todo : FJ!Finish(i)) \/ FJ!Return
<1> SUFFICES ASSUME IInv, SerialIndex
             PROVE  (\E i \in Todo : FJ!Finish(i)) \/ FJ!Return
  OBVIOUS
<1> USE ExecutorAssumption DEF IInv, TypeOK, Threads, Goto, SerialIndex, InvSerial
<1>1. InCall /\ calls' = calls /\ args' = args
  BY DEF InCall
<1>2. args[1] \in Int /\ args[2] \in Int
  OBVIOUS
<1>3. CASE held[Caller] < args[2]
  <2>1. held[Caller] \in IndicesOf(args) /\ runs[held[Caller]] = 0
    BY <1>2, <1>3 DEF IndicesOf
  <2>2. \A i \in IndicesOf(args) : i \in Indices
    BY CallIndices
  <2>3. Todo' = Todo \ {held[Caller]} /\ InCall'
    BY <1>1, <1>3, <2>1, <2>2 DEF Todo, InCall
  <2>4. QED
    BY <1>1, <2>1, <2>3 DEF Todo, FJ!Finish
<1>4. CASE ~(held[Caller] < args[2])
  <2>1. \A i \in IndicesOf(args) : runs[i] = 1
    BY <1>2, <1>4 DEF IndicesOf
  <2>2. Todo = {} /\ Todo' = Todo
    BY <1>1, <1>4, <2>1 DEF Todo
  <2>3. pc'[Caller] = "idle"
    BY <1>4
  <2>4. QED
    BY <1>1, <2>2, <2>3 DEF Todo, InCall, FJ!Return
<1>5. QED
  BY <1>3, <1>4

\* Every step of the team is a fork/join step or invisible to its caller.
THEOREM TeamIsForkJoin == Spec => ImplementsForkJoin
<1>1. Init => FJ!FJInit
  <2> SUFFICES ASSUME Init PROVE FJ!FJInit
    OBVIOUS
  <2>1. pc[Caller] = "construct" /\ IndicesOf(args) = {} /\ calls = 0
    BY DEF Init, Threads, IndicesOf
  <2>2. QED
    BY <2>1 DEF InCall, FJ!FJInit
<1>2. IInv /\ [Next]_vars => [FJ!FJNext]_FJ!fjvars
  <2> SUFFICES ASSUME IInv, [Next]_vars
               PROVE  FJ!FJNext \/ (Phase' = Phase /\ Todo' = Todo /\ calls' = calls)
    BY DEF FJ!fjvars, Phase, Todo
  <2> USE ExecutorAssumption DEF IInv, TypeOK, Threads, Step, Goto, job, signal, local, ghost
  <2>1. ASSUME NEW r \in Ranges, Call(r) PROVE FJ!FJNext
    <3>1. ~InCall /\ pc[Caller] # "gone" /\ InCall'
      BY <2>1 DEF Call, InCall
    <3>2. args' = r /\ \A i \in Indices : runs'[i] = 0
      BY <2>1 DEF Call
    <3>3. Todo' = r[1] .. (r[2] - 1)
      BY <3>2 DEF Todo, Indices, IndicesOf
    <3>4. FJ!Fork(r)
      BY <2>1, <3>1, <3>3 DEF Call, FJ!Fork, Todo
    <3>5. QED
      BY <3>4 DEF FJ!FJNext
  <2>2. ASSUME NEW t \in Threads, RunIndex(t) PROVE FJ!FJNext
    BY <2>2, RunFinishes DEF FJ!FJNext, Todo
  <2>3. CASE SerialIndex
    BY <2>3, SerialFinishesOrReturns DEF FJ!FJNext, Todo
  <2>4. CASE ClearTask
    <3>1. InCall /\ ~InCall' /\ pc'[Caller] = "idle"
      BY <2>4 DEF ClearTask, InCall
    <3>2. Todo = {} /\ Todo' = Todo
      BY <2>4 DEF ClearTask, Todo, DoneOnReturn
    <3>3. QED
      BY <2>4, <3>1, <3>2 DEF ClearTask, FJ!FJNext, FJ!Return, Todo
  <2>5. CASE JoinThreads
    <3>1. ~InCall /\ ~InCall' /\ pc[Caller] # "gone" /\ pc'[Caller] = "gone"
      BY <2>5 DEF JoinThreads, InCall
    <3>2. Todo' = Todo
      BY <2>5 DEF JoinThreads, Todo
    <3>3. QED
      BY <2>5, <3>1, <3>2 DEF JoinThreads, FJ!FJNext, FJ!Delete, Todo
  <2>6. ASSUME \/ \E w \in Workers :
                    \/ Spawn(w) \/ EnterLoop(w) \/ Announce(w) \/ LoadEpoch(w)
                    \/ KeepWaiting(w) \/ SeeStop(w) \/ SeeJob(w) \/ WaitEpoch(w)
                    \/ Complete(w)
               \/ UNCHANGED vars
        PROVE  Phase' = Phase /\ Todo' = Todo /\ calls' = calls
    <3>1. pc'[Caller] = pc[Caller] /\ UNCHANGED ghost
      BY <2>6 DEF Spawn, EnterLoop, Announce, LoadEpoch, KeepWaiting, SeeStop, SeeJob,
                  WaitEpoch, Complete, vars
    <3>2. QED
      BY <3>1 DEF Phase, InCall, Todo
  <2>7. ASSUME \/ Constructed \/ Destroy
               \/ SetTask \/ SetNext \/ SetEnd \/ ResetCompleted \/ PublishEpoch
               \/ NotifyJob \/ Join \/ SetStopping \/ BumpEpoch \/ NotifyStop
               \/ \E t \in Threads : FetchIndex(t) \/ CheckIndex(t)
        PROVE  Phase' = Phase /\ Todo' = Todo /\ calls' = calls
    <3>1. (InCall' <=> InCall) /\ pc[Caller] # "gone" /\ pc'[Caller] # "gone"
      <4>1. CASE \/ Constructed \/ Destroy
                 \/ SetTask \/ SetNext \/ SetEnd \/ ResetCompleted \/ PublishEpoch
                 \/ NotifyJob \/ Join \/ SetStopping \/ BumpEpoch \/ NotifyStop
        BY <4>1 DEF Constructed, Destroy, SetTask, SetNext, SetEnd, ResetCompleted,
                    PublishEpoch, NotifyJob, Join, SetStopping, BumpEpoch, NotifyStop,
                    WakeAll, InCall
      <4>2. ASSUME NEW t \in Threads, FetchIndex(t) \/ CheckIndex(t)
            PROVE  (InCall' <=> InCall) /\ pc[Caller] # "gone" /\ pc'[Caller] # "gone"
        <5>1. pc[t] \in {"fetch", "check"}
          BY <4>2 DEF FetchIndex, CheckIndex
        <5>2. pc[Caller] \in Dispatch
          BY <5>1 DEF InvQuiet, InvDispatch, InvTeardown, InvConstruct, Quiet,
                      Dispatch, Consuming, Waiting, CallerPCs
        <5>3. pc'[Caller] \in Dispatch
          BY <4>2, <5>2 DEF FetchIndex, CheckIndex, Dispatch, Consuming
        <5>4. QED
          BY <5>2, <5>3 DEF InCall, Dispatch, Consuming
      <4>3. QED
        BY <2>7, <4>1, <4>2
    <3>2. UNCHANGED ghost
      BY <2>7 DEF Constructed, Destroy, SetTask, SetNext, SetEnd, ResetCompleted,
                  PublishEpoch, NotifyJob, Join, SetStopping, BumpEpoch, NotifyStop,
                  WakeAll, FetchIndex, CheckIndex
    <3>3. QED
      BY <3>1, <3>2 DEF Phase, Todo
  <2>8. QED
    BY <2>1, <2>2, <2>3, <2>4, <2>5, <2>6, <2>7
       DEF Next, CallerStep, WorkerStep, Consume, Terminated
<1>3. QED
  BY <1>1, <1>2, Invariance, PTL DEF Spec, ImplementsForkJoin, FJ!FJSpec
=============================================================================
