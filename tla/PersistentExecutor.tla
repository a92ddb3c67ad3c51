------------------------- MODULE PersistentExecutor -------------------------
(***************************************************************************)
(* The persistent thread team of hpc/fode_cpp/src/executor.cpp.            *)
(*                                                                         *)
(* One optimization owns one executor.  The calling thread and the worker  *)
(* threads share a job through two plain fields (task_, end_) and a set of *)
(* atomics (next_, completed_workers_, started_workers_, epoch_,           *)
(* stopping_).  Every access that another thread can observe is a step of  *)
(* its own here; the acquire/release pairs of the code make each of the    *)
(* atomics behave as one sequentially consistent location for the          *)
(* properties below, and NoFieldRace is what the plain fields need.        *)
(***************************************************************************)
EXTENDS Integers, FiniteSets

CONSTANTS
  Workers,    \* the total_threads_ - 1 threads the constructor starts
  Caller,     \* the thread that owns the executor and calls parallel_for
  Ranges,     \* the <<begin, end>> arguments the caller may pass
  MaxCalls,   \* how many times parallel_for is called in one lifetime
  SpinLimit   \* kActiveSpinCount: polls before a worker sleeps on epoch_

Threads == Workers \cup {Caller}

\* The indices [begin, end) of a call.
IndicesOf(r) == r[1] .. (r[2] - 1)

Indices == UNION { IndicesOf(r) : r \in Ranges }

ASSUME ExecutorAssumption ==
  /\ IsFiniteSet(Workers)
  /\ Caller \notin Workers
  /\ Ranges \subseteq Int \X Int
  /\ MaxCalls \in Nat
  /\ SpinLimit \in Nat

VARIABLES
  task,       \* task_: the number of the call it belongs to, 0 when empty
  next,       \* next_
  end,        \* end_
  completed,  \* completed_workers_
  started,    \* started_workers_
  epoch,      \* epoch_
  stopping,   \* stopping_
  pc,         \* where each thread is
  held,       \* the index a thread took from next_ (local index)
  observed,   \* observed_epoch of each worker
  current,    \* current_epoch of each worker
  spins,      \* spins of each worker
  calls,      \* calls of parallel_for so far
  args,       \* begin and end of the latest call
  runs        \* history: how often the latest call's task finished index i

job    == <<task, next, end, completed>>
signal == <<started, epoch, stopping>>
local  == <<held, observed, current, spins>>
ghost  == <<calls, args, runs>>
vars   == <<task, next, end, completed, started, epoch, stopping, pc, held,
            observed, current, spins, calls, args, runs>>

CallerPCs == {"construct", "idle", "serial", "set_task", "set_next", "set_end",
              "reset", "publish", "notify", "fetch", "check", "run", "join",
              "clear", "stop", "bump", "wake", "reap", "gone"}

WorkerPCs == {"unborn", "enter", "announce", "load", "test", "wait", "asleep",
              "fetch", "check", "run", "complete", "exit"}

\* A thread inside consume_current_job.
Consuming == {"fetch", "check", "run"}

Goto(t, to) == pc' = [pc EXCEPT ![t] = to]

Step(t, from, to) == pc[t] = from /\ Goto(t, to)

Init ==
  /\ task = 0 /\ next = 0 /\ end = 0 /\ completed = 0
  /\ started = 0 /\ epoch = 0 /\ stopping = FALSE
  /\ pc = [t \in Threads |-> IF t = Caller THEN "construct" ELSE "unborn"]
  /\ held = [t \in Threads |-> 0]
  /\ observed = [w \in Workers |-> 0]
  /\ current = [w \in Workers |-> 0]
  /\ spins = [w \in Workers |-> 0]
  /\ calls = 0
  /\ args = <<0, 0>>
  /\ runs = [i \in Indices |-> 0]

-----------------------------------------------------------------------------
(* Faulty variants of single steps, each a bug this code could have had.   *)
(* No specification below uses them: a property that still held with one   *)
(* of them in place of the step it deforms would say nothing about it.     *)

\* Off by one: the last worker is not waited for.
JoinAllButOne ==
  /\ completed >= Cardinality(Workers) - 1
  /\ Step(Caller, "join", "clear")
  /\ UNCHANGED <<job, signal, local, ghost>>

\* completed_workers_ keeps the previous call's count.
ResetForgotten ==
  /\ Step(Caller, "reset", "publish")
  /\ UNCHANGED <<job, signal, local, ghost>>

\* The sleep on epoch_ does not compare it with observed_epoch first.
SleepUnconditionally(w) ==
  /\ Step(w, "wait", "asleep")
  /\ UNCHANGED <<job, signal, local, ghost>>

\* The constructor does not wait for started_workers_.
ConstructedEarly ==
  /\ \A w \in Workers : pc[w] # "unborn"
  /\ Step(Caller, "construct", "idle")
  /\ UNCHANGED <<job, signal, local, ghost>>

\* The destructor sets stopping_ and notifies, but leaves epoch_ alone.
BumpForgotten ==
  /\ Step(Caller, "bump", "wake")
  /\ UNCHANGED <<job, signal, local, ghost>>

\* The serial path stops one index short.
SerialShort ==
  /\ pc[Caller] = "serial"
  /\ IF held[Caller] < args[2] - 1
       THEN /\ runs' = [runs EXCEPT ![held[Caller]] = @ + 1]
            /\ held' = [held EXCEPT ![Caller] = @ + 1]
            /\ UNCHANGED pc
       ELSE Goto(Caller, "idle") /\ UNCHANGED <<held, runs>>
  /\ UNCHANGED <<job, signal, observed, current, spins, calls, args>>

-----------------------------------------------------------------------------
(* Constructor: start every worker, then spin until all have announced.    *)

Spawn(w) ==
  /\ pc[Caller] = "construct"
  /\ Step(w, "unborn", "enter")
  /\ UNCHANGED <<job, signal, local, ghost>>

Constructed ==
  /\ \A w \in Workers : pc[w] # "unborn"
  /\ started = Cardinality(Workers)
  /\ Step(Caller, "construct", "idle")
  /\ UNCHANGED <<job, signal, local, ghost>>

-----------------------------------------------------------------------------
(* parallel_for.  A call with end <= begin returns at once and an empty    *)
(* task is refused, so neither changes any state.                          *)

Call(r) ==
  /\ calls < MaxCalls
  /\ r[2] > r[1]
  /\ IF Workers = {}
       THEN Step(Caller, "idle", "serial") /\ held' = [held EXCEPT ![Caller] = r[1]]
       ELSE Step(Caller, "idle", "set_task") /\ UNCHANGED held
  /\ calls' = calls + 1
  /\ args' = r
  /\ runs' = [i \in Indices |-> 0]
  /\ UNCHANGED <<job, signal, observed, current, spins>>

\* total_threads_ == 1: the caller runs the indices itself, in order.
SerialIndex ==
  /\ pc[Caller] = "serial"
  /\ IF held[Caller] < args[2]
       THEN /\ runs' = [runs EXCEPT ![held[Caller]] = @ + 1]
            /\ held' = [held EXCEPT ![Caller] = @ + 1]
            /\ UNCHANGED pc
       ELSE Goto(Caller, "idle") /\ UNCHANGED <<held, runs>>
  /\ UNCHANGED <<job, signal, observed, current, spins, calls, args>>

SetTask ==
  /\ Step(Caller, "set_task", "set_next")
  /\ task' = calls
  /\ UNCHANGED <<next, end, completed, signal, local, ghost>>

SetNext ==
  /\ Step(Caller, "set_next", "set_end")
  /\ next' = args[1]
  /\ UNCHANGED <<task, end, completed, signal, local, ghost>>

SetEnd ==
  /\ Step(Caller, "set_end", "reset")
  /\ end' = args[2]
  /\ UNCHANGED <<task, next, completed, signal, local, ghost>>

ResetCompleted ==
  /\ Step(Caller, "reset", "publish")
  /\ completed' = 0
  /\ UNCHANGED <<task, next, end, signal, local, ghost>>

PublishEpoch ==
  /\ Step(Caller, "publish", "notify")
  /\ epoch' = epoch + 1
  /\ UNCHANGED <<job, started, stopping, local, ghost>>

\* epoch_.notify_all(): every thread asleep on epoch_ returns to its check of
\* the value.
WakeAll(from, to) ==
  /\ pc[Caller] = from
  /\ pc' = [t \in Threads |-> IF t = Caller THEN to
                              ELSE IF pc[t] = "asleep" THEN "wait" ELSE pc[t]]
  /\ UNCHANGED <<job, signal, local, ghost>>

NotifyJob == WakeAll("notify", "fetch")

Join ==
  /\ completed = Cardinality(Workers)
  /\ Step(Caller, "join", "clear")
  /\ UNCHANGED <<job, signal, local, ghost>>

ClearTask ==
  /\ Step(Caller, "clear", "idle")
  /\ task' = 0
  /\ UNCHANGED <<next, end, completed, signal, local, ghost>>

-----------------------------------------------------------------------------
(* consume_current_job, run by the caller and by every worker.             *)

FetchIndex(t) ==
  /\ Step(t, "fetch", "check")
  /\ held' = [held EXCEPT ![t] = next]
  /\ next' = next + 1
  /\ UNCHANGED <<task, end, completed, signal, observed, current, spins, ghost>>

CheckIndex(t) ==
  /\ pc[t] = "check"
  /\ Goto(t, IF held[t] < end THEN "run"
             ELSE IF t = Caller THEN "join" ELSE "complete")
  /\ UNCHANGED <<job, signal, local, ghost>>

\* task_(index) returns.  The thread is inside task_ as long as it is at "run".
RunIndex(t) ==
  /\ Step(t, "run", "fetch")
  /\ runs' = [runs EXCEPT ![held[t]] = @ + 1]
  /\ UNCHANGED <<job, signal, local, calls, args>>

-----------------------------------------------------------------------------
(* worker_loop.                                                            *)

EnterLoop(w) ==
  /\ Step(w, "enter", "announce")
  /\ observed' = [observed EXCEPT ![w] = epoch]
  /\ UNCHANGED <<job, signal, held, current, spins, ghost>>

Announce(w) ==
  /\ Step(w, "announce", "load")
  /\ started' = started + 1
  /\ spins' = [spins EXCEPT ![w] = 0]
  /\ UNCHANGED <<job, epoch, stopping, held, observed, current, ghost>>

LoadEpoch(w) ==
  /\ Step(w, "load", "test")
  /\ current' = [current EXCEPT ![w] = epoch]
  /\ UNCHANGED <<job, signal, held, observed, spins, ghost>>

\* The loop condition fails to see work: spin, or sleep once the spin budget
\* is used up.
KeepWaiting(w) ==
  /\ pc[w] = "test"
  /\ current[w] = observed[w]
  /\ ~stopping
  /\ IF spins[w] < SpinLimit
       THEN Goto(w, "load") /\ spins' = [spins EXCEPT ![w] = @ + 1]
       ELSE Goto(w, "wait") /\ UNCHANGED spins
  /\ UNCHANGED <<job, signal, held, observed, current, ghost>>

\* stopping_ never returns to false, so the loop condition and the test after
\* the loop are one read of it.
SeeStop(w) ==
  /\ Step(w, "test", "exit")
  /\ stopping
  /\ UNCHANGED <<job, signal, local, ghost>>

SeeJob(w) ==
  /\ Step(w, "test", "fetch")
  /\ current[w] # observed[w]
  /\ ~stopping
  /\ observed' = [observed EXCEPT ![w] = current[w]]
  /\ UNCHANGED <<job, signal, held, current, spins, ghost>>

\* epoch_.wait(observed_epoch): the comparison and going to sleep are one
\* atomic step of the waiting primitive.
WaitEpoch(w) ==
  /\ pc[w] = "wait"
  /\ Goto(w, IF epoch = observed[w] THEN "asleep" ELSE "load")
  /\ UNCHANGED <<job, signal, local, ghost>>

Complete(w) ==
  /\ Step(w, "complete", "load")
  /\ completed' = completed + 1
  /\ spins' = [spins EXCEPT ![w] = 0]
  /\ UNCHANGED <<task, next, end, signal, held, observed, current, ghost>>

-----------------------------------------------------------------------------
(* Destructor.                                                             *)

Destroy ==
  /\ Step(Caller, "idle", "stop")
  /\ UNCHANGED <<job, signal, local, ghost>>

SetStopping ==
  /\ Step(Caller, "stop", "bump")
  /\ stopping' = TRUE
  /\ UNCHANGED <<job, started, epoch, local, ghost>>

BumpEpoch ==
  /\ Step(Caller, "bump", "wake")
  /\ epoch' = epoch + 1
  /\ UNCHANGED <<job, started, stopping, local, ghost>>

NotifyStop == WakeAll("wake", "reap")

JoinThreads ==
  /\ \A w \in Workers : pc[w] = "exit"
  /\ Step(Caller, "reap", "gone")
  /\ UNCHANGED <<job, signal, local, ghost>>

\* The executor no longer exists: nothing is left to do.
Terminated == pc[Caller] = "gone" /\ UNCHANGED vars

-----------------------------------------------------------------------------
Consume(t) == FetchIndex(t) \/ CheckIndex(t) \/ RunIndex(t)

WorkerStep(w) ==
  \/ EnterLoop(w) \/ Announce(w) \/ LoadEpoch(w) \/ KeepWaiting(w)
  \/ SeeStop(w) \/ SeeJob(w) \/ WaitEpoch(w) \/ Complete(w)
  \/ Consume(w)

\* What the caller does inside a constructor, parallel_for or destructor it
\* has entered; entering one is the program's choice.
CallerStep ==
  \/ \E w \in Workers : Spawn(w)
  \/ Constructed
  \/ SerialIndex
  \/ SetTask \/ SetNext \/ SetEnd \/ ResetCompleted \/ PublishEpoch \/ NotifyJob
  \/ Consume(Caller) \/ Join \/ ClearTask
  \/ SetStopping \/ BumpEpoch \/ NotifyStop \/ JoinThreads

Next ==
  \/ CallerStep
  \/ \E w \in Workers : WorkerStep(w)
  \/ \E r \in Ranges : Call(r)
  \/ Destroy
  \/ Terminated

\* Every thread that can run is eventually scheduled.
Fairness ==
  /\ WF_vars(CallerStep)
  /\ \A w \in Workers : WF_vars(WorkerStep(w))

Spec == Init /\ [][Next]_vars

FairSpec == Spec /\ Fairness
-----------------------------------------------------------------------------
(* Properties.                                                             *)

TypeOK ==
  /\ task \in 0 .. MaxCalls
  /\ next \in Int /\ end \in Int
  /\ completed \in Nat /\ started \in Nat /\ epoch \in Nat
  /\ stopping \in BOOLEAN
  /\ pc \in [Threads -> CallerPCs \cup WorkerPCs]
  /\ pc[Caller] \in CallerPCs
  /\ \A w \in Workers : pc[w] \in WorkerPCs
  /\ held \in [Threads -> Int]
  /\ observed \in [Workers -> Nat]
  /\ current \in [Workers -> Nat]
  /\ spins \in [Workers -> Nat]
  /\ calls \in 0 .. MaxCalls
  /\ args \in Ranges \cup {<<0, 0>>}
  /\ runs \in [Indices -> Nat]

\* No index of a call is run twice, by one thread or by two at once, and no
\* thread ever runs an index outside the range the caller passed, whatever
\* next_ still holds from an earlier call.
AtMostOnce ==
  /\ \A t \in Threads : pc[t] = "run" =>
       held[t] \in IndicesOf(args) /\ runs[held[t]] = 0
  /\ \A t, u \in Threads :
       pc[t] = "run" /\ pc[u] = "run" /\ held[t] = held[u] => t = u
  /\ \A i \in Indices : runs[i] <= 1

\* Once the caller has left the join of parallel_for, every index has finished:
\* the caller may destroy what the task captured by reference.
DoneOnReturn ==
  pc[Caller] \in {"clear", "idle", "stop", "bump", "wake", "reap", "gone"} =>
    \A i \in IndicesOf(args) : runs[i] = 1

\* task_ and end_ are plain fields.  While a worker may read them, or still has
\* its increment of completed_workers_ to make, the caller is between publishing
\* the job and leaving the join, so it writes neither; and what the worker reads
\* is the latest call, never an emptied or an older task.
NoFieldRace ==
  \A w \in Workers : pc[w] \in Consuming \cup {"complete"} =>
    /\ pc[Caller] \in {"notify", "join"} \cup Consuming
    /\ task = calls
    /\ end = args[2]

\* Whenever the caller is outside the dispatched part of a call, every worker has
\* caught up with epoch_ and waits for the next value: the epoch about to be
\* published cannot be skipped, or be mistaken for one already served.
NoMissedEpoch ==
  pc[Caller] \in {"idle", "set_task", "set_next", "set_end", "reset", "publish"} =>
    \A w \in Workers :
      /\ observed[w] = epoch
      /\ pc[w] \in {"load", "test", "wait", "asleep"}

\* A worker asleep on epoch_ while there is something to see (a new epoch, or
\* stopping_) is about to be notified: the wake-up is never lost between its
\* last look at epoch_ and its sleep.
NoLostWakeup ==
  \A w \in Workers :
    pc[w] = "asleep" /\ (observed[w] # epoch \/ stopping) =>
      pc[Caller] \in {"notify", "bump", "wake"}

\* A worker serves the epochs one by one, so it takes part in each call once.
EpochsInOrder ==
  [][\A w \in Workers : observed'[w] \in {observed[w], observed[w] + 1}]_vars

\* Every call into the executor returns: parallel_for whatever the workers were doing,
\* the destructor once it has joined every worker, asleep or spinning.
EveryCallReturns ==
  /\ pc[Caller] \in {"set_task", "serial"} ~> pc[Caller] = "idle"
  /\ pc[Caller] = "stop" ~> pc[Caller] = "gone"

\* The executor implements the abstract fork/join: the call is running until
\* the caller is idle again, and what is left to do is what has not finished.
InCall == pc[Caller] \notin
  {"construct", "idle", "stop", "bump", "wake", "reap", "gone"}

FJ == INSTANCE ForkJoin WITH
  phase <- IF InCall THEN "running"
           ELSE IF pc[Caller] = "gone" THEN "destroyed" ELSE "idle",
  todo <- {i \in IndicesOf(args) : runs[i] = 0},
  made <- calls

\* Every step of the team is a step of ForkJoin or invisible to its caller.
ImplementsForkJoin == FJ!FJSpec
=============================================================================
