--------------------------- MODULE EngineLifecycle ---------------------------
(***************************************************************************)
(* The phases of pdes::engine around run_simulation(): the client's thread *)
(* calls init(), distribute_contexts(), start(), await() and cleanup(),    *)
(* the worker threads run worker_thread().  They synchronise by flags with *)
(* condition variables, by an atomic flag and, three times, at             *)
(* phases_meet_point (SimpleBarrier).                                      *)
(*                                                                         *)
(* A critical section is one step; a wait on a condition variable ends     *)
(* when it is notified or for no reason, and then the flag is read again.  *)
(* The constructor of std::thread and pthread_setaffinity_np() may fail.   *)
(***************************************************************************)
EXTENDS SimpleBarrier

CONSTANTS
  num_threads,    \* the number of worker threads
  ncontexts,      \* how many contexts the client distributes
  num_cores,      \* as given to default_parameters()
  CreateMayFail   \* whether the constructor of std::thread may throw

ASSUME LifecycleAssumption ==
  /\ num_threads \in Nat /\ num_threads >= 2  \* what tournament_tree accepts
  /\ ncontexts \in Nat
  /\ num_cores \in Nat \ {0}
  /\ Participants = 0..num_threads
  /\ CreateMayFail \in BOOLEAN

Threads == 0..(num_threads - 1)

Main == num_threads    \* the id with which the client's thread calls await()

VARIABLES
  pc,                         \* where each thread is
  asleep,                     \* the threads that wait on a condition variable
  started,                    \* the threads in the vector threads
  joined,                     \* those that have been joined
  init_phase_done, init_phase_ok, contexts_distributed_done,
  start_simulation, cleanup_phase_begin,
  local_contexts_all,         \* the contexts each worker is to collect
  committed,                  \* those it has collected (committed_contexts)
  cpus                        \* the cores the process may run on

flags == <<init_phase_done, init_phase_ok, contexts_distributed_done,
           start_simulation, cleanup_phase_begin>>

contexts == <<local_contexts_all, committed>>

vars == <<pc, asleep, started, joined, flags, contexts, cpus, barrier>>

-----------------------------------------------------------------------------
(* default_parameters(): the threads are dealt out to the cores.           *)
aff == [i \in Threads |-> i % num_cores]

(* Mutant: the quotient is rounded up.                                     *)
ShareRoundedUp(i) ==
  LET range == (ncontexts + num_threads - 1) \div num_threads
  IN  (i * range + 1)..(IF i # num_threads - 1 THEN (i + 1) * range ELSE ncontexts)

(* The share of thread i: ncontexts/num_threads contexts, and for the last *)
(* thread all that remain.                                                 *)
Share(i) ==
  LET range == ncontexts \div num_threads
  IN  (i * range + 1)..(IF i # num_threads - 1 THEN (i + 1) * range ELSE ncontexts)

Transition(p, from, to) ==
  /\ pc[p] = from
  /\ pc' = [pc EXCEPT ![p] = to]

(* init(), up to the creation of the threads.                              *)
Init ==
  /\ pc = [p \in Participants |-> IF p = Main THEN "create" ELSE "none"]
  /\ asleep = {}
  /\ started = {}
  /\ joined = {}
  /\ init_phase_done = FALSE
  /\ init_phase_ok \in BOOLEAN            \* not initialised
  /\ contexts_distributed_done = FALSE
  /\ start_simulation = FALSE
  /\ cleanup_phase_begin = FALSE
  /\ local_contexts_all = [t \in Threads |-> {}]
  /\ committed = [t \in Threads |-> {}]
  /\ cpus \in SUBSET (0..(num_cores - 1))
  /\ BarrierInit

(* Mutant: notify_one() (engine.hpp:152, 168, 213, 242).                   *)
NotifyOne(label) ==
  \/ \E t \in asleep : pc[t] = label /\ asleep' = asleep \ {t}
  \/ (\A t \in asleep : pc[t] # label) /\ UNCHANGED asleep

(* notify_all() on the condition variable of the threads at a label.       *)
Notify(label) == asleep' = {t \in asleep : pc[t] # label}

(* Hold the lock and look at the flag: go on, or wait.                     *)
WaitFor(t, from, flag, to) ==
  /\ t \notin asleep
  /\ \/ flag /\ Transition(t, from, to) /\ UNCHANGED asleep
     \/ ~flag /\ pc[t] = from /\ asleep' = asleep \cup {t} /\ UNCHANGED pc
  /\ UNCHANGED <<started, joined, flags, contexts, cpus, barrier>>

-----------------------------------------------------------------------------
(* Mutants.                                                                *)

(* The failure is announced, but nobody is notified (engine.hpp:152).      *)
NotifyNobody ==
  /\ Transition(Main, "notify_failure", "join_started")
  /\ UNCHANGED <<asleep, started, joined, flags, contexts, cpus, barrier>>

(* cleanup() joins the threads without meeting them (engine.hpp:245).      *)
JoinWithoutMeeting ==
  /\ Transition(Main, "notify_cleanup", "join")
  /\ asleep' = {t \in asleep : pc[t] # "clean"}
  /\ UNCHANGED <<started, joined, flags, contexts, cpus, barrier>>

(* cleanup() does not join the threads (engine.hpp:248).                   *)
JoinNobody ==
  /\ Transition(Main, "join", "release")
  /\ joined' = Threads
  /\ UNCHANGED <<asleep, started, flags, contexts, cpus, barrier>>

-----------------------------------------------------------------------------
(* init(): the threads are created one after the other.                    *)
CreateThread ==
  /\ pc[Main] = "create"
  /\ \E i \in Threads :
       /\ i = Cardinality(started)
       /\ started' = started \cup {i}
       /\ pc' = [pc EXCEPT ![Main] = "affinity", ![i] = "init"]
  /\ UNCHANGED <<asleep, joined, flags, contexts, cpus, barrier>>

(* The exception of the constructor leaves init(): it is outside the try.  *)
CreateFails ==
  /\ CreateMayFail
  /\ Transition(Main, "create", "failed")
  /\ UNCHANGED <<asleep, started, joined, flags, contexts, cpus, barrier>>

last_started == Cardinality(started) - 1

(* aff_setter(core, t.native_handle())                                     *)
SetAffinity ==
  /\ Transition(Main, "affinity", IF started = Threads THEN "announce" ELSE "create")
  /\ aff[last_started] \in cpus
  /\ UNCHANGED <<asleep, started, joined, flags, contexts, cpus, barrier>>

(* It throws: tell alive threads to terminate ...                          *)
AffinityFails ==
  /\ Transition(Main, "affinity", "notify_failure")
  /\ aff[last_started] \notin cpus
  /\ init_phase_done' = TRUE
  /\ init_phase_ok' = FALSE
  /\ UNCHANGED <<asleep, started, joined, contexts_distributed_done,
                 start_simulation, cleanup_phase_begin, contexts, cpus, barrier>>

NotifyFailure ==
  /\ Transition(Main, "notify_failure", "join_started")
  /\ Notify("init")
  /\ UNCHANGED <<started, joined, flags, contexts, cpus, barrier>>

(* ... and then wait for them: for those before the last one.              *)
JoinStarted ==
  /\ Transition(Main, "join_started", "failed")
  /\ \A j \in 0..(last_started - 1) : pc[j] = "exited"
  /\ joined' = 0..(last_started - 1)
  /\ UNCHANGED <<asleep, started, flags, contexts, cpus, barrier>>

(* Inform the threads that initialization went fine.                       *)
Announce ==
  /\ Transition(Main, "announce", "notify_init")
  /\ init_phase_done' = TRUE
  /\ init_phase_ok' = TRUE
  /\ UNCHANGED <<asleep, started, joined, contexts_distributed_done,
                 start_simulation, cleanup_phase_begin, contexts, cpus, barrier>>

NotifyInit ==
  /\ Transition(Main, "notify_init", "distribute")
  /\ Notify("init")
  /\ UNCHANGED <<started, joined, flags, contexts, cpus, barrier>>

(* distribute_contexts(): the lists are filled without a lock ...          *)
Distribute ==
  /\ Transition(Main, "distribute", "signal")
  /\ local_contexts_all' = [t \in Threads |-> Share(t)]
  /\ UNCHANGED <<asleep, started, joined, flags, committed, cpus, barrier>>

(* ... the flag is set under one; then the barrier.                        *)
SignalDistribution ==
  /\ Transition(Main, "signal", "notify_distribution")
  /\ contexts_distributed_done' = TRUE
  /\ UNCHANGED <<asleep, started, joined, init_phase_done, init_phase_ok,
                 start_simulation, cleanup_phase_begin, contexts, cpus, barrier>>

NotifyDistribution ==
  /\ Transition(Main, "notify_distribution", "distributed")
  /\ Notify("distribution")
  /\ UNCHANGED <<started, joined, flags, contexts, cpus, barrier>>

ClearLists ==
  /\ Transition(Main, "clear", "ready")
  /\ local_contexts_all' = [t \in Threads |-> {}]
  /\ UNCHANGED <<asleep, started, joined, flags, committed, cpus, barrier>>

(* start(); await() is the barrier again.                                  *)
Start ==
  /\ Transition(Main, "ready", "await")
  /\ start_simulation' = TRUE
  /\ UNCHANGED <<asleep, started, joined, init_phase_done, init_phase_ok,
                 contexts_distributed_done, cleanup_phase_begin, contexts, cpus, barrier>>

BeginCleanup ==
  /\ Transition(Main, "cleanup", "notify_cleanup")
  /\ cleanup_phase_begin' = TRUE
  /\ UNCHANGED <<asleep, started, joined, init_phase_done, init_phase_ok,
                 contexts_distributed_done, start_simulation, contexts, cpus, barrier>>

NotifyCleanup ==
  /\ Transition(Main, "notify_cleanup", "cleaning")
  /\ Notify("clean")
  /\ UNCHANGED <<started, joined, flags, contexts, cpus, barrier>>

(* cleanup(): wait for the threads instances to finish.                    *)
Join ==
  /\ \A t \in started : pc[t] = "exited"
  /\ Transition(Main, "join", "release")
  /\ joined' = started
  /\ UNCHANGED <<asleep, started, flags, contexts, cpus, barrier>>

(* Deallocate the internal data, phases_meet_point included.               *)
Release ==
  /\ Transition(Main, "release", "done")
  /\ UNCHANGED <<asleep, started, joined, flags, contexts, cpus, barrier>>

Client ==
  \/ CreateThread \/ CreateFails \/ SetAffinity \/ AffinityFails
  \/ NotifyFailure \/ JoinStarted \/ Announce \/ NotifyInit \/ Distribute
  \/ SignalDistribution \/ NotifyDistribution \/ ClearLists \/ Start
  \/ BeginCleanup \/ NotifyCleanup \/ Join \/ Release

-----------------------------------------------------------------------------
(* worker_thread(): the end of the initialization phase ...                *)
AwaitInit(t) ==
  WaitFor(t, "init", init_phase_done, IF init_phase_ok THEN "distribution" ELSE "exited")

(* ... the beginning of the distribution phase ...                         *)
AwaitDistribution(t) == WaitFor(t, "distribution", contexts_distributed_done, "collect")

Collect(t) ==
  /\ Transition(t, "collect", "collected")
  /\ committed' = [committed EXCEPT ![t] = @ \cup local_contexts_all[t]]
  /\ local_contexts_all' = [local_contexts_all EXCEPT ![t] = {}]
  /\ UNCHANGED <<asleep, started, joined, flags, cpus, barrier>>

(* ... spin until start() ...                                              *)
AwaitStart(t) ==
  /\ start_simulation
  /\ Transition(t, "spin", "simulate")
  /\ UNCHANGED <<asleep, started, joined, flags, contexts, cpus, barrier>>

(* ... run_simulation(id) returns (WorkStealing, Simulation) ...           *)
Simulate(t) ==
  /\ Transition(t, "simulate", "simulated")
  /\ UNCHANGED <<asleep, started, joined, flags, contexts, cpus, barrier>>

AwaitCleanup(t) == WaitFor(t, "clean", cleanup_phase_begin, "local_cleanup")

(* ... local_cleanup().                                                    *)
CleanUp(t) ==
  /\ Transition(t, "local_cleanup", "cleaned")
  /\ UNCHANGED <<asleep, started, joined, flags, contexts, cpus, barrier>>

WorkerPhase(t) ==
  \/ AwaitInit(t) \/ AwaitDistribution(t) \/ Collect(t) \/ AwaitStart(t)
  \/ Simulate(t) \/ AwaitCleanup(t) \/ CleanUp(t)

(* Where phases_meet_point->await() is called, and what follows it.        *)
AfterMeeting ==
  [distributed |-> "clear", await |-> "cleanup", cleaning |-> "join",
   collected |-> "spin", simulated |-> "clean", cleaned |-> "exited"]

Meet(p) ==
  /\ \/ pc[p] \in DOMAIN AfterMeeting /\ (Arrive(p) \/ WaitAgain(p)) /\ UNCHANGED pc
     \/ /\ NotifyAll(p) \/ Return(p)
        /\ pc' = [pc EXCEPT ![p] = AfterMeeting[pc[p]]]
  /\ UNCHANGED <<asleep, started, joined, flags, contexts, cpus>>

(* A condition variable wakes a thread for no reason.                      *)
Spurious(p) ==
  \/ /\ WakeSpuriously(p)
     /\ UNCHANGED <<pc, asleep, started, joined, flags, contexts, cpus>>
  \/ /\ p \in asleep
     /\ asleep' = asleep \ {p}
     /\ UNCHANGED <<pc, started, joined, flags, contexts, cpus, barrier>>

Finished == pc[Main] \in {"failed", "done"} /\ UNCHANGED vars

Worker(t) == WorkerPhase(t) \/ Meet(t)

Next ==
  \/ Client \/ Meet(Main)
  \/ \E t \in Threads : Worker(t)
  \/ \E p \in Participants : Spurious(p)
  \/ Finished

Spec == Init /\ [][Next]_vars

(* The operating system runs every thread, the client makes all its calls  *)
(* and run_simulation() returns.                                           *)
FairSpec ==
  /\ Spec
  /\ WF_vars(Client \/ Meet(Main))
  /\ \A t \in Threads : WF_vars(Worker(t))

-----------------------------------------------------------------------------
(* Properties.                                                             *)

MainLabels ==
  {"create", "affinity", "notify_failure", "join_started", "failed", "announce",
   "notify_init", "distribute", "signal", "notify_distribution", "distributed",
   "clear", "ready", "await", "cleanup", "notify_cleanup", "cleaning", "join",
   "release", "done"}

WorkerLabels ==
  {"none", "init", "distribution", "collect", "collected", "spin", "simulate",
   "simulated", "clean", "local_cleanup", "cleaned", "exited"}

(* Every variable has the type of what it stands for.                      *)
TypeOK ==
  /\ pc \in [Participants -> MainLabels \cup WorkerLabels]
  /\ asleep \subseteq Threads
  /\ started \subseteq Threads /\ joined \subseteq Threads
  /\ flags \in BOOLEAN \X BOOLEAN \X BOOLEAN \X BOOLEAN \X BOOLEAN
  /\ local_contexts_all \in [Threads -> SUBSET (1..ncontexts)]
  /\ committed \in [Threads -> SUBSET (1..ncontexts)]
  /\ cpus \subseteq 0..(num_cores - 1)
  /\ BarrierTypeOK

(* The barrier keeps its promise although it is used three times and a     *)
(* thread may be at the next meeting before the others have woken up       *)
(* (simple_barrier.hpp:46).                                                *)
MeetingsAreComplete == PB!Spec

(* engine.hpp:218: when distribute_contexts() cleans up, "we no longer     *)
(* need the local_contexts_all vector": every context has been collected,  *)
(* and by one thread.                                                      *)
ContextsCollected ==
  pc[Main] \in {"clear", "ready", "await", "cleanup", "notify_cleanup",
                "cleaning", "join", "release", "done"} =>
    /\ UNION {committed[t] : t \in Threads} = 1..ncontexts
    /\ \A t, u \in Threads : t # u => committed[t] \cap committed[u] = {}

(* The unlocked accesses do not meet: nobody collects while the client     *)
(* fills or clears the lists; whoever simulates does so between start()    *)
(* and the return of await(); the local data are cleaned up within         *)
(* cleanup(); and when that destroys the barrier no thread can use it.     *)
PhasesAreSeparate ==
  \A t \in Threads :
    /\ pc[t] = "collect" => pc[Main] \in {"notify_distribution", "distributed"}
    /\ pc[t] = "simulate" => pc[Main] = "await"
    /\ pc[t] = "local_cleanup" => pc[Main] \in {"notify_cleanup", "cleaning"}
    /\ pc[Main] = "release" => pc[t] = "exited"

(* A flag that is set, or a generation that is over, finds nobody asleep   *)
(* whom no notification is under way to: the flags are read and set under  *)
(* the locks, but the notification comes after them (engine.hpp:150-152,   *)
(* 213, 242, simple_barrier.hpp:40-43).                                    *)
NoLostWakeup ==
  /\ \A t \in asleep :
       /\ pc[t] = "init" /\ init_phase_done => pc[Main] \in {"notify_failure", "notify_init"}
       /\ pc[t] = "distribution" /\ contexts_distributed_done => pc[Main] = "notify_distribution"
       /\ pc[t] = "clean" /\ cleanup_phase_begin => pc[Main] = "notify_cleanup"
  /\ WaitersAreNotified

(* A thread that only another one can get going, or that is not there.     *)
Blocked(p) ==
  \/ p \in asleep \/ at[p] = "waiting"
  \/ pc[p] = "spin" /\ ~start_simulation
  \/ pc[p] = "join_started" /\ \E t \in 0..(last_started - 1) : pc[t] # "exited"
  \/ pc[p] = "join" /\ \E t \in started : pc[t] # "exited"
  \/ pc[p] \in {"none", "exited", "failed", "done"}

(* The client and the workers never all wait for each other, no wakeup     *)
(* without a reason needed: somebody can go on until cleanup() has         *)
(* returned, or init() has failed and the threads it had started and told  *)
(* have stopped (CreateFails tells nobody).                                *)
SomebodyMoves ==
  \/ \E p \in Participants : ~Blocked(p)
  \/ pc[Main] = "done"
  \/ pc[Main] = "failed" /\ (init_phase_done => \A t \in started : pc[t] = "exited")

(* The calls return, whether init() succeeds or the affinity of a thread   *)
(* cannot be set.                                                          *)
CallsReturn == <>(pc[Main] \in {"failed", "done"})

(* When the affinity of a thread cannot be set, "tell alive threads to     *)
(* terminate" (engine.hpp:145) reaches all of them, the one included that  *)
(* is never joined.                                                        *)
FailedAffinityStops ==
  pc[Main] = "notify_failure" ~> \A t \in started : pc[t] = "exited"
=============================================================================
