# A verification project for PDES-pspp

PDES-pspp is a conservative parallel discrete event simulator in C++.  A fixed
set of worker threads executes *contexts* (logical processes) in rounds: in
each round every context is executed up to a common time threshold; idle
threads steal contexts from busy ones; a termination detection barrier tells
when the round is over; a tournament tree computes the next threshold as the
minimum over what every thread proposes.

The modules here are translated from the sources.  `PROJECT.json` maps every
definition to the lines it stands for, lists the TLC runs, the mutants each
property catches, the findings, the hazards and the theorems.

## Inventory

| component | state | operations | interacts with |
|---|---|---|---|
| work-stealing scheduler (`engine.hpp:605-927`) | `local_contexts`, `committed_contexts` (per thread), `deceased[]`, `steal_request[]`, `steal_response[]`, `steal_free_list[][]` | `run_work_stealing_scheduler`, `attempt_steal`, `wait_steal_response`, `block_`/`unblock_steal_requests`, `handle_steal_request`, `transfer`, `report_alive`/`_deceased`, `choose_victim`, `handle_exception` | executes contexts; termination detection; all threads through the shared arrays |
| termination detection barrier (`concurrent/termination_detection_barrier.hpp`) | `count` | `set_active`, `set_inactive`, `terminate`, `reset` | called by the scheduler; reset by the tournament's winner |
| tournament tree (`concurrent/tournament_tree.hpp`) | per match node `item[2]`, `arrived[2]`, `winning_value`, `done` | `compete` (three overloads), `match::compete`, `wait`, `set_winning_value`, `distribute` | called once per round by every thread; exit callback resets the barrier above |
| simulation rounds (`engine.hpp:564-589, 932-957`) | `context_threshold`, `event_threshold` (per thread), `lookahead`, `endtime` | `run_simulation`, `compute_threshold`, `on_send_message` | scheduler, tournament tree, contexts |
| engine life cycle (`engine.hpp:61-266, 482-559`) | phase flags, their locks and conditions, `threads`, `exceptions` | `init`, `distribute_contexts`, `start`, `await`, `cleanup`, `worker_thread` | phase barrier, all of the above |
| phase barrier (`concurrent/simple_barrier.hpp`) | `expected`, `arrived`, `generation` | `await` | main thread and workers |
| simulation context (`context.hpp/.cpp`) | `current_time`, `fel`, `messages_fel` | `spawn*`, `send_message`, `drain_messages`, `execute_until`, `run_top` | its tasks; other contexts (messages, under a mutex) |
| simulation task (`task.hpp/.cpp`) | `timestamp`, `priority`, `ctx`, `pool_handle` | `wait_for`, `sleep`, `stop`, `wakeup` | the event pool of its context |
| event pool (`event_pool.hpp`, `detail/`) | a Boost heap | push, pop, top, merge, increase; comparison of time and priority | contexts, tasks |
| stackless threads (`thread.hpp`) | `__lc`, a stack of states | macros that generate a `switch` | user code |
| parameters (`parameters.hpp`, `traits.hpp`) | three numbers and the affinities | setters, two of them checked | engine |
| random numbers (`util/xorshift.*`) | four words | `operator()`, `seed`, `discard` | `choose_victim` |
| affinity, aligned allocator | none | system calls | engine |

What is hard here: every interleaving of a victim that runs out of work with
thieves that ask it, give up on it, or return late (a thread may be refused by
one victim while it already asks the next one); a counter that threads keep
while they pretend to be active; a round that ends although a slow thread has
not entered it; a reusable lock-free tree whose plain variables are published by
two flags; exceptions that take one thread out of a collective operation; and
time thresholds computed from partial information.

For each component, the properties that make it correct:

* scheduler: every context in exactly one list; none executed twice in a round;
  every context executed in every round; a request is answered or stays in its
  slot; a blocked thread stays blocked; a non-null answer stays valid; every round
  ends;
* barrier: the counter is the number of inactive threads; no work is found
  after it reports termination;
* tournament tree: everybody gets the minimum of its own round; the callback
  runs once per round, after all have come and before anyone goes; the plain
  accesses do not race; nobody shares a side of a match; the participants never
  all wait for each other; every call returns;
* rounds and contexts: thresholds advance, no message is sent into the past of
  its receiver, timestamps never decrease in a context, little is left over when
  the simulation ends, and it ends;
* tasks: no task is lost between the lists; what `sleep` and `stop` pop is the
  running task; tasks run by time and priority; `execute_until` returns and leaves
  nothing due;
* life cycle: nobody leaves a meeting before all have come to it; the unlocked
  accesses of different phases do not meet; every context is collected by one
  worker; no wakeup is lost and nobody depends on a spurious one; every call
  returns; failures in `init` release the threads already started.

## Modules

### `WorkStealing` (run through `MCWorkStealing`)

One thread is a program counter `pc[t]` plus its thread-local lists.  Every load,
store or compare&swap on a shared atomic is one action; thread-local work is
part of the action before or after it.  Labels and code:

| labels | code |
|---|---|
| start, activate | top of `run_work_stealing_scheduler` (611-616) |
| next, transfer, respond, reenable, execute | the inner loop with `handle_steal_request` and `transfer` (624-660, 851-910) |
| inactivate, block, refuse, seal | `report_deceased`, `set_inactive`, `block_steal_requests` (671-673, 818-837), also from `handle_exception` |
| steal, reset, declare, request, wait, probe, cancel, withdraw, take | `attempt_steal`, `wait_steal_response` (703-793) |
| alive, unblock | 688-689 |
| check, leave, compete | `td->terminate()`, 682, `compute_threshold` |
| left | the thread has returned from `run_simulation` |
| crashed | a null pointer has been dereferenced at 744 |

Abstractions: a context list is a set (its order is a cache heuristic); the
random victim is any other thread; `execute_until` is one step that returns or,
with `MayThrow`, throws; the reduction between two rounds is the joint step
`RoundOver`, which resets the counter and either starts a round or ends the
simulation (`TournamentTree` shows that this is what it does: nobody leaves
before all have competed and the callback has run; a thread still on its way out
of `compete()` is one that has not taken its first step of the round).
`peer[t]` is the local variable `thief` of a victim or `victim` of a thief; it is
reset to `Null` where the variable goes out of scope.

### `MinReduction` and `TournamentTree`

`MinReduction` is what the callers of `compete()` rely on: enter with a value,
decide (all are in; the callback is part of this step), leave with the minimum.
`TournamentTree` is the tree, one action per load or store, the plain ones
included, for any number of participants; level and node arithmetic are the
code's.  It implements `MinReduction` under the mapping in `Reduction`: a
participant is *in* from its call to its return, the outcome is
`winning_value[Root]`, *pending* are those whose call belongs to the last round
decided.  `Callback` joins the exit callback and the plain store to
`winning_value` that follows it, which no one can see before `done`.

### `Simulation`

The values the rounds compute.  A thread takes a context nobody has executed in
this round and drains its messages (`BeginContext`), executes its events up to
the threshold (`RunTop`, or `RunTopAndSend` when the task sends a message), and
notes the time of the next one (`FinishContext`); when all are done the reduction
yields the next threshold (`StartRound`) or the end (`EndSimulation`).
`messages_fel` is the only thing other threads touch, one step per critical section.

Abstractions: `WorkStealing` is reduced to "some thread takes each context once"
(so the contexts lost by finding 1 are not lost here); the reduction is the
minimum (`MinReduction`).  A task runs once: it sends at most one message, at
least `lookahead` ahead, and calls `stop()`; a stopped task may be used again as
a message.  Events of one context with the same time are executed in any order,
which includes the order by priority.  `backlog` is a history variable for
`Conservative`: whether the round began with undelivered messages.

### `PhaseBarrier` and `SimpleBarrier`

`PhaseBarrier` is what `phases_meet_point` promises: participants come and leave,
again and again, and one leaves a meeting only when all others have come to it.
`SimpleBarrier` is `await()`: the critical section up to `cond.wait` or `lk.unlock`
(`Arrive`), the notification after it (`NotifyAll`), a wakeup that may be spurious, and
the loop's second look at the generation (`Return`, `WaitAgain`).  `generation` counts
modulo `Generations`, which stands for the width of `size_type`; two values are
enough for the code.  `PB` maps the one to the other: *inside* is who is in `await()`.

### `EngineLifecycle`

The client's thread and the workers around `run_simulation`.  It extends
`SimpleBarrier`, whose `Participants` are the workers and the client: a call of
`await()` in any phase is made of that module's steps (`Meet`), and `AfterMeeting` says
where the caller goes on.

| labels of the client | code |
|---|---|
| create, affinity, notify_failure, join_started, announce, notify_init | `init` (129-169) |
| distribute, signal, notify_distribution, distributed, clear | `distribute_contexts` (185-222) |
| ready, await | `start`, `await` (225-234) |
| cleanup, notify_cleanup, cleaning, join, release | `cleanup` (236-265) |
| failed, done | an exception has left `init`; `cleanup` has returned |

| labels of a worker | code |
|---|---|
| init, distribution, collect, collected, spin | `worker_thread` (499-531) |
| simulate, simulated, clean, local_cleanup, cleaned | 533-558 |
| none, exited | not created; returned |

A critical section is one step and the notification after it another.  `asleep` are
the threads waiting on one of the three condition variables (the label says on
which); `Spurious` wakes one for no reason.  `init_phase_ok` starts with any value: the
code does not initialise it.  `cpus` are the cores the process may use:
`pthread_setaffinity_np` fails for the others; the constructor of `std::thread` fails
when `CreateMayFail` lets it.  `run_simulation` is one step here: `WorkStealing` and
`Simulation` are about what happens in it.

### `Context`

One context and its tasks.  The actions carry the names of the methods;
`spawn` is `spawn()` and `spawn_delayed()`, `wakeup` both overloads.  A task is used as
documented (`task.hpp:81-121`): spawned before the simulation starts or sent later,
woken only when asleep, and a `run()` ends with one of `wait_for` (for any time,
0 included), `sleep`, `stop`, before which it may wake others.  Messages arrive at
any moment.  Neither `send_message` nor `wakeup` checks the time it is given, so it may
be any, also one that has passed.  `WaitsPass` says whether a task may be busy until
after the next event of its context (finding 5); the order of execution can only
be right when it is not.

Four variables are history, written by the actions and read by properties only:
`mode` is what the documentation calls the task (INIT, SLEEPING or neither), `woken`
are the tasks the running one has woken in this `run()`, `late` those sent for a time
before the threshold of a round already begun and not run since, and `lost` the task that a
`sleep` or `stop` has popped in place of the running one (finding 6).  The model ends
there: the running task is then asleep or stopped and in the event list at the
same time, with a handle a second push will overwrite.

The event list is a Boost Fibonacci heap, which is external: the set of its
elements and its top.  What matters of it is in `TopOf` (a pushed or merged element
goes above the old top unless that precedes it: the comparison given to the
heap is the *negation* of a strict one, so that of two equal keys the newer
is on top), in `wait_for` (`increase()` never takes an element from the top) and in `Tops`
(after a pop the next top is found among the roots; elements that are below one
whose key was made later in place are hidden until that one is gone, `below`).

### The `_proofs` modules

`WorkStealing_proofs`, `Simulation_proofs`, `SimpleBarrier_proofs`,
`EngineLifecycle_proofs` (which uses the former for the meetings),
`Context_proofs` and `TournamentTree_proofs` hold the theorems, see below.

## Runs

| run | instance | shows |
|---|---|---|
| ws_safety | 3 threads, 2 contexts shared 0-0-2, any execution may throw, 2 rounds | `TypeOK`, `CountIsInactive`, `OneList`, `ThiefIsBlocked`, `AnswerInPlace`, `AtMostOncePerRound` |
| ws_live | 3 threads, 2 contexts, fair | `RoundTerminates` |
| ws_lost, ws_stale_answer, ws_exception | 2 or 3 threads, 1 round | findings 1 to 3 |
| tree_rounds | 3 participants, 3 keys, 3 rounds, fair | `TypeOK`, `OnePerSlot`, `DataRaceFree`, `SomebodyMoves`, `ComputesMinimum` (refinement), `AlwaysReturns` |
| sim_rounds | 2 threads, 2 contexts, 3 tasks, end time 6, fair | `TypeOK`, `LittleLeftOver`, `ThresholdAdvances`, `Conservative`, `SimulationEnds` |
| sim_straggler | 2 threads, 2 contexts, 4 tasks, end time 8 | finding 4 |
| lifecycle_phases | 4 workers, 5 contexts, 3 cores of which the process may use any, creation may fail, fair | `TypeOK`, `ContextsCollected`, `PhasesAreSeparate`, `MeetingsAreComplete` (refinement), `NoLostWakeup`, `SomebodyMoves`, `CallsReturn`, `FailedAffinityStops` |
| context_tasks | 3 tasks, times to 3, 2 priorities, fair | `TypeOK`, `OnlyWokenAreLost`, `NoTaskLost`, `FirstTaskRuns`, `ClockAdvances`, `AllDueExecuted`, `ExecutionReturns` |
| context_busy | the same, tasks busy past the next event | finding 5 |
| context_wakes | the same, as in context_tasks | finding 6 |

Bounds.  Three threads are the smallest number with two victims and two thieves
at a time: the finding that needs a stale answer appears only there.  The share
0-0-2 gives one thread something to hand over while it works, to two thieves that
compete for it; what each has stolen can be stolen again.  Two rounds let what is
left over from the first one (a request in a slot, an answer, a deceased flag)
meet the second.  That steal-half hands over more than one context at once needs
four contexts, too many for three threads: `OneList` and `AtMostOncePerRound` are
proved for any number.  Three participants make the smallest uneven tree: one starts at the root, the other
two meet a level below, so that the loser at the root may still have a loser of its
own to tell, and another participant may come to the root's side in the next
round; three keys give every order and every tie, three rounds let participants come
back to a node others are still leaving, with its flags reset by either side.  With
`N = 4`, two keys and two rounds (both sides of the root winners of a match) the same
run passes too, in 306,000 states.  In `Simulation` two contexts and two threads
are enough for a message to arrive before, after and while its receiver is
executed; with lookahead 1 and end time 6 there are up to five rounds, and the
start times 0 and 2 leave gaps a threshold jumps over; the straggler needs a
chain of three messages or events, hence a fourth task.  Four workers on three cores
reach the failure of the first, a middle and the last affinity, a core used
twice, and five contexts leave one more for the last worker; the barrier is used
three times with two generations, so that the counter wraps.  Three tasks are a
running one, one it wakes and one that must come before, between or after them.
`MaxRounds` and `MaxTime` bound the rounds and the times (the code stops at the
end time).  Symmetry over threads and contexts is used in the safety runs
only: no formula or action distinguishes them.  Deadlock is checked except where
exceptions are possible in `WorkStealing`, since there the others do wait for ever
(`ws_exception`).  That check does not see everybody waiting for everybody where a
participant is always free to call again or a condition variable to wake up
spuriously: this is what the two properties `SomebodyMoves` say.  In the tree the
participants are never all blocked, and those whose round is decided need nobody's
next call to return; in the life cycle somebody can go on without a spurious
wakeup until `cleanup()` has returned or a failed `init()` has left nobody behind.

Fairness.  `FairSpec` assumes weak fairness of each thread's steps: the operating
system runs every thread and user code returns from `execute_until`.  A thread's
next step is always determined by its program counter, so this is no more than
"threads keep running"; nothing is assumed about the choice of victims.  In the
tree the spins are steps that are enabled when the flag allows it.  No fairness
is assumed for entering `compete()`; `AlwaysReturns` is `MinReduction`'s `RoundsEnd`: a
round everybody has entered is decided and all calls return.  In `EngineLifecycle` the client goes
on to its next call and `run_simulation` returns; nothing is assumed of spurious
wakeups or of failures.  In `Context` the steps of the thread that executes the
context are fair; spawns, messages and wakeups need not happen.  `ExecutionReturns` has
an exception of its own: tasks that call `wait_for(0)` for ever, which the
documentation allows, keep `execute_until` from returning.

## Findings

Each run finds the code violating what a comment says of it.

1. **Lost contexts** (`ws_lost`, two threads).  A thief reads NO_STEAL_RESPONSE;
   the victim answers, works off its last context and reports deceased; the
   thief reads `deceased` (771), cancels and gives up.  The contexts stay in
   `steal_free_list` for ever (and the assertion at 879 fails the next time that
   pair meets).
2. **Null dereference** (`ws_stale_answer`, three threads).  A victim that is
   blocking (834) refuses a thief that has already cancelled and asked another
   victim.  The null store lands between the thief's two loads of
   `steal_response` (769, 742).
3. **An exception stops nobody else** (`ws_exception`).  With `no_exceptions`
   false, 575 does not call `compute_threshold`: the value 0 never reaches the
   tree and the others wait in it for ever.
4. **Stragglers** (`sim_straggler`).  `send_message` never calls
   `on_send_message` (949), so undelivered messages do not bound the next
   threshold.  A context with a late message is left behind, and what it sends
   arrives behind the clock of one that has gone on (the assertion at
   context.cpp:75).  As long as finding 1 loses no context,
   `Conservative` shows that the backlog is the only cause: in a round that begins
   without undelivered messages nothing is sent into the past.  (A context that was
   lost and comes back rounds later, with assertions disabled, is another: its
   events are behind everybody's clock, and `Simulation` has no such contexts.)
   For the same reason the simulation may end with messages nobody has drained.
5. **A busy task overtakes** (`context_busy`).  `wait_for` makes the running task later
   and calls `increase()`, where the heap's order calls for `decrease()`: the task
   remains at the top, runs before events that precede it, and these then set
   the clock back (the assertion at context.cpp:75).
6. **The wrong task is popped** (`context_wakes`).  `task.hpp:104-121` lets a running task
   wake another for any time.  One that is woken for the present with no larger
   priority (or for the past) comes to the top of the event list, and the `pop()` of
   the `sleep` or `stop` that follows takes it instead of the running task (against
   task.cpp:22-23 and 30-31): it never runs, and the other one stays in the list.
   `RunningIsAtStart` fails although nobody is woken for the past.  `OnlyWokenAreLost`
   shows that nothing else can come between: neither messages, nor busy tasks, nor
   what earlier tasks have woken.

Observed in the models, without a run of their own:

* a request can be wiped out (against 827-828: "In that case, we respond with
  null").  A blocking victim finds a thief's request (its compare&swap at 830
  fails), the thief sees it deceased and cancels, another thief, which had found
  the victim alive before, puts its own request in the free slot, and the plain
  store at 835 overwrites it without an answer.  While the victim is deceased that
  thief notices and gives up; but the victim may steal work and report alive
  first, and then the thief waits, declared active, until the victim has run out of
  work again.  With four threads, two contexts, steal-one and one round TLC violates
  the invariant that a thief at `wait` or `probe` with `NoStealResponse` and a victim
  not deceased has its request in the victim's slot after 41 states; with three
  threads it holds, since the victim needs someone else to steal from.
  `ThiefIsBlocked` and `AnswerInPlace` hold all the same, and the round ends;
* the late null answer of finding 2 can also make a thief withdraw without
  cancelling: its request stays in the slot of a victim that has left the round
  (against 681 and 775-776), and its answer may reach it after termination was
  reported (against 722-727); neither breaks `OneList` or `CountIsInactive`;
* threads can be left behind by `init`.  The comment at 282-285 speaks of a thread that
  could not be created; the code catches only the failure to set an affinity
  (141-144).  The exception of the constructor (`CreateFails`) leaves `init()`, and the threads
  already started wait on `init_phase_done_condition` for ever: `SomebodyMoves` has
  to leave this case out.  When an affinity fails, `FailedAffinityStops` shows that all
  threads return (the last one is not joined, though).

Not a violation of anything that matters: `terminate()` may hold while a thread
has not started the round (its `set_active` is still to come); the others then
leave the round early and it executes its contexts alone.

The sources as they stand do not compile (`cond.wait(lock)` in simple_barrier.hpp:47, `aff[i]` at engine.hpp:134, `local_cleanup` undefined, `local_contexts_all` never resized, `epxected` at engine.hpp:831,
`streal_free_list` at 260, `concurrent::sense_barrier` at 70, `thread_pool::` at
135, `await(id)` for a function without parameters, `*committed_contexts.begin()`
assigned to a pointer at 643, free functions `wakeup` in task.cpp).  The models take
the evidently intended reading and keep to the text otherwise.

## Proofs

`WorkStealing_proofs` proves, for any finite number (at least two) of threads, any
finite set of contexts, both steal policies, with or without exceptions and for
any number of rounds, the five state invariants of `ws_safety` and
`AtMostOncePerRound`.  The only assumptions are those of the module:
`ThreadsAssumption` (the sentinels are not thread identifiers) and
`ModelAssumption`.

The inductive invariant is `IInv = TypeInv /\ SlotInv /\ OneList /\
CountIsInactive`.  `ThiefIsBlocked` and `AnswerInPlace` are not inductive: a thief's
`Cancel` could hit a victim that answers it.  That it cannot is
`CancelWindow`: when a thief is about to cancel and its request is still in the
slot, the victim is between reporting deceased and sealing its slot, or has left
the round.  For this one needs that `deceased` tells where a thread can be
(`DeceasedOK`), that nobody asks a thread that has not started the round and is
still marked deceased (`NobodyAsksEarly`), that threads that left through an
exception stay blocked (`LeftBlocked`), and that a thief never asks itself
(`PeerOK`, `OpenSlot`).  `CountIsInactive` follows from three lemmas (a step within,
into, out of the active labels); `OneList` from the four actions that move
contexts.

`Simulation_proofs` proves for any threads, contexts, tasks, delays, lookahead and
end time that `Simulation` is well typed and, if `endtime + lookahead` fits into
`time_type` (`NoWrap`), `ThresholdAdvances`, `Conservative` and `LittleLeftOver`.
`IInv` adds to the types: what the threads have noted lies beyond the threshold
(`BoundInv`, which gives `ThresholdAdvances`); of each context already executed in
the round some thread has noted the next event or an earlier one (`NotedInv`:
work stealing decides which thread, so none of them alone bounds anything);
hence, when the round is over, no event is more than lookahead before the next
threshold (lemma `LeftOver`, which gives `LittleLeftOver`), and, if all messages
had been delivered, neither is anything in the next round (`TimelyInv`, which
gives `Conservative`).

`SimpleBarrier_proofs` proves `BarrierSpec => PB!Spec` for any non-empty finite set of
participants and at least two generations.  `BarrierInv` says that `arrived` is the
number of those who wait in the current generation, and that there is a `K` such
that who is outside or waits for the current generation has left `K` meetings and who
is still on its way out of the last one `K - 1` (`Level`).  The last arrival
therefore finds nobody left from an older meeting in the wrong generation, wrap
included, which a counter of arrivals alone would not give.

`EngineLifecycle_proofs` proves, for any number of workers (at least two), contexts
and cores, `MeetingsAreComplete` (every step of the engine is a step of the barrier or none),
`TypeOK`, `PhasesAreSeparate`, `ContextsCollected`, `NoLostWakeup` and `SomebodyMoves`.  `PhasesInv` ties the label of each
thread to the number of meetings it has left (`PlacesInv`); with `Level` the labels of the
client and of a worker are then at most one meeting apart.  `FlagsInv` and
`WorkersInv` say that a flag is set only from a label on, and that who is beyond
a wait has seen it; together they place the unlocked accesses.  For the
contexts, `ContextsInv` and the arithmetic of the shares (`ShareCovers`, `SharesDisjoint`).
`WakeInv` follows every sleeper: it sleeps at a wait whose flag is not set or whose
notification is still to come (`NoLostWakeup`, which for the barrier is
`WaitersAreNotified`).  `SomebodyMoves` is then the lemma `Progress`.  If all are blocked,
nobody is in the middle of a meeting and somebody is outside it
(`SomebodyIsMissing`).  If the client waits in a meeting, a worker that is outside
(`LateComer`) sleeps on a flag the client has set by then, or spins on one, or
there is a notification to come: in each case somebody moves.  If the client joins,
the threads have been told to stop or are past the last meeting (`ToldToStop`).

`Context_proofs` proves for any tasks, times and priorities, whomever the tasks
wake and however long they are busy, that the lists are right (`TypeOK`, `NoTaskLost`,
`OnlyWokenAreLost`), and without `WaitsPass` also the order (`FirstTaskRuns`,
`ClockAdvances`, `AllDueExecuted`).  `ListsInv` says what `sleep` and `stop` may find above
the running task (`OnlyWokenAbove`): one it has woken, for a key not after its own; that
a wakeup keeps this is the transitivity of the heap's comparison (`KeyOrder`).
`OrderInv` says that the top of either heap is a first element of it, that nothing is
hidden, and that no event lies before the clock while nobody runs, and no message
before the threshold, the late ones excepted; that the merge keeps it is
`TopIsFirst`.  `~WaitsPass` is a hypothesis of the three theorems about the order; finding
5 shows that it cannot be dropped.

`TournamentTree_proofs` proves for any number of participants (at least two, as
`TournamentTree` assumes), any non-empty set of integer keys and any number of rounds
`TypeOK`, `OnePerSlot`, `DataRaceFree`, `SomebodyMoves` and the refinement `ComputesMinimum`.
It has three layers.

* Numbers.  The library has no induction that can be used here for `2^k`, so the
  powers are counted (`PowerOfTwo`: a set of `k` elements has `2^k` subsets), and an
  argument "by induction" takes the least number, or the lowest node, that has a
  property (`LeastNat`, `LowestNode`, `Foremost`).  What follows are the facts about
  node numbers: the path of a participant halves its node number at each level,
  ends at the root and stays in the array; two participants with a common node
  above their leaves share the path from there on, on the same side.
* One match.  `MatchInv` says of each level a participant holds what it may rely on
  there (`Seat`: the flags, the items and `done` for each stage between its gate and
  its reopening), that no side has two holders (`OneHolder`, which includes who
  still waits at the gate), and that a raised flag of an open match has somebody behind it
  (`Attended`).  `OneHolder` is the hard part: a winner gives its side up only to
  the loser that reopens the match, while the next to come from below is stopped
  by `done`.  `OnePerSlot` and `DataRaceFree` follow.
* The tree.  `RoundInv` says which round a participant is in, told by `callbacks`
  (`RoundOf`), that those who meet are in the same round (`SameRound`), that who has won a
  match has won against everybody below it (`Champion`), and that what goes down is
  the root's value (`Answer`).  At the root `Champion` gives the minimum, that all
  have come and that nobody has gone, which is the step *decide* of `MinReduction`;
  every other step stutters or enters or leaves.

For `SomebodyMoves` suppose that all are blocked.  Nobody is at a gate, since the loser
that will open it is at that very match and on its way (`Waited`, `WhereBlocked`).
Every match has a winner that has gone up: in the one furthest from the root that
has none both opponents would be there, and one of them would win
(`EverybodyClimbs`).  The participant nearest to the root does not wait for a winner's
answer, since that winner is ahead of it (`AheadOfWaiter`), so it waits for an
opponent; but the winner below the other side has gone up, and has arrived.

Only model-checked: the properties of liveness, `RoundTerminates`, `AlwaysReturns`,
`SimulationEnds`, `CallsReturn`, `FailedAffinityStops` and `ExecutionReturns`, which are out of the
prover's reach.  Every invariant and every safety property of a passing run is proved
under the assumptions named above; the violated ones are counterexamples of TLC's.

## Not modelled

* Memory orderings weaker than sequential consistency.  The scheduler's arrays
  are accessed with seq_cst; the tree's acquire/release pairs are covered by
  `DataRaceFree`; the barrier's counter is relaxed by default, which is modelled as
  under NO_MEMORY_ORDER_OPTIMIZATION.
* The `compete` overload with a combiner ("mostly for debugging purposes").
* Boost containers, the operating system, memory allocation.
* A second use of the engine.  `cleanup` leaves the joined threads in `threads`, and
  `distribute_contexts` leaves `local_contexts_all` empty, which nothing resizes: the
  code cannot be used twice.
* `init` with one worker, which `parameters` accept and the tournament tree refuses.
* The exceptions `await` returns, and the destructor of `context`.
* Stackless threads (`thread.hpp`): macros that expand to a `switch` inside user code.
* The random generator: 32-bit words are beyond TLC's integers, and no property
  depends on which victim is chosen.
* The parameters' setters: `set_num_threads` and `set_thread_aff` check a number each,
  `set_lookahead` and `set_endtime` nothing.

## What could come next

1. `Scheduler`: the abstract round (each context held, taken, executed once) that
   `WorkStealing` implements while no answer is lost.
2. `Context` within `Simulation`: several contexts with busy, sleeping and woken tasks.
3. A run in which `min + lookahead` wraps because `endtime` is near the largest time.
4. Proofs: that what is lost by finding 1 is all that is lost (an `AllContextsExecuted`
   up to the abandoned lists).
