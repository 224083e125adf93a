------------------------------- MODULE Context -------------------------------
(***************************************************************************)
(* One simulation context (context.hpp, context.cpp) and its tasks         *)
(* (task.hpp, task.cpp): the future event list, the messages other         *)
(* contexts send, and what a running task may ask for: to be busy, to      *)
(* sleep, to stop, to wake another task of the same context.               *)
(*                                                                         *)
(* The event list is a Boost Fibonacci heap, external: a set and its top   *)
(* element.  A push or a merge puts a new element on top unless the old    *)
(* top precedes it (the comparison handed to the heap is the negation of   *)
(* a strict one); increase() never takes an element from the top; pop()    *)
(* removes the top and looks for the next among the roots.  Elements below *)
(* one whose key was made later in place are hidden from that search until *)
(* it is gone (Tops).                                                      *)
(*                                                                         *)
(* The engine calls execute_until() with rising thresholds (Simulation).   *)
(* A task object keeps to the documentation: it is spawned before the      *)
(* start or sent as a message, woken only when it sleeps, and each run()   *)
(* ends with one call of wait_for(), sleep() or stop().  Messages may be   *)
(* sent for any time and tasks woken for any time: nothing checks either.  *)
(* The model ends when sleep() or stop() has popped another task than the  *)
(* running one, which then is still in a list it should have left.         *)
(***************************************************************************)
EXTENDS Integers, FiniteSets

CONSTANTS
  Tasks,
  NoTask,      \* nullptr
  MaxTime,     \* the largest time anything is scheduled for (bounds the model)
  Priorities,
  WaitsPass    \* whether a task may be busy until after the next event

ASSUME ContextAssumption ==
  /\ NoTask \notin Tasks
  /\ MaxTime \in Nat
  /\ Priorities \subseteq Nat
  /\ WaitsPass \in BOOLEAN

Times == 0..MaxTime

VARIABLES
  timestamp, priority,         \* of each task
  attached,                    \* the tasks whose ctx is not nullptr
  fel, top,                    \* the event list and the element at its top
  messages_fel, messages_top,  \* the messages and the element at their top
  below,                       \* <<m, l>>: m may be below l although it precedes l
  current_time,                \* now()
  running,                     \* the task in run(), or NoTask
  executing,                   \* in execute_until()
  threshold,                   \* its argument, 0 before the first round
  mode,                        \* history: what the documentation calls each task
  woken,                       \* history: whom the running task has woken in this run()
  late,                        \* history: sent for a time before the threshold, not run yet
  lost                         \* history: popped in place of the running task, or NoTask

keys == <<timestamp, priority>>

messages == <<messages_fel, messages_top>>

engine == <<executing, threshold>>

history == <<woken, late, lost>>

vars == <<keys, attached, fel, top, messages, below, current_time, running, engine,
          mode, history>>

-----------------------------------------------------------------------------
(* priority_compare: a strict lexicographic order.                         *)
Before(k, l) == k[1] < l[1] \/ (k[1] = l[1] /\ k[2] < l[2])

key(m) == <<timestamp[m], priority[m]>>

precedes(m, n) == Before(key(m), key(n))

(* The new top when an element with key k is added above an old top.       *)
TopOf(old, m, k) == IF old = NoTask \/ ~Before(key(old), k) THEN m ELSE old

(* What may come to the top of the elements S once the old top is popped.  *)
Tops(S) ==
  {m \in S : \A n \in S : precedes(n, m) =>
     \E l \in S : <<n, l>> \in below /\ ~precedes(l, m)}

(* Mutant: the task is erased, but the first task stays the one it was.    *)
erase ==
  /\ fel' = fel \ {top}
  /\ below' = {b \in below : top \notin {b[1], b[2]}}
  /\ lost' = IF top = running THEN lost ELSE top
  /\ UNCHANGED top

pop ==
  /\ fel' = fel \ {top}
  /\ below' = {b \in below : top \notin {b[1], b[2]}}
  /\ \/ fel' = {} /\ top' = NoTask
     \/ top' \in Tops(fel')
  /\ lost' = IF top = running THEN lost ELSE top

Schedule(m, t, p) ==
  /\ timestamp' = [timestamp EXCEPT ![m] = t]
  /\ priority' = [priority EXCEPT ![m] = p]

Init ==
  /\ timestamp = [m \in Tasks |-> 0]
  /\ priority = [m \in Tasks |-> 0]
  /\ attached = {}
  /\ fel = {} /\ top = NoTask
  /\ messages_fel = {} /\ messages_top = NoTask
  /\ below = {}
  /\ current_time = 0
  /\ running = NoTask
  /\ executing = FALSE
  /\ threshold = 0
  /\ mode = [m \in Tasks |-> "init"]
  /\ woken = {} /\ late = {} /\ lost = NoTask

NotStarted == threshold = 0

-----------------------------------------------------------------------------
(* Mutants.                                                                *)

(* merge() without a look at the other heap's top.                         *)
drain_messages_below ==
  /\ fel' = fel \cup messages_fel
  /\ top' = IF top = NoTask THEN messages_top ELSE top
  /\ messages_fel' = {} /\ messages_top' = NoTask

(* A stopped task stays in the event list (task.cpp:32).                   *)
stop_in_place ==
  /\ running # NoTask
  /\ attached' = attached \ {running}
  /\ mode' = [mode EXCEPT ![running] = "init"]
  /\ running' = NoTask /\ woken' = {}
  /\ UNCHANGED <<keys, fel, top, below, messages, current_time, engine, late, lost>>

(* The task is pushed before its timestamp is set (task.cpp:47-49).        *)
wakeup_push_first(m, t, p) ==
  /\ running # NoTask
  /\ mode[m] = "sleeping"
  /\ Schedule(m, t, p)
  /\ fel' = fel \cup {m}
  /\ top' = TopOf(top, m, key(m))
  /\ mode' = [mode EXCEPT ![m] = "scheduled"]
  /\ woken' = woken \cup {m}
  /\ UNCHANGED <<attached, messages, below, current_time, running, engine, late, lost>>

-----------------------------------------------------------------------------
(* Before the start, from the client: spawn(), or spawn_delayed() for      *)
(* t = now() + delay ...                                                   *)
spawn(m, t, p) ==
  /\ NotStarted
  /\ mode[m] = "init"
  /\ t >= current_time
  /\ Schedule(m, t, p)
  /\ fel' = fel \cup {m}
  /\ top' = TopOf(top, m, <<t, p>>)
  /\ attached' = attached \cup {m}
  /\ mode' = [mode EXCEPT ![m] = "scheduled"]
  /\ UNCHANGED <<messages, below, current_time, running, engine, history>>

(* ... and spawn_sleeping().                                               *)
spawn_sleeping(m) ==
  /\ NotStarted
  /\ mode[m] = "init"
  /\ attached' = attached \cup {m}
  /\ mode' = [mode EXCEPT ![m] = "sleeping"]
  /\ UNCHANGED <<keys, fel, top, messages, below, current_time, running, engine, history>>

(* From any context, at any moment, under messages_lock.  The timestamp is *)
(* not checked (context.hpp:98-99).                                        *)
send_message(m, t, p) ==
  /\ mode[m] = "init"
  /\ Schedule(m, t, p)
  /\ messages_fel' = messages_fel \cup {m}
  /\ messages_top' = TopOf(messages_top, m, <<t, p>>)
  /\ attached' = attached \cup {m}
  /\ mode' = [mode EXCEPT ![m] = "scheduled"]
  /\ late' = IF t < threshold THEN late \cup {m} ELSE late
  /\ UNCHANGED <<fel, top, below, current_time, running, engine, woken, lost>>

-----------------------------------------------------------------------------
(* fel.merge(messages_fel), under messages_lock.                           *)
drain_messages ==
  /\ fel' = fel \cup messages_fel
  /\ top' = IF messages_fel = {} THEN top ELSE TopOf(top, messages_top, key(messages_top))
  /\ messages_fel' = {} /\ messages_top' = NoTask

(* execute_until(), called in the next round.                              *)
execute_until(t) ==
  /\ ~executing
  /\ t > threshold
  /\ executing' = TRUE
  /\ threshold' = t
  /\ drain_messages
  /\ UNCHANGED <<keys, attached, below, current_time, running, mode, history>>

is_top_task_le_threshold == top # NoTask /\ timestamp[top] <= threshold

(* run_top(): the clock moves to the task at the top, which runs.          *)
run_top ==
  /\ executing /\ running = NoTask
  /\ is_top_task_le_threshold
  /\ current_time' = timestamp[top]
  /\ running' = top
  /\ late' = late \ {top}
  /\ UNCHANGED <<keys, attached, fel, top, messages, below, engine, mode, woken, lost>>

(* The loop of execute_until() ends.                                       *)
Return ==
  /\ executing /\ running = NoTask
  /\ ~is_top_task_le_threshold
  /\ executing' = FALSE
  /\ UNCHANGED <<keys, attached, fel, top, messages, below, current_time,
                 running, threshold, mode, history>>

-----------------------------------------------------------------------------
(* Calls of the running task.  wait_for(d): fel.increase() is told of an   *)
(* event that has become later.                                            *)
wait_for(d) ==
  /\ running # NoTask
  /\ LET later == <<timestamp[running] + d, priority[running]>>
     IN  /\ later[1] <= MaxTime
         /\ WaitsPass \/ \A m \in fel \ {running} : ~Before(key(m), later)
         /\ timestamp' = [timestamp EXCEPT ![running] = later[1]]
         /\ top' = IF top = running THEN running ELSE TopOf(top, running, later)
         /\ below' = below \cup
              {<<m, running>> : m \in {n \in fel \ {running} :
                                           Before(key(n), later) /\ ~precedes(n, running)}}
  /\ running' = NoTask /\ woken' = {}
  /\ UNCHANGED <<priority, attached, fel, messages, current_time, engine, mode, late, lost>>

(* pop(), "because we know that we are running".                           *)
sleep ==
  /\ running # NoTask
  /\ pop
  /\ mode' = [mode EXCEPT ![running] = "sleeping"]
  /\ running' = NoTask /\ woken' = {}
  /\ UNCHANGED <<keys, attached, messages, current_time, engine, late>>

stop ==
  /\ running # NoTask
  /\ pop
  /\ attached' = attached \ {running}
  /\ mode' = [mode EXCEPT ![running] = "init"]
  /\ running' = NoTask /\ woken' = {}
  /\ UNCHANGED <<keys, messages, current_time, engine, late>>

(* wakeup(t) or wakeup(t, prio) of a task of this context.                 *)
wakeup(m, t, p) ==
  /\ running # NoTask
  /\ mode[m] = "sleeping"
  /\ Schedule(m, t, p)
  /\ fel' = fel \cup {m}
  /\ top' = TopOf(top, m, <<t, p>>)
  /\ mode' = [mode EXCEPT ![m] = "scheduled"]
  /\ woken' = woken \cup {m}
  /\ UNCHANGED <<attached, messages, below, current_time, running, engine, late, lost>>

Execution ==
  lost = NoTask /\ (run_top \/ Return \/ (\E d \in Times : wait_for(d)) \/ sleep \/ stop)

Finished ==
  /\ lost # NoTask \/ (~executing /\ threshold = MaxTime)
  /\ UNCHANGED vars

Next ==
  \/ /\ lost = NoTask
     /\ \/ \E m \in Tasks, t \in Times, p \in Priorities :
             spawn(m, t, p) \/ send_message(m, t, p) \/ wakeup(m, t, p)
        \/ \E m \in Tasks : spawn_sleeping(m)
        \/ \E t \in Times : execute_until(t)
  \/ Execution
  \/ Finished

Spec == Init /\ [][Next]_vars

(* The thread that executes the context goes on; run() ends.               *)
FairSpec == Spec /\ WF_vars(Execution)

-----------------------------------------------------------------------------
(* Properties.                                                             *)

(* Every variable has the type of what it stands for.                      *)
TypeOK ==
  /\ timestamp \in [Tasks -> Times]
  /\ priority \in [Tasks -> Priorities \cup {0}]
  /\ attached \subseteq Tasks
  /\ fel \subseteq Tasks /\ messages_fel \subseteq Tasks
  /\ below \subseteq fel \X fel
  /\ top \in fel \cup {NoTask} /\ (top = NoTask => fel = {})
  /\ messages_top \in messages_fel \cup {NoTask}
  /\ current_time \in Times /\ threshold \in Times
  /\ running \in Tasks \cup {NoTask}
  /\ executing \in BOOLEAN
  /\ mode \in [Tasks -> {"init", "scheduled", "sleeping"}]
  /\ woken \subseteq Tasks /\ late \subseteq Tasks /\ lost \in Tasks \cup {NoTask}

(* sleep() and stop() pop the top of the list: what they may take in place *)
(* of the running task is one that this task has woken in this run(), for  *)
(* a key that does not come after its own, and no other, wherever the keys *)
(* of earlier wakeups, messages and busy times have put it in the heap.    *)
OnlyWokenAreLost ==
  [][lost' # lost => lost' \in woken /\ ~Before(key(running), key(lost'))]_vars

(* Unless that has happened a task is in exactly the list its life so far  *)
(* calls for: none is lost by a pop() or a merge, none stays behind when   *)
(* it sleeps or stops, and those outside a context are the ones in the     *)
(* INIT state (task.hpp:98).                                               *)
NoTaskLost ==
  lost = NoTask =>
    /\ fel \cup messages_fel = {m \in Tasks : mode[m] = "scheduled"}
    /\ fel \cap messages_fel = {}
    /\ attached = {m \in Tasks : mode[m] # "init"}

(* priority_compare_generator.hpp:12-18: tasks "are executed in timestamp  *)
(* order", ties resolved by priority: when a task starts, none of those in *)
(* the event list precedes it.                                             *)
FirstTaskRuns ==
  [][running = NoTask /\ running' # NoTask => \A m \in fel : ~precedes(m, running')]_vars

(* context.cpp:75: "assert(simtask->get_timestamp() >= now())": the clock  *)
(* of a context goes back only for a message that was sent for a time      *)
(* before the threshold of a round already begun (see Simulation), not for *)
(* what the tasks of the context do among themselves.                      *)
ClockAdvances == [][current_time' >= current_time \/ running' \in late]_vars

(* When execute_until() returns, every event up to the threshold that was  *)
(* in the list has been executed (context.hpp:162-164).                    *)
AllDueExecuted ==
  [][executing /\ ~executing' => \A m \in fel : timestamp[m] > threshold]_vars

(* execute_until() returns, unless tasks are busy for no time (t >= 0 is   *)
(* all that task.hpp:82 asks of wait_for()) again and again: tasks that    *)
(* wake each other for the present, or stop and come back, do not keep it. *)
ExecutionReturns ==
  []<><<wait_for(0)>>_vars \/ (executing ~> (~executing \/ lost # NoTask))

-----------------------------------------------------------------------------
(* What the comments say and the code does not do.                         *)

(* task.cpp:22-23 and 30-31: "we know that we are running and thus we are  *)
(* at the start of the fel", also when nobody is woken for the past.       *)
RunningIsAtStart ==
  running # NoTask /\ (\A m \in fel : timestamp[m] >= current_time) => top = running
=============================================================================
