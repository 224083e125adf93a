------------------------------ MODULE Simulation ------------------------------
(***************************************************************************)
(* The conservative rounds of the simulator: every context executes its    *)
(* events up to a threshold (context.cpp, execute_until()), the threads    *)
(* keep context_threshold and event_threshold, and from the minimum over   *)
(* all of them plus lookahead comes the next threshold (engine.hpp,        *)
(* run_simulation() and compute_threshold()).                              *)
(*                                                                         *)
(* WorkStealing details who executes a context; here any thread may take   *)
(* any context that has not been executed in this round, and none is lost. *)
(* TournamentTree details the reduction.  The tasks modelled send at most  *)
(* one message when they run and then stop(); the events of one context    *)
(* that bear the same time are executed in any order.                      *)
(***************************************************************************)
EXTENDS Integers, FiniteSets

CONSTANTS
  Threads,    \* the worker threads
  Contexts,   \* the simulation contexts
  Tasks,      \* the simulation tasks, messages included
  None,       \* no context
  lookahead,  \* the smallest delay of a message
  endtime,    \* when the simulation ends
  TimeMod,    \* time_type has the values 0..TimeMod-1
  StartTimes, \* when the tasks spawned before the start are to run
  Delays      \* delays of messages beyond lookahead

ASSUME SimulationAssumption ==
  /\ IsFiniteSet(Threads) /\ Threads # {}
  /\ IsFiniteSet(Contexts) /\ None \notin Contexts
  /\ TimeMod \in Nat
  /\ lookahead \in 1..(TimeMod - 1)     \* "lookahead is nonzero" (engine.hpp:574)
  /\ endtime \in 0..(TimeMod - 1)
  /\ StartTimes \subseteq 0..(TimeMod - 1)
  /\ Delays \subseteq Nat

Time == 0..(TimeMod - 1)

(* The largest threshold anybody computes fits into time_type.             *)
NoWrap == endtime + lookahead < TimeMod

VARIABLES
  timestamp,          \* of each task
  fel,                \* the future event list of each context
  messages_fel,       \* the messages sent to it during a round
  current_time,       \* the clock of each context
  running,            \* the context each thread executes, or None
  unexecuted,         \* contexts no thread has taken in this round
  context_threshold,  \* of each thread
  event_threshold,    \* of each thread
  threshold,          \* of the current round, 0 before the first one
  ended,              \* run_simulation() has returned
  backlog             \* history: some message was not delivered when the round began

vars == <<timestamp, fel, messages_fel, current_time, running, unexecuted,
          context_threshold, event_threshold, threshold, ended, backlog>>

events == <<timestamp, fel, messages_fel, current_time>>

thresholds == <<context_threshold, event_threshold, threshold>>

-----------------------------------------------------------------------------
min(a, b) == IF b < a THEN b ELSE a

Minimum(S) == {x \in S : \A y \in S : x <= y}

(* top() of an event list: a task no other one precedes.                   *)
Tops(c) == {m \in fel[c] : \A n \in fel[c] : timestamp[m] <= timestamp[n]}

(* is_top_task_le_threshold()                                              *)
Ready(c) == {m \in Tops(c) : timestamp[m] <= threshold}

(* Mutant: the time of the last event executed, not of the next one (656). *)
LastTime(c) == {current_time[c]}

(* The time of the event exceeding the threshold, endtime if there is none.*)
NextTime(c) == Minimum({timestamp[m] : m \in fel[c]} \cup {endtime})

(* Tasks in no list: not yet created, or stopped.                          *)
Free == Tasks \ UNION {fel[c] \cup messages_fel[c] : c \in Contexts}

(* Mutant: lookahead counted twice (936).                                  *)
LookaheadTwice(t) ==
  (min(context_threshold[t], event_threshold[t]) + 2 * lookahead) % TimeMod

(* compute_threshold() of one thread, in the width of time_type.           *)
LocalThreshold(t) ==
  (min(context_threshold[t], event_threshold[t]) + lookahead) % TimeMod

(* The reduction over all threads, once the last of them competes.         *)
NextThreshold == Minimum({LocalThreshold(t) : t \in Threads})

RoundOver ==
  /\ ~ended
  /\ unexecuted = {}
  /\ \A t \in Threads : running[t] = None

(* The contexts and their first tasks (spawn()); the threads as they enter *)
(* run_simulation().                                                       *)
Init ==
  /\ timestamp \in [Tasks -> StartTimes]
  /\ fel \in [Contexts -> SUBSET Tasks]
  /\ \A c, d \in Contexts : c # d => fel[c] \cap fel[d] = {}
  /\ messages_fel = [c \in Contexts |-> {}]
  /\ current_time = [c \in Contexts |-> 0]
  /\ running = [t \in Threads |-> None]
  /\ unexecuted = {}
  /\ context_threshold = [t \in Threads |-> 0]
  /\ event_threshold = [t \in Threads |-> endtime]
  /\ threshold = 0
  /\ ended = FALSE
  /\ backlog = FALSE

-----------------------------------------------------------------------------
(* Mutants: the bugs the properties below are there to catch.              *)

(* Each context overwrites what the ones before it left (656).             *)
FinishLastOnly(t) ==
  /\ running[t] # None
  /\ Ready(running[t]) = {}
  /\ running' = [running EXCEPT ![t] = None]
  /\ \E next \in NextTime(running[t]) :
       context_threshold' = [context_threshold EXCEPT ![t] = next]
  /\ UNCHANGED <<events, unexecuted, event_threshold, threshold, ended, backlog>>

(* The messages are copied into the event list, not merged (96).           *)
BeginCopy(t) ==
  /\ running[t] = None
  /\ \E c \in unexecuted :
       /\ unexecuted' = unexecuted \ {c}
       /\ running' = [running EXCEPT ![t] = c]
       /\ fel' = [fel EXCEPT ![c] = @ \cup messages_fel[c]]
  /\ UNCHANGED <<timestamp, messages_fel, current_time, thresholds, ended, backlog>>

(* The thresholds are not set back to endtime (580-584).                   *)
StartRoundWithoutReset ==
  /\ RoundOver
  /\ \E next \in NextThreshold :
       /\ next < endtime /\ next # 0
       /\ threshold' = next
  /\ unexecuted' = Contexts
  /\ backlog' = (\E c \in Contexts : messages_fel[c] # {})
  /\ UNCHANGED <<events, running, context_threshold, event_threshold, ended>>

-----------------------------------------------------------------------------
(* run_simulation(): a new round.                                          *)
StartRound ==
  /\ RoundOver
  /\ \E next \in NextThreshold :
       /\ next < endtime /\ next # 0
       /\ threshold' = next
  /\ unexecuted' = Contexts
  /\ context_threshold' = [t \in Threads |-> endtime]
  /\ event_threshold' = [t \in Threads |-> endtime]
  /\ backlog' = (\E c \in Contexts : messages_fel[c] # {})
  /\ UNCHANGED <<events, running, ended>>

(* run_simulation(): the end time is reached (or the value 0, which is     *)
(* meant for exceptions).                                                  *)
EndSimulation ==
  /\ RoundOver
  /\ \E next \in NextThreshold : next >= endtime \/ next = 0
  /\ ended' = TRUE
  /\ UNCHANGED <<events, running, unexecuted, thresholds, backlog>>

(* execute_until(): drain_messages(), under messages_lock.                 *)
BeginContext(t) ==
  /\ running[t] = None
  /\ \E c \in unexecuted :
       /\ unexecuted' = unexecuted \ {c}
       /\ running' = [running EXCEPT ![t] = c]
       /\ fel' = [fel EXCEPT ![c] = @ \cup messages_fel[c]]
       /\ messages_fel' = [messages_fel EXCEPT ![c] = {}]
  /\ UNCHANGED <<timestamp, current_time, thresholds, ended, backlog>>

(* run_top(): the clock moves to the task, which stops ...                 *)
RunTask(c, m) ==
  /\ m \in Ready(c)
  /\ current_time' = [current_time EXCEPT ![c] = timestamp[m]]
  /\ fel' = [fel EXCEPT ![c] = @ \ {m}]

RunTop(t) ==
  /\ running[t] # None
  /\ \E m \in Tasks : RunTask(running[t], m)
  /\ UNCHANGED <<timestamp, messages_fel, running, unexecuted, thresholds, ended, backlog>>

(* ... after it has sent a message to some context (its own included).     *)
(* send_message() does not call on_send_message().                         *)
RunTopAndSend(t) ==
  /\ running[t] # None
  /\ \E m \in Tasks, n \in Free, c \in Contexts, d \in Delays :
       /\ RunTask(running[t], m)
       /\ timestamp[m] + lookahead + d \in Time
       /\ timestamp' = [timestamp EXCEPT ![n] = timestamp[m] + lookahead + d]
       /\ messages_fel' = [messages_fel EXCEPT ![c] = @ \cup {n}]
  /\ UNCHANGED <<running, unexecuted, thresholds, ended, backlog>>

(* execute_until() returns and the thread notes the next event's time.     *)
FinishContext(t) ==
  /\ running[t] # None
  /\ Ready(running[t]) = {}
  /\ running' = [running EXCEPT ![t] = None]
  /\ \E next \in NextTime(running[t]) :
       context_threshold' = [context_threshold EXCEPT ![t] = min(@, next)]
  /\ UNCHANGED <<events, unexecuted, event_threshold, threshold, ended, backlog>>

Step(t) == BeginContext(t) \/ RunTop(t) \/ RunTopAndSend(t) \/ FinishContext(t)

Finished == ended /\ UNCHANGED vars

Next == StartRound \/ EndSimulation \/ (\E t \in Threads : Step(t)) \/ Finished

Spec == Init /\ [][Next]_vars

(* The operating system runs every thread; compete() returns once all have *)
(* called it (TournamentTree, AlwaysReturns); tasks return from run().     *)
FairSpec ==
  /\ Spec
  /\ WF_vars(StartRound) /\ WF_vars(EndSimulation)
  /\ \A t \in Threads : WF_vars(Step(t))

-----------------------------------------------------------------------------
(* Properties.                                                             *)

(* Every variable has the type of what it stands for; a task, which has    *)
(* one pool_handle, is in one list at most.                                *)
TypeOK ==
  /\ timestamp \in [Tasks -> Time]
  /\ fel \in [Contexts -> SUBSET Tasks]
  /\ messages_fel \in [Contexts -> SUBSET Tasks]
  /\ current_time \in [Contexts -> Time]
  /\ running \in [Threads -> Contexts \cup {None}]
  /\ unexecuted \subseteq Contexts
  /\ context_threshold \in [Threads -> Time]
  /\ event_threshold \in [Threads -> Time]
  /\ threshold \in Time
  /\ ended \in BOOLEAN /\ backlog \in BOOLEAN
  /\ \A c, d \in Contexts :
       /\ fel[c] \cap messages_fel[d] = {}
       /\ c # d => fel[c] \cap fel[d] = {}
       /\ c # d => messages_fel[c] \cap messages_fel[d] = {}

(* From one round to the next the threshold grows by more than lookahead:  *)
(* everything up to it has been executed, so the next event of every       *)
(* context lies beyond it (engine.hpp:655-656, 936).                       *)
ThresholdAdvances ==
  [][threshold # 0 /\ threshold' # threshold => threshold' > threshold + lookahead]_vars

(* The conservative rule: in a round that began with every message         *)
(* delivered, whatever is sent is not earlier than the threshold, so no    *)
(* context can already have passed it (engine.hpp:356-368).                *)
Conservative ==
  [][\A c \in Contexts : \A m \in messages_fel'[c] \ messages_fel[c] :
       ~backlog => timestamp'[m] >= threshold]_vars

(* When the simulation ends, what remains in the event lists is not more   *)
(* than lookahead short of endtime (engine.hpp:578).                       *)
LittleLeftOver ==
  ended => \A c \in Contexts : \A m \in fel[c] : timestamp[m] >= endtime - lookahead

(* The simulation ends.                                                    *)
SimulationEnds == <>ended

-----------------------------------------------------------------------------
(* What the code says and does not do.                                     *)

(* context.cpp:75, "assert(simtask->get_timestamp() >= now())": no context *)
(* executes an event earlier than the last one it has executed.            *)
EventsInOrder ==
  \A t \in Threads : running[t] # None =>
    \A m \in Ready(running[t]) : timestamp[m] >= current_time[running[t]]
=============================================================================
