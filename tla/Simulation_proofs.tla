-------------------------- MODULE Simulation_proofs --------------------------
(***************************************************************************)
(* Theorems about Simulation: for any threads, contexts, tasks, delays,    *)
(* lookahead and end time.  All but type correctness assume NoWrap.        *)
(***************************************************************************)
EXTENDS Simulation, TLAPS

-----------------------------------------------------------------------------
(* The inductive invariant.                                                *)

(* Outside of a round nobody executes anything.                            *)
IdleInv ==
  threshold = 0 \/ ended => unexecuted = {} /\ \A t \in Threads : running[t] = None

(* What the threads have noted lies beyond the threshold of the round.     *)
BoundInv ==
  /\ \A t \in Threads : context_threshold[t] <= endtime /\ event_threshold[t] = endtime
  /\ threshold # 0 => threshold < endtime
                      /\ \A t \in Threads : context_threshold[t] > threshold

(* c has been executed in this round.                                      *)
Executed(c) == c \notin unexecuted /\ \A t \in Threads : running[t] # c

(* Some thread has noted the next event of each executed context.          *)
NotedInv ==
  \A c \in Contexts : Executed(c) =>
    \A m \in fel[c] :
      \/ timestamp[m] >= endtime
      \/ \E t \in Threads : timestamp[m] >= context_threshold[t]

(* In a round that began without backlog no event is more than lookahead   *)
(* before the threshold, and no message before it.                         *)
TimelyInv ==
  threshold # 0 /\ ~backlog =>
    \A c \in Contexts :
      /\ \A m \in fel[c] : timestamp[m] + lookahead >= threshold
      /\ \A m \in messages_fel[c] : timestamp[m] >= threshold

IInv == TypeOK /\ IdleInv /\ BoundInv /\ NotedInv /\ TimelyInv

-----------------------------------------------------------------------------
(* Operators.                                                              *)

(* std::min() is one of its arguments and above neither.                   *)
LEMMA MinFacts ==
  ASSUME NEW a \in Int, NEW b \in Int
  PROVE  /\ min(a, b) \in {a, b}
         /\ min(a, b) <= a /\ min(a, b) <= b
BY DEF min

(* Values of time_type that are in range do not wrap.                      *)
LEMMA ModFacts ==
  ASSUME NEW n \in Nat, n > 0, NEW x \in Nat
  PROVE  /\ x % n \in 0..(n - 1)
         /\ x < n => x % n = x
OBVIOUS

(* A thread's local threshold is a time; without wrap-around it is the     *)
(* smaller of its two thresholds plus lookahead.                           *)
LEMMA LocalFacts ==
  ASSUME TypeOK, NEW t \in Threads
  PROVE  /\ LocalThreshold(t) \in Time
         /\ BoundInv /\ NoWrap => LocalThreshold(t) = context_threshold[t] + lookahead
<1> DEFINE m == min(context_threshold[t], event_threshold[t])
<1>1. /\ TimeMod \in Nat /\ TimeMod > 0 /\ lookahead \in Nat /\ endtime \in Nat
      /\ context_threshold[t] \in Nat /\ event_threshold[t] \in Nat
  BY SimulationAssumption DEF TypeOK, Time
<1>2. m \in {context_threshold[t], event_threshold[t]}
  BY <1>1, MinFacts
<1>3. m + lookahead \in Nat
  BY <1>1, <1>2
<1>4. LocalThreshold(t) \in Time
  BY <1>1, <1>3, ModFacts DEF LocalThreshold, Time
<1>5. ASSUME BoundInv, NoWrap
      PROVE  LocalThreshold(t) = context_threshold[t] + lookahead
  <2>1. m = context_threshold[t]
    BY <1>1, <1>5 DEF BoundInv, min
  <2>2. m + lookahead < TimeMod
    BY <1>1, <1>5, <2>1 DEF BoundInv, NoWrap
  <2> QED
    BY <1>1, <1>3, <2>1, <2>2, ModFacts DEF LocalThreshold
<1> QED
  BY <1>4, <1>5

(* The next threshold is some thread's, and no thread's is smaller.        *)
LEMMA NextFacts ==
  ASSUME TypeOK, NEW next \in NextThreshold
  PROVE  /\ next \in Time
         /\ \E t \in Threads : next = LocalThreshold(t)
         /\ \A t \in Threads : next <= LocalThreshold(t)
BY LocalFacts DEF NextThreshold, Minimum

(* What a thread notes of a context it has finished: beyond the threshold, *)
(* and not after any event that is left.                                   *)
LEMMA FinishFacts ==
  ASSUME TypeOK, NEW c \in Contexts, Ready(c) = {}, NEW next \in NextTime(c)
  PROVE  /\ next \in Time
         /\ next <= endtime
         /\ threshold < endtime => next > threshold
         /\ \A m \in fel[c] : timestamp[m] >= next
<1>1. /\ next <= endtime
      /\ \A m \in fel[c] : next <= timestamp[m]
      /\ next = endtime \/ \E m \in fel[c] : next = timestamp[m]
  BY DEF NextTime, Minimum
<1>2. endtime \in Time /\ \A m \in fel[c] : timestamp[m] \in Time
  BY SimulationAssumption DEF TypeOK, Time
<1>3. CASE next = endtime
  BY <1>1, <1>2, <1>3 DEF TypeOK, Time
<1>4. CASE \E m \in fel[c] : next = timestamp[m]
  <2>1. PICK m \in fel[c] : next = timestamp[m]
    BY <1>4
  <2>2. m \in Tops(c)
    BY <1>1, <2>1 DEF Tops
  <2>3. ~(timestamp[m] <= threshold)
    BY <2>2 DEF Ready
  <2> QED
    BY <1>1, <1>2, <2>1, <2>3 DEF TypeOK, Time
<1> QED
  BY <1>1, <1>3, <1>4

-----------------------------------------------------------------------------
(* Type correctness.                                                       *)

(* The simulation starts well typed.                                       *)
LEMMA TypeInit == Init => TypeOK
<1> SUFFICES ASSUME Init PROVE TypeOK
  OBVIOUS
<1>1. 0 \in Time /\ endtime \in Time /\ StartTimes \subseteq Time
  BY SimulationAssumption DEF Time
<1> QED
  BY <1>1 DEF Init, TypeOK

(* Every step keeps the types; a task changes lists only when it is        *)
(* drained, when it stops, and when a free one becomes a message.          *)
LEMMA TypeStep == TypeOK /\ [Next]_vars => TypeOK'
<1> SUFFICES ASSUME TypeOK, [Next]_vars PROVE TypeOK'
  OBVIOUS
<1>0. endtime \in Time
  BY SimulationAssumption DEF Time
<1>1. CASE UNCHANGED vars
  BY <1>1 DEF TypeOK, vars
<1>2. CASE StartRound
  <2>1. threshold' \in Time
    BY <1>2, NextFacts DEF StartRound
  <2> QED
    BY <1>0, <1>2, <2>1 DEF StartRound, TypeOK, events
<1>3. CASE EndSimulation
  BY <1>3 DEF EndSimulation, TypeOK, events, thresholds
<1>4. ASSUME NEW t \in Threads, BeginContext(t) PROVE TypeOK'
  <2>1. PICK c \in unexecuted :
          /\ unexecuted' = unexecuted \ {c}
          /\ running' = [running EXCEPT ![t] = c]
          /\ fel' = [fel EXCEPT ![c] = @ \cup messages_fel[c]]
          /\ messages_fel' = [messages_fel EXCEPT ![c] = {}]
    BY <1>4 DEF BeginContext
  <2>2. \A a \in Contexts :
          /\ fel'[a] = IF a = c THEN fel[c] \cup messages_fel[c] ELSE fel[a]
          /\ messages_fel'[a] = IF a = c THEN {} ELSE messages_fel[a]
    BY <2>1 DEF TypeOK
  <2>3. \A a, b \in Contexts :
          /\ fel'[a] \cap messages_fel'[b] = {}
          /\ a # b => fel'[a] \cap fel'[b] = {}
          /\ a # b => messages_fel'[a] \cap messages_fel'[b] = {}
    BY <2>2 DEF TypeOK
  <2> QED
    BY <1>4, <2>1, <2>3 DEF BeginContext, TypeOK, thresholds
<1>5. ASSUME NEW t \in Threads, RunTop(t) PROVE TypeOK'
  <2>1. PICK m \in Tasks : RunTask(running[t], m)
    BY <1>5 DEF RunTop
  <2>2. timestamp[m] \in Time /\ running[t] \in Contexts
    BY <1>5, <2>1 DEF RunTop, TypeOK
  <2> QED
    BY <1>5, <2>1, <2>2 DEF RunTop, RunTask, TypeOK, thresholds
<1>6. ASSUME NEW t \in Threads, RunTopAndSend(t) PROVE TypeOK'
  <2>1. PICK m \in Tasks, n \in Free, c \in Contexts, d \in Delays :
          /\ RunTask(running[t], m)
          /\ timestamp[m] + lookahead + d \in Time
          /\ timestamp' = [timestamp EXCEPT ![n] = timestamp[m] + lookahead + d]
          /\ messages_fel' = [messages_fel EXCEPT ![c] = @ \cup {n}]
    BY <1>6 DEF RunTopAndSend
  <2>2. /\ timestamp[m] \in Time /\ running[t] \in Contexts
        /\ n \in Tasks
        /\ \A a \in Contexts : n \notin fel[a] /\ n \notin messages_fel[a]
    BY <1>6, <2>1 DEF RunTopAndSend, TypeOK, Free
  <2>3. \A a \in Contexts :
          /\ fel'[a] \subseteq fel[a]
          /\ messages_fel'[a] = IF a = c THEN messages_fel[c] \cup {n}
                                         ELSE messages_fel[a]
    BY <2>1, <2>2 DEF RunTask, TypeOK
  <2>4. \A a, b \in Contexts :
          /\ fel'[a] \cap messages_fel'[b] = {}
          /\ a # b => fel'[a] \cap fel'[b] = {}
          /\ a # b => messages_fel'[a] \cap messages_fel'[b] = {}
    BY <2>2, <2>3 DEF TypeOK
  <2>5. /\ timestamp' \in [Tasks -> Time]
        /\ fel' \in [Contexts -> SUBSET Tasks]
        /\ messages_fel' \in [Contexts -> SUBSET Tasks]
        /\ current_time' \in [Contexts -> Time]
    BY <2>1, <2>2 DEF RunTask, TypeOK
  <2> QED
    BY <1>6, <2>4, <2>5 DEF RunTopAndSend, TypeOK, thresholds
<1>7. ASSUME NEW t \in Threads, FinishContext(t) PROVE TypeOK'
  <2>1. PICK next \in NextTime(running[t]) :
          context_threshold' = [context_threshold EXCEPT ![t] = min(@, next)]
    BY <1>7 DEF FinishContext
  <2>2. next \in Time /\ context_threshold[t] \in Time
    BY <1>7, FinishFacts DEF FinishContext, TypeOK
  <2>3. min(context_threshold[t], next) \in Time
    BY <2>2 DEF min
  <2> QED
    BY <1>7, <2>1, <2>3 DEF FinishContext, TypeOK, events
<1> QED
  BY <1>1, <1>2, <1>3, <1>4, <1>5, <1>6, <1>7 DEF Next, Step, Finished

-----------------------------------------------------------------------------
(* The rounds.                                                             *)

(* Before the first round and after the last nobody executes anything.     *)
LEMMA IdleInit == Init => IdleInv
BY DEF Init, IdleInv

LEMMA IdleStep == TypeOK /\ IdleInv /\ [Next]_vars => IdleInv'
<1> SUFFICES ASSUME TypeOK, IdleInv, [Next]_vars PROVE IdleInv'
  OBVIOUS
<1>1. CASE UNCHANGED vars
  BY <1>1 DEF IdleInv, vars
<1>2. CASE StartRound
  BY <1>2 DEF StartRound, RoundOver, IdleInv
<1>3. CASE EndSimulation
  BY <1>3 DEF EndSimulation, RoundOver, IdleInv, thresholds
<1>4. ASSUME NEW t \in Threads, Step(t) PROVE IdleInv'
  <2>1. threshold # 0 /\ ~ended
    BY <1>4 DEF Step, BeginContext, RunTop, RunTopAndSend, FinishContext, IdleInv
  <2>2. threshold' = threshold /\ ended' = ended
    BY <1>4 DEF Step, BeginContext, RunTop, RunTopAndSend, FinishContext, thresholds
  <2> QED
    BY <2>1, <2>2 DEF IdleInv
<1> QED
  BY <1>1, <1>2, <1>3, <1>4 DEF Next, Finished

(* The thresholds of the threads lie beyond that of the round.             *)
LEMMA BoundInit == Init => BoundInv
<1> SUFFICES ASSUME Init PROVE BoundInv
  OBVIOUS
<1>1. 0 <= endtime
  BY SimulationAssumption
<1> QED
  BY <1>1 DEF Init, BoundInv

LEMMA BoundStep == TypeOK /\ BoundInv /\ IdleInv /\ [Next]_vars => BoundInv'
<1> SUFFICES ASSUME TypeOK, BoundInv, IdleInv, [Next]_vars PROVE BoundInv'
  OBVIOUS
<1>0. endtime \in Nat /\ threshold \in Nat
  BY SimulationAssumption DEF TypeOK, Time
<1>1. CASE UNCHANGED vars
  BY <1>1 DEF BoundInv, vars
<1>2. CASE StartRound
  BY <1>0, <1>2 DEF StartRound, BoundInv
<1>3. CASE EndSimulation
  BY <1>3 DEF EndSimulation, BoundInv, thresholds
<1>4. ASSUME NEW t \in Threads, BeginContext(t) \/ RunTop(t) \/ RunTopAndSend(t)
      PROVE  BoundInv'
  BY <1>4 DEF BeginContext, RunTop, RunTopAndSend, BoundInv, thresholds
<1>5. ASSUME NEW t \in Threads, FinishContext(t) PROVE BoundInv'
  <2>1. PICK next \in NextTime(running[t]) :
          context_threshold' = [context_threshold EXCEPT ![t] = min(@, next)]
    BY <1>5 DEF FinishContext
  <2>2. threshold # 0
    BY <1>5 DEF FinishContext, IdleInv
  <2>3. next \in Time /\ next <= endtime /\ next > threshold
    BY <1>5, <2>2, FinishFacts DEF FinishContext, TypeOK, BoundInv
  <2>4. /\ min(context_threshold[t], next) <= endtime
        /\ min(context_threshold[t], next) > threshold
    BY <2>2, <2>3 DEF min, BoundInv
  <2>5. \A u \in Threads : context_threshold'[u] =
          IF u = t THEN min(context_threshold[t], next) ELSE context_threshold[u]
    BY <2>1 DEF TypeOK
  <2> QED
    BY <1>5, <2>4, <2>5 DEF FinishContext, BoundInv
<1> QED
  BY <1>1, <1>2, <1>3, <1>4, <1>5 DEF Next, Step, Finished

-----------------------------------------------------------------------------
(* What the threads have noted of the contexts they have executed.         *)

(* At first nothing has been executed and every thread is at time 0.       *)
LEMMA NotedInit == Init => NotedInv
<1> SUFFICES ASSUME Init PROVE NotedInv
  OBVIOUS
<1>1. PICK t \in Threads : TRUE
  BY SimulationAssumption
<1>2. context_threshold[t] = 0
  BY DEF Init
<1>3. \A c \in Contexts : \A m \in fel[c] : timestamp[m] >= 0
  BY TypeInit DEF TypeOK, Time
<1> QED
  BY <1>1, <1>2, <1>3 DEF NotedInv

(* A context counts as executed from FinishContext on; its list does not   *)
(* change before the next round and what was noted only gets smaller.      *)
LEMMA NotedStep == TypeOK /\ NotedInv /\ [Next]_vars => NotedInv'
<1> SUFFICES ASSUME TypeOK, NotedInv, [Next]_vars,
                    NEW c \in Contexts, Executed(c)', NEW m \in fel'[c]
             PROVE  \/ timestamp'[m] >= endtime
                    \/ \E t \in Threads : timestamp'[m] >= context_threshold'[t]
  BY DEF NotedInv
<1> DEFINE Noted == \/ timestamp[m] >= endtime
                    \/ \E t \in Threads : timestamp[m] >= context_threshold[t]
<1>1. CASE UNCHANGED vars
  BY <1>1 DEF NotedInv, Executed, vars
<1>2. CASE StartRound
  BY <1>2 DEF StartRound, Executed
<1>3. CASE EndSimulation
  BY <1>3 DEF EndSimulation, NotedInv, Executed, events, thresholds
<1>4. ASSUME NEW t \in Threads, BeginContext(t)
      PROVE  Noted /\ UNCHANGED <<timestamp, context_threshold>>
  <2>1. PICK b \in unexecuted :
          /\ unexecuted' = unexecuted \ {b}
          /\ running' = [running EXCEPT ![t] = b]
          /\ fel' = [fel EXCEPT ![b] = @ \cup messages_fel[b]]
    BY <1>4 DEF BeginContext
  <2>2. c # b
    BY <2>1 DEF Executed, TypeOK
  <2>3. Executed(c)
    BY <1>4, <2>1, <2>2, SimulationAssumption DEF BeginContext, Executed, TypeOK
  <2>4. m \in fel[c]
    BY <2>1, <2>2 DEF TypeOK
  <2> QED
    BY <1>4, <2>3, <2>4 DEF NotedInv, BeginContext, thresholds
<1>5. ASSUME NEW t \in Threads, RunTop(t) \/ RunTopAndSend(t)
      PROVE  Noted /\ timestamp'[m] = timestamp[m] /\ UNCHANGED context_threshold
  <2>1. Executed(c) /\ c # running[t]
    BY <1>5 DEF RunTop, RunTopAndSend, Executed
  <2>2. m \in fel[c]
    BY <1>5, <2>1 DEF RunTop, RunTopAndSend, RunTask, TypeOK
  <2>3. timestamp'[m] = timestamp[m]
    BY <1>5, <2>2 DEF RunTop, RunTopAndSend, Free, TypeOK
  <2> QED
    BY <1>5, <2>1, <2>2, <2>3 DEF NotedInv, RunTop, RunTopAndSend, thresholds
<1>6. ASSUME NEW t \in Threads, FinishContext(t)
      PROVE  \/ timestamp'[m] >= endtime
             \/ \E u \in Threads : timestamp'[m] >= context_threshold'[u]
  <2>1. PICK next \in NextTime(running[t]) :
          context_threshold' = [context_threshold EXCEPT ![t] = min(@, next)]
    BY <1>6 DEF FinishContext
  <2>2. /\ next \in Time /\ \A n \in fel[running[t]] : timestamp[n] >= next
        /\ \A u \in Threads : context_threshold[u] \in Time
        /\ timestamp[m] \in Time
    BY <1>6, FinishFacts DEF FinishContext, TypeOK, events
  <2>3. /\ UNCHANGED <<timestamp, fel, unexecuted>>
        /\ running' = [running EXCEPT ![t] = None]
    BY <1>6 DEF FinishContext, events
  <2>4. \A u \in Threads : context_threshold'[u] <= context_threshold[u]
    BY <2>1, <2>2 DEF min, TypeOK, Time
  <2>5. context_threshold'[t] <= next
    BY <2>1, <2>2 DEF min, TypeOK, Time
  <2>6. context_threshold' \in [Threads -> Time]
    BY <2>1, <2>2 DEF min, TypeOK
  <2>7. CASE c = running[t]
    BY <2>2, <2>3, <2>5, <2>6, <2>7 DEF Time
  <2>8. CASE c # running[t]
    <3>1. Executed(c)
      BY <2>3, <2>8 DEF Executed, TypeOK
    <3>2. Noted
      BY <2>3, <3>1 DEF NotedInv
    <3> QED
      BY <2>2, <2>3, <2>4, <2>6, <3>2 DEF Time
  <2> QED
    BY <2>7, <2>8
<1> QED
  BY <1>1, <1>2, <1>3, <1>4, <1>5, <1>6 DEF Next, Step, Finished

(* When a round is over and its successor is threshold next, every event   *)
(* left is at most lookahead before next, or not before endtime.           *)
LEMMA LeftOver ==
  ASSUME NoWrap, TypeOK, BoundInv, NotedInv, RoundOver,
         NEW next \in NextThreshold, NEW c \in Contexts, NEW m \in fel[c]
  PROVE  timestamp[m] >= endtime \/ timestamp[m] + lookahead >= next
<1>1. Executed(c)
  BY SimulationAssumption DEF RoundOver, Executed
<1>2. CASE timestamp[m] >= endtime
  BY <1>2
<1>3. ASSUME NEW t \in Threads, timestamp[m] >= context_threshold[t]
      PROVE  timestamp[m] + lookahead >= next
  <2>1. next <= context_threshold[t] + lookahead
    BY NextFacts, LocalFacts
  <2>2. /\ next \in Nat /\ lookahead \in Nat
        /\ context_threshold[t] \in Nat /\ timestamp[m] \in Nat
    BY NextFacts, SimulationAssumption DEF TypeOK, Time
  <2> QED
    BY <1>3, <2>1, <2>2
<1> QED
  BY <1>1, <1>2, <1>3 DEF NotedInv

-----------------------------------------------------------------------------
(* Messages and events of a round without backlog.                         *)

LEMMA TimelyInit == Init => TimelyInv
BY DEF Init, TimelyInv

(* What is sent is lookahead after an event, so not before the threshold.  *)
LEMMA SentInTime ==
  ASSUME TypeOK, IdleInv, TimelyInv, ~backlog, NEW t \in Threads, running[t] # None,
         NEW m \in Ready(running[t]), NEW d \in Delays
  PROVE  timestamp[m] + lookahead + d >= threshold
<1>1. threshold # 0
  BY DEF IdleInv
<1>2. running[t] \in Contexts /\ m \in fel[running[t]]
  BY DEF TypeOK, Ready, Tops
<1>3. timestamp[m] + lookahead >= threshold
  BY <1>1, <1>2 DEF TimelyInv
<1>4. timestamp[m] \in Nat /\ threshold \in Nat /\ lookahead \in Nat /\ d \in Nat
  BY <1>2, SimulationAssumption DEF TypeOK, Time
<1> QED
  BY <1>3, <1>4

LEMMA TimelyStep ==
  NoWrap /\ IInv /\ [Next]_vars => TimelyInv'
<1> SUFFICES ASSUME NoWrap, IInv, [Next]_vars, threshold' # 0, ~backlog',
                    NEW c \in Contexts
             PROVE  /\ \A m \in fel'[c] : timestamp'[m] + lookahead >= threshold'
                    /\ \A m \in messages_fel'[c] : timestamp'[m] >= threshold'
  BY DEF TimelyInv
<1> USE DEF IInv
<1>0. /\ lookahead \in Nat /\ endtime \in Nat
      /\ \A m \in Tasks : timestamp[m] \in Nat
  BY SimulationAssumption DEF TypeOK, Time
<1>1. CASE UNCHANGED vars
  BY <1>1 DEF TimelyInv, vars
<1>2. CASE StartRound
  <2>1. PICK next \in NextThreshold : next < endtime /\ threshold' = next
    BY <1>2 DEF StartRound
  <2>2. \A m \in fel[c] : timestamp[m] >= endtime \/ timestamp[m] + lookahead >= next
    BY <1>2, LeftOver DEF StartRound
  <2>3. next \in Nat
    BY NextFacts DEF Time
  <2>4. \A m \in fel[c] : timestamp[m] + lookahead >= next
    BY <1>0, <2>1, <2>2, <2>3 DEF TypeOK
  <2>5. messages_fel[c] = {}
    BY <1>2 DEF StartRound
  <2> QED
    BY <1>2, <2>1, <2>4, <2>5 DEF StartRound, events
<1>3. CASE EndSimulation
  BY <1>3 DEF EndSimulation, TimelyInv, events, thresholds
<1>4. ASSUME NEW t \in Threads, Step(t)
      PROVE  threshold # 0 /\ threshold' = threshold /\ ~backlog
  BY <1>4 DEF Step, BeginContext, RunTop, RunTopAndSend, FinishContext, thresholds
<1>5. ASSUME NEW t \in Threads, BeginContext(t)
      PROVE  /\ \A m \in fel'[c] : timestamp'[m] + lookahead >= threshold'
             /\ \A m \in messages_fel'[c] : timestamp'[m] >= threshold'
  <2>1. /\ fel'[c] \subseteq fel[c] \cup messages_fel[c]
        /\ messages_fel'[c] \subseteq messages_fel[c]
        /\ UNCHANGED timestamp
    BY <1>5 DEF BeginContext, TypeOK
  <2>2. /\ \A m \in fel[c] : timestamp[m] + lookahead >= threshold
        /\ \A m \in messages_fel[c] : timestamp[m] >= threshold
    BY <1>4, <1>5 DEF TimelyInv, Step
  <2>3. \A m \in messages_fel[c] : timestamp[m] + lookahead >= threshold
    BY <1>0, <2>2 DEF TypeOK, Time
  <2> QED
    BY <1>4, <1>5, <2>1, <2>2, <2>3 DEF Step
<1>6. ASSUME NEW t \in Threads, RunTop(t) \/ FinishContext(t)
      PROVE  /\ \A m \in fel'[c] : timestamp'[m] + lookahead >= threshold'
             /\ \A m \in messages_fel'[c] : timestamp'[m] >= threshold'
  <2>1. fel'[c] \subseteq fel[c] /\ UNCHANGED <<timestamp, messages_fel>>
    BY <1>6 DEF RunTop, RunTask, FinishContext, events, TypeOK
  <2> QED
    BY <1>4, <1>6, <2>1 DEF TimelyInv, Step
<1>7. ASSUME NEW t \in Threads, RunTopAndSend(t)
      PROVE  /\ \A m \in fel'[c] : timestamp'[m] + lookahead >= threshold'
             /\ \A m \in messages_fel'[c] : timestamp'[m] >= threshold'
  <2>1. PICK m \in Tasks, n \in Free, b \in Contexts, d \in Delays :
          /\ RunTask(running[t], m)
          /\ timestamp' = [timestamp EXCEPT ![n] = timestamp[m] + lookahead + d]
          /\ messages_fel' = [messages_fel EXCEPT ![b] = @ \cup {n}]
    BY <1>7 DEF RunTopAndSend
  <2>2. /\ fel'[c] \subseteq fel[c] /\ messages_fel'[c] \subseteq messages_fel[c] \cup {n}
        /\ n \in Tasks /\ n \notin fel[c] /\ n \notin messages_fel[c]
    BY <2>1 DEF RunTask, TypeOK, Free
  <2>3. timestamp[m] + lookahead + d >= threshold
    BY <1>4, <1>7, <2>1, SentInTime DEF RunTopAndSend, RunTask, Step
  <2>4. \A x \in fel[c] \cup messages_fel[c] : timestamp'[x] = timestamp[x]
    BY <2>1, <2>2 DEF TypeOK
  <2>5. timestamp'[n] >= threshold
    BY <2>1, <2>2, <2>3 DEF TypeOK
  <2>6. /\ \A x \in fel[c] : timestamp[x] + lookahead >= threshold
        /\ \A x \in messages_fel[c] : timestamp[x] >= threshold
    BY <1>4, <1>7 DEF TimelyInv, Step
  <2> QED
    BY <1>4, <1>7, <2>2, <2>4, <2>5, <2>6 DEF Step
<1> QED
  BY <1>1, <1>2, <1>3, <1>5, <1>6, <1>7 DEF Next, Step, Finished

-----------------------------------------------------------------------------
(* Theorems.                                                               *)

(* Every variable has its type, and every task is in one list at most: a   *)
(* message is merged, executed and stopped without a second handle.        *)
THEOREM SimulationTypes == Spec => []TypeOK
<1> QED
  BY TypeInit, TypeStep, PTL DEF Spec

(* The inductive invariant: what the threads note bounds what is left.     *)
THEOREM SimulationInvariance == NoWrap /\ Spec => []IInv
<1>1. Init => IInv
  BY TypeInit, IdleInit, BoundInit, NotedInit, TimelyInit DEF IInv
<1>2. ASSUME NoWrap PROVE IInv /\ [Next]_vars => IInv'
  BY <1>2, TypeStep, IdleStep, BoundStep, NotedStep, TimelyStep DEF IInv
<1>3. CASE NoWrap
  BY <1>1, <1>2, <1>3, PTL DEF Spec
<1> QED
  BY <1>3

(* Without wrap-around each round's threshold is more than lookahead       *)
(* beyond the last one's (engine.hpp:655-656, 936).                        *)
THEOREM ThresholdsAdvance == NoWrap /\ Spec => ThresholdAdvances
<1>1. ASSUME NoWrap, IInv, [Next]_vars
      PROVE  [threshold # 0 /\ threshold' # threshold
                => threshold' > threshold + lookahead]_vars
  <2> SUFFICES ASSUME threshold # 0, threshold' # threshold
               PROVE  threshold' > threshold + lookahead
    OBVIOUS
  <2> USE DEF IInv
  <2>1. StartRound
    BY <1>1 DEF Next, Step, Finished, EndSimulation, BeginContext, RunTop,
                RunTopAndSend, FinishContext, vars, thresholds
  <2>2. PICK t \in Threads : threshold' = context_threshold[t] + lookahead
    BY <1>1, <2>1, NextFacts, LocalFacts DEF StartRound
  <2>3. context_threshold[t] > threshold
    BY <1>1 DEF BoundInv
  <2>4. context_threshold[t] \in Nat /\ threshold \in Nat /\ lookahead \in Nat
    BY <1>1, SimulationAssumption DEF TypeOK, Time
  <2> QED
    BY <2>2, <2>3, <2>4
<1>2. CASE NoWrap
  BY <1>1, <1>2, SimulationInvariance, PTL DEF Spec, ThresholdAdvances
<1> QED
  BY <1>2

(* Without wrap-around no round that begins with all messages delivered    *)
(* sends one into the past (engine.hpp:356-368).                           *)
THEOREM SendsAreConservative == NoWrap /\ Spec => Conservative
<1> DEFINE Sent == \A c \in Contexts : \A m \in messages_fel'[c] \ messages_fel[c] :
                     ~backlog => timestamp'[m] >= threshold
<1>1. ASSUME IInv, [Next]_vars PROVE [Sent]_vars
  <2> USE DEF IInv
  <2>1. CASE UNCHANGED vars
    BY <2>1
  <2>2. CASE StartRound \/ EndSimulation \/ Finished
    BY <2>2 DEF StartRound, EndSimulation, Finished, events, vars
  <2>3. ASSUME NEW t \in Threads, BeginContext(t) \/ RunTop(t) \/ FinishContext(t)
        PROVE  \A c \in Contexts : messages_fel'[c] \subseteq messages_fel[c]
    BY <1>1, <2>3 DEF BeginContext, RunTop, FinishContext, events, TypeOK
  <2>4. ASSUME NEW t \in Threads, RunTopAndSend(t), ~backlog PROVE Sent
    <3>1. PICK m \in Tasks, n \in Free, b \in Contexts, d \in Delays :
            /\ RunTask(running[t], m)
            /\ timestamp' = [timestamp EXCEPT ![n] = timestamp[m] + lookahead + d]
            /\ messages_fel' = [messages_fel EXCEPT ![b] = @ \cup {n}]
      BY <2>4 DEF RunTopAndSend
    <3>2. timestamp[m] + lookahead + d >= threshold
      BY <1>1, <2>4, <3>1, SentInTime DEF RunTopAndSend, RunTask
    <3>3. timestamp'[n] >= threshold
      BY <1>1, <3>1, <3>2 DEF TypeOK, Free
    <3>4. \A c \in Contexts : messages_fel'[c] \subseteq messages_fel[c] \cup {n}
      BY <1>1, <3>1 DEF TypeOK
    <3> QED
      BY <3>3, <3>4
  <2> QED
    BY <1>1, <2>1, <2>2, <2>3, <2>4 DEF Next, Step
<1>2. CASE NoWrap
  BY <1>1, <1>2, SimulationInvariance, PTL DEF Spec, Conservative
<1> QED
  BY <1>2

(* Without wrap-around the simulation leaves nothing in an event list that *)
(* is more than lookahead before endtime (engine.hpp:578).                 *)
THEOREM LittleIsLeftOver == NoWrap /\ Spec => []LittleLeftOver
<1>1. Init => LittleLeftOver
  BY DEF Init, LittleLeftOver
<1>2. ASSUME NoWrap, IInv, LittleLeftOver, [Next]_vars PROVE LittleLeftOver'
  <2> USE DEF IInv
  <2>1. CASE UNCHANGED vars
    BY <1>2, <2>1 DEF LittleLeftOver, vars
  <2>2. CASE StartRound
    BY <2>2 DEF StartRound, RoundOver, LittleLeftOver
  <2>3. CASE EndSimulation
    <3>1. PICK next \in NextThreshold : next >= endtime \/ next = 0
      BY <2>3 DEF EndSimulation
    <3>2. /\ endtime \in Nat /\ lookahead \in Nat /\ lookahead > 0
          /\ \A t \in Threads : context_threshold[t] \in Nat
      BY <1>2, SimulationAssumption DEF TypeOK, Time
    <3>3. next >= endtime
      BY <1>2, <3>1, <3>2, NextFacts, LocalFacts
    <3>4. \A c \in Contexts : \A m \in fel[c] :
            timestamp[m] >= endtime \/ timestamp[m] + lookahead >= next
      BY <1>2, <2>3, LeftOver DEF EndSimulation
    <3>5. next \in Nat /\ \A m \in Tasks : timestamp[m] \in Nat
      BY <1>2, NextFacts DEF TypeOK, Time
    <3>6. \A c \in Contexts : \A m \in fel[c] : timestamp[m] >= endtime - lookahead
      BY <1>2, <3>2, <3>3, <3>4, <3>5 DEF TypeOK
    <3> QED
      BY <2>3, <3>6 DEF EndSimulation, LittleLeftOver, events
  <2>4. ASSUME NEW t \in Threads, Step(t) PROVE ~ended'
    BY <1>2, <2>4 DEF Step, BeginContext, RunTop, RunTopAndSend, FinishContext, IdleInv
  <2> QED
    BY <1>2, <2>1, <2>2, <2>3, <2>4 DEF Next, Finished, LittleLeftOver
<1>3. CASE NoWrap
  BY <1>1, <1>2, <1>3, SimulationInvariance, PTL DEF Spec
<1> QED
  BY <1>3
=============================================================================
