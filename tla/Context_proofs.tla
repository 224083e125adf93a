--------------------------- MODULE Context_proofs ---------------------------
(***************************************************************************)
(* One simulation context, for any tasks, times and priorities: what its   *)
(* lists keep and what they may lose, whomever its tasks wake and however  *)
(* long they are busy; and the order of execution, when they are busy only *)
(* up to the next event.                                                   *)
(***************************************************************************)
EXTENDS Context, TLAPS

-----------------------------------------------------------------------------
(* Facts about keys.                                                       *)

Keys == Times \X (Priorities \cup {0})

LEMMA KeyOrder ==
  ASSUME NEW k \in Keys, NEW l \in Keys, NEW m \in Keys
  PROVE  /\ ~Before(k, k)
         /\ Before(k, l) => ~Before(l, k)
         /\ ~Before(k, l) /\ ~Before(l, m) => ~Before(k, m)
         /\ ~Before(k, l) => k[1] >= l[1]
<1>1. ASSUME NEW a \in Keys, NEW b \in Keys
      PROVE  a[1] \in Int /\ a[2] \in Int /\ b[1] \in Int /\ b[2] \in Int
  <2>1. a[1] \in Times /\ b[1] \in Times
    BY DEF Keys
  <2>2. a[2] \in Priorities \cup {0} /\ b[2] \in Priorities \cup {0}
    BY DEF Keys
  <2>3. Priorities \cup {0} \subseteq Int
    BY ContextAssumption
  <2>4. Times \subseteq Int
    BY ContextAssumption DEF Times
  <2>5. a[1] \in Int /\ b[1] \in Int
    BY <2>1, <2>4
  <2>6. a[2] \in Int /\ b[2] \in Int
    BY <2>2, <2>3
  <2> QED
    BY <2>5, <2>6
<1>2. /\ k[1] \in Int /\ l[1] \in Int /\ m[1] \in Int
      /\ k[2] \in Int /\ l[2] \in Int /\ m[2] \in Int
  BY <1>1
<1> QED
  BY <1>2 DEF Before

LEMMA KeyType ==
  ASSUME TypeOK, NEW m \in Tasks
  PROVE  key(m) \in Keys /\ key(m)[1] = timestamp[m]
BY DEF TypeOK, Keys, key

-----------------------------------------------------------------------------
(* The lists, whatever the order of the keys.                              *)

(* Above the running task is only one it has woken in front of itself.     *)
OnlyWokenAbove ==
  running # NoTask =>
    top = running \/ (top \in woken /\ ~Before(key(running), key(top)))

ListsInv ==
  /\ TypeOK
  /\ messages_top = NoTask => messages_fel = {}
  /\ executing => threshold # 0
  /\ running # NoTask => running \in fel /\ executing /\ lost = NoTask
  /\ OnlyWokenAbove
  /\ NoTaskLost

LEMMA ListsInit == Init => ListsInv
<1> SUFFICES ASSUME Init PROVE ListsInv
  OBVIOUS
<1>1. TypeOK
  <2>1. 0 \in Times
    BY ContextAssumption DEF Times
  <2>2. below \subseteq fel \X fel
    BY DEF Init
  <2> QED
    BY <2>1, <2>2 DEF Init, TypeOK
<1>2. OnlyWokenAbove /\ NoTaskLost
  BY DEF Init, OnlyWokenAbove, NoTaskLost
<1> QED
  BY <1>1, <1>2 DEF Init, ListsInv

(* A woken task comes to the top only for a key not after the running one. *)
LEMMA WakeAbove ==
  ASSUME ListsInv, NEW m \in Tasks, NEW t \in Times, NEW p \in Priorities, wakeup(m, t, p)
  PROVE  OnlyWokenAbove'
<1>1. /\ running # NoTask /\ running \in fel /\ fel \subseteq Tasks /\ top \in fel
      /\ m \notin fel /\ running # m /\ top # m
  BY DEF wakeup, ListsInv, TypeOK, NoTaskLost
<1>2. /\ running' = running /\ woken' = woken \cup {m}
      /\ top' = TopOf(top, m, <<t, p>>)
      /\ Schedule(m, t, p)
  BY DEF wakeup
<1>3. /\ \A n \in Tasks \ {m} : <<timestamp'[n], priority'[n]>> = key(n)
      /\ <<timestamp'[m], priority'[m]>> = <<t, p>>
  BY <1>2 DEF Schedule, key, ListsInv, TypeOK
<1>4. key(running) \in Keys /\ key(top) \in Keys /\ <<t, p>> \in Keys
  BY <1>1, KeyType DEF ListsInv, Keys
<1>5. ~Before(key(running), key(top))
  <2>1. ~Before(key(running), key(running))
    BY <1>4, KeyOrder
  <2> QED
    BY <1>1, <2>1 DEF ListsInv, OnlyWokenAbove
<1>6. CASE top' = top
  <2>1. key(top)' = key(top) /\ key(running)' = key(running)
    BY <1>1, <1>2, <1>3, <1>6 DEF key
  <2> QED
    BY <1>1, <1>2, <1>6, <2>1 DEF ListsInv, OnlyWokenAbove
<1>7. CASE top' = m /\ ~Before(key(top), <<t, p>>)
  <2>1. ~Before(key(running), <<t, p>>)
    BY <1>4, <1>5, <1>7, KeyOrder
  <2>2. key(running)' = key(running) /\ key(top)' = <<t, p>>
    BY <1>1, <1>2, <1>3, <1>7 DEF key
  <2> QED
    BY <1>2, <1>7, <2>1, <2>2 DEF OnlyWokenAbove
<1>8. top # NoTask
  BY <1>1, ContextAssumption
<1> QED
  BY <1>2, <1>6, <1>7, <1>8 DEF TopOf

LEMMA ListsStep == ListsInv /\ [Next]_vars => ListsInv'
<1> SUFFICES ASSUME ListsInv, [Next]_vars PROVE ListsInv'
  OBVIOUS
<1> USE ContextAssumption
    DEF ListsInv, TypeOK, OnlyWokenAbove, NoTaskLost, keys, key, messages, engine, history, Times
<1>1. CASE UNCHANGED vars \/ Finished
  BY <1>1 DEF vars, Finished
<1>2. ASSUME NEW m \in Tasks, NEW t \in Times, NEW p \in Priorities, spawn(m, t, p)
      PROVE  ListsInv'
  BY <1>2 DEF spawn, Schedule, TopOf, NotStarted
<1>3. ASSUME lost = NoTask, NEW m \in Tasks, NEW t \in Times, NEW p \in Priorities,
             send_message(m, t, p)
      PROVE  ListsInv'
  <2>1. m \notin fel
    BY <1>3 DEF send_message
  <2>2. OnlyWokenAbove'
    BY <1>3, <2>1 DEF send_message, Schedule
  <2>3. TypeOK' /\ NoTaskLost'
    BY <1>3 DEF send_message, Schedule, TopOf
  <2> QED
    BY <1>3, <2>2, <2>3 DEF send_message, TopOf
<1>4. ASSUME NEW m \in Tasks, NEW t \in Times, NEW p \in Priorities, wakeup(m, t, p)
      PROVE  ListsInv'
  <2>1. OnlyWokenAbove'
    BY <1>4, WakeAbove
  <2>2. TypeOK' /\ NoTaskLost'
    BY <1>4 DEF wakeup, Schedule, TopOf
  <2> HIDE DEF OnlyWokenAbove
  <2> QED
    BY <1>4, <2>1, <2>2 DEF wakeup
<1>5. ASSUME NEW m \in Tasks, spawn_sleeping(m) PROVE ListsInv'
  BY <1>5 DEF spawn_sleeping, NotStarted
<1>6. ASSUME NEW t \in Times, execute_until(t) PROVE ListsInv'
  <2> USE <1>6 DEF execute_until, drain_messages
  <2>1. below' \subseteq fel' \X fel'
    OBVIOUS
  <2>2. /\ top' \in fel' \cup {NoTask} /\ (top' = NoTask => fel' = {})
        /\ messages_top' \in messages_fel' \cup {NoTask}
    BY DEF TopOf
  <2>3. running = NoTask /\ t # 0
    OBVIOUS
  <2> QED
    BY <2>1, <2>2, <2>3
<1>7. CASE lost = NoTask /\ run_top
  <2>1. top \in fel /\ timestamp[top] \in 0..MaxTime
    BY <1>7 DEF run_top, is_top_task_le_threshold
  <2> QED
    BY <1>7, <2>1 DEF run_top
<1>10. CASE Return
  BY <1>10 DEF Return
<1>8. ASSUME NEW d \in Times, wait_for(d) PROVE ListsInv'
  <2>1. /\ running' = NoTask /\ woken' = {} /\ running \in fel
        /\ timestamp' = [timestamp EXCEPT ![running] = timestamp[running] + d]
        /\ timestamp[running] + d <= MaxTime
        /\ top' \in {running, top}
        /\ UNCHANGED <<priority, attached, fel, messages, current_time, engine, mode, late, lost>>
    BY <1>8 DEF wait_for, TopOf
  <2>2. below' \subseteq fel \X fel
    <3> DEFINE later == <<timestamp[running] + d, priority[running]>>
               passed == {n \in fel \ {running} : Before(key(n), later) /\ ~precedes(n, running)}
    <3>1. below' = below \cup {<<m, running>> : m \in passed}
      BY <1>8 DEF wait_for
    <3>2. passed \subseteq fel /\ running \in fel /\ below \subseteq fel \X fel
      BY <2>1
    <3> HIDE DEF passed
    <3> QED
      BY <3>1, <3>2
  <2>3. timestamp' \in [Tasks -> Times]
    BY <2>1
  <2>4. TypeOK'
    BY <2>1, <2>2, <2>3
  <2> QED
    BY <2>1, <2>4
<1>9. CASE sleep \/ stop
  <2>1. fel' = fel \ {top} /\ top' \in fel' \cup {NoTask} /\ (top' = NoTask => fel' = {})
        /\ below' \subseteq fel' \X fel' /\ running' = NoTask /\ running # NoTask
        /\ lost' = IF top = running THEN lost ELSE top
    BY <1>9 DEF sleep, stop, pop, Tops
  <2>2. TypeOK'
    BY <1>9, <2>1 DEF sleep, stop
  <2>3. NoTaskLost'
    <3>1. CASE top = running
      <4>1. /\ running \in fel /\ running \notin messages_fel /\ running \in Tasks
            /\ fel \cup messages_fel = {m \in Tasks : mode[m] = "scheduled"}
            /\ attached = {m \in Tasks : mode[m] # "init"}
            /\ fel' = fel \ {running} /\ messages_fel' = messages_fel
            /\ fel \cap messages_fel = {}
        BY <1>9, <2>1, <3>1 DEF sleep, stop
      <4>2. \/ mode' = [mode EXCEPT ![running] = "sleeping"] /\ attached' = attached
            \/ mode' = [mode EXCEPT ![running] = "init"] /\ attached' = attached \ {running}
        BY <1>9 DEF sleep, stop
      <4>3. fel' \cup messages_fel' = {m \in Tasks : mode'[m] = "scheduled"}
        BY <4>1, <4>2
      <4>4. attached' = {m \in Tasks : mode'[m] # "init"}
        BY <4>1, <4>2
      <4> QED
        BY <4>1, <4>3, <4>4
    <3>2. CASE top # running
      BY <2>1, <3>2
    <3> QED
      BY <3>1, <3>2
  <2> QED
    BY <1>9, <2>1, <2>2, <2>3 DEF sleep, stop
<1> QED
  BY <1>1, <1>2, <1>3, <1>4, <1>5, <1>6, <1>7, <1>8, <1>9, <1>10 DEF Next, Execution

LEMMA ListsHold == Spec => []ListsInv
BY ListsInit, ListsStep, PTL DEF Spec

(* Every variable keeps its type; the top is an element of the event list  *)
(* and is missing only when that is empty.                                 *)
THEOREM ContextTypes == Spec => []TypeOK
<1>1. ListsInv => TypeOK
  BY DEF ListsInv
<1> QED
  BY <1>1, ListsHold, PTL

(* However tasks are spawned, sent, woken, busy, put to sleep and stopped, *)
(* each is in exactly the list its life so far calls for, up to the moment *)
(* when a pop() takes another task than the running one.                   *)
THEOREM TasksKept == Spec => []NoTaskLost
<1>1. ListsInv => NoTaskLost
  BY DEF ListsInv
<1> QED
  BY <1>1, ListsHold, PTL

(* The pop() of sleep() and stop() (task.cpp:24, 32) takes another task    *)
(* only when the running one has woken that in this run(), for a key that  *)
(* does not come after its own: neither busy tasks nor messages nor the    *)
(* wakeups of earlier tasks can put one in its way.                        *)
THEOREM OnlyOvertakersAreLost == Spec => OnlyWokenAreLost
<1> DEFINE OnlyOvertakers ==
      lost' # lost => lost' \in woken /\ ~Before(key(running), key(lost'))
<1>1. ASSUME ListsInv, [Next]_vars PROVE [OnlyOvertakers]_vars
  <2>1. CASE sleep \/ stop
    <3>1. running # NoTask /\ lost' = IF top = running THEN lost ELSE top
      BY <2>1 DEF sleep, stop, pop
    <3>2. lost' # lost => lost' = top /\ top \in woken /\ ~Before(key(running), key(top))
      BY <1>1, <3>1 DEF ListsInv, OnlyWokenAbove
    <3>3. OnlyOvertakers
      BY <3>2
    <3> QED
      BY <3>3
  <2>2. CASE UNCHANGED lost
    <3>1. OnlyOvertakers
      BY <2>2
    <3> QED
      BY <3>1
  <2> QED
    BY <1>1, <2>1, <2>2 DEF Next, Execution, Finished, vars, history, spawn, send_message, wakeup,
       spawn_sleeping, execute_until, run_top, Return, wait_for
<1> QED
  BY <1>1, ListsHold, PTL DEF Spec, OnlyWokenAreLost

-----------------------------------------------------------------------------
(* The order of execution, when nobody waits past another event.           *)

(* The keys as one value, and what it is to be first by them.              *)
KeyOf == [m \in Tasks |-> <<timestamp[m], priority[m]>>]

FirstBy(K, m, S) == \A n \in S : ~Before(K[n], K[m])

OrderInv ==
  /\ below = {}
  /\ top # NoTask => FirstBy(KeyOf, top, fel)
  /\ messages_top # NoTask => FirstBy(KeyOf, messages_top, messages_fel)
  /\ current_time <= threshold \/ NotStarted
  /\ NotStarted => current_time = 0
  /\ \A m \in messages_fel : timestamp[m] >= threshold \/ m \in late
  /\ running # NoTask => timestamp[running] = current_time
  /\ running = NoTask /\ lost = NoTask =>
       \A m \in fel : timestamp[m] >= current_time \/ m \in late

LEMMA KeysAre ==
  ASSUME TypeOK
  PROVE  /\ KeyOf \in [Tasks -> Keys]
         /\ \A m \in Tasks : KeyOf[m] = key(m) /\ KeyOf[m][1] = timestamp[m]
BY DEF TypeOK, Keys, KeyOf, key

(* A first element above a first one: the top is first again.              *)
LEMMA TopIsFirst ==
  ASSUME NEW K \in [Tasks -> Keys],
         NEW S \in SUBSET Tasks, NEW old \in S \cup {NoTask},
         old = NoTask => S = {}, old # NoTask => FirstBy(K, old, S),
         NEW T \in SUBSET Tasks, NEW m \in T, FirstBy(K, m, T),
         NEW x, x = IF old = NoTask \/ ~Before(K[old], K[m]) THEN m ELSE old
  PROVE  FirstBy(K, x, S \cup T)
<1>1. \A n \in Tasks : K[n] \in Keys
  OBVIOUS
<1>2. CASE old = NoTask
  BY <1>2 DEF FirstBy
<1>3. CASE old # NoTask /\ Before(K[old], K[m])
  <2>1. ASSUME NEW n \in T PROVE ~Before(K[n], K[old])
    <3>1. ~Before(K[n], K[m]) /\ ~Before(K[m], K[old])
      BY <1>1, <1>3, KeyOrder DEF FirstBy
    <3> QED
      BY <1>1, <1>3, <3>1, KeyOrder
  <2> QED
    BY <1>3, <2>1 DEF FirstBy
<1>4. CASE old # NoTask /\ ~Before(K[old], K[m])
  <2>1. ASSUME NEW n \in S PROVE ~Before(K[n], K[m])
    <3>1. ~Before(K[n], K[old])
      BY <1>4 DEF FirstBy
    <3> QED
      BY <1>1, <1>4, <3>1, KeyOrder
  <2> QED
    BY <1>4, <2>1 DEF FirstBy
<1> QED
  BY <1>2, <1>3, <1>4

LEMMA OrderInit == Init => OrderInv
BY ContextAssumption DEF Init, OrderInv, NotStarted, FirstBy

(* A task that is in neither list is given a key: the lists keep theirs.   *)
LEMMA Rescheduled ==
  ASSUME ListsInv, ListsInv', NEW m \in Tasks, NEW t \in Times, NEW p \in Priorities,
         Schedule(m, t, p)
  PROVE  /\ KeyOf' \in [Tasks -> Keys]
         /\ KeyOf'[m] = <<t, p>>
         /\ timestamp'[m] = t
         /\ \A n \in Tasks \ {m} : KeyOf'[n] = KeyOf[n] /\ timestamp'[n] = timestamp[n]
BY DEF ListsInv, TypeOK, Schedule, KeyOf, Keys

LEMMA NewStep ==
  ASSUME ListsInv, ListsInv', OrderInv, lost = NoTask,
         NEW m \in Tasks, NEW t \in Times, NEW p \in Priorities,
         spawn(m, t, p) \/ wakeup(m, t, p)
  PROVE  OrderInv'
<1>1. /\ Schedule(m, t, p) /\ fel' = fel \cup {m} /\ top' = TopOf(top, m, <<t, p>>)
      /\ UNCHANGED <<below, messages_fel, messages_top, current_time, threshold, running, late,
                     lost>>
      /\ t >= current_time \/ running # NoTask
  BY DEF spawn, wakeup, messages, engine, history
<1>2. m \notin fel /\ m \notin messages_fel
  BY DEF spawn, wakeup, ListsInv, NoTaskLost
<1>3. /\ KeyOf' \in [Tasks -> Keys] /\ KeyOf'[m] = <<t, p>> /\ timestamp'[m] = t
      /\ \A n \in Tasks \ {m} : KeyOf'[n] = KeyOf[n] /\ timestamp'[n] = timestamp[n]
  BY <1>1, Rescheduled
<1>4. /\ fel \in SUBSET Tasks /\ messages_fel \in SUBSET Tasks
      /\ top \in fel \cup {NoTask}
      /\ top = NoTask => fel = {}
      /\ messages_top \in messages_fel \cup {NoTask}
      /\ running # NoTask => running \in fel
  BY DEF ListsInv, TypeOK
<1>5. FirstBy(KeyOf', top', fel')
  <2>1. top # NoTask => FirstBy(KeyOf', top, fel)
    BY <1>2, <1>3, <1>4 DEF OrderInv, FirstBy
  <2>2. FirstBy(KeyOf', m, {m})
    BY <1>3, KeyOrder DEF FirstBy
  <2>3. top' = IF top = NoTask \/ ~Before(KeyOf'[top], KeyOf'[m]) THEN m ELSE top
    <3>1. top # NoTask => KeyOf'[top] = key(top)
      BY <1>2, <1>3, <1>4, KeysAre DEF ListsInv
    <3> QED
      BY <1>1, <1>3, <3>1 DEF TopOf
  <2> QED
    BY <1>1, <1>3, <1>4, <2>1, <2>2, <2>3, TopIsFirst
<1>6. messages_top # NoTask => FirstBy(KeyOf', messages_top, messages_fel)
  BY <1>2, <1>3, <1>4 DEF OrderInv, FirstBy
<1>7. \A n \in messages_fel : timestamp'[n] >= threshold \/ n \in late
  BY <1>2, <1>3, <1>4 DEF OrderInv
<1>8. running # NoTask => timestamp'[running] = current_time
  BY <1>2, <1>3, <1>4 DEF OrderInv
<1>9. running = NoTask => \A n \in fel' : timestamp'[n] >= current_time \/ n \in late
  BY <1>1, <1>2, <1>3, <1>4 DEF OrderInv
<1> QED
  BY <1>1, <1>5, <1>6, <1>7, <1>8, <1>9 DEF OrderInv, NotStarted

LEMMA SendStep ==
  ASSUME ListsInv, ListsInv', OrderInv, lost = NoTask,
         NEW m \in Tasks, NEW t \in Times, NEW p \in Priorities, send_message(m, t, p)
  PROVE  OrderInv'
<1>1. /\ Schedule(m, t, p) /\ messages_fel' = messages_fel \cup {m}
      /\ messages_top' = TopOf(messages_top, m, <<t, p>>)
      /\ UNCHANGED <<below, fel, top, current_time, threshold, running, lost>>
      /\ late \subseteq late' /\ (t < threshold => m \in late')
  BY DEF send_message, engine
<1>2. m \notin fel /\ m \notin messages_fel
  BY DEF send_message, ListsInv, NoTaskLost
<1>3. /\ KeyOf' \in [Tasks -> Keys] /\ KeyOf'[m] = <<t, p>> /\ timestamp'[m] = t
      /\ \A n \in Tasks \ {m} : KeyOf'[n] = KeyOf[n] /\ timestamp'[n] = timestamp[n]
  BY <1>1, Rescheduled
<1>4. /\ fel \in SUBSET Tasks /\ messages_fel \in SUBSET Tasks
      /\ top \in fel \cup {NoTask}
      /\ messages_top \in messages_fel \cup {NoTask}
      /\ messages_top = NoTask => messages_fel = {}
  BY DEF ListsInv, TypeOK
<1>5. FirstBy(KeyOf', messages_top', messages_fel')
  <2>1. messages_top # NoTask => FirstBy(KeyOf', messages_top, messages_fel)
    BY <1>2, <1>3, <1>4 DEF OrderInv, FirstBy
  <2>2. FirstBy(KeyOf', m, {m})
    BY <1>3, KeyOrder DEF FirstBy
  <2>3. messages_top' = IF messages_top = NoTask \/ ~Before(KeyOf'[messages_top], KeyOf'[m])
                        THEN m ELSE messages_top
    <3>1. messages_top # NoTask => KeyOf'[messages_top] = key(messages_top)
      BY <1>2, <1>3, <1>4, KeysAre DEF ListsInv
    <3> QED
      BY <1>1, <1>3, <3>1 DEF TopOf
  <2> QED
    BY <1>1, <1>3, <1>4, <2>1, <2>2, <2>3, TopIsFirst
<1>6. top # NoTask => FirstBy(KeyOf', top, fel)
  BY <1>2, <1>3, <1>4 DEF OrderInv, FirstBy
<1>7. \A n \in messages_fel' : timestamp'[n] >= threshold \/ n \in late'
  <2>1. t \in Int /\ threshold \in Int
    BY ContextAssumption DEF ListsInv, TypeOK, Times
  <2>2. timestamp'[m] >= threshold \/ m \in late'
    BY <1>1, <1>3, <2>1
  <2> QED
    BY <1>1, <1>2, <1>3, <1>4, <2>2 DEF OrderInv
<1>8. running # NoTask => running \in fel /\ timestamp'[running] = current_time
  BY <1>2, <1>3, <1>4 DEF OrderInv, ListsInv
<1>9. running = NoTask => \A n \in fel : timestamp'[n] >= current_time \/ n \in late'
  BY <1>1, <1>2, <1>3, <1>4 DEF OrderInv
<1> QED
  BY <1>1, <1>5, <1>6, <1>7, <1>8, <1>9 DEF OrderInv, NotStarted

LEMMA DrainStep ==
  ASSUME ListsInv, OrderInv, lost = NoTask, NEW t \in Times, execute_until(t)
  PROVE  OrderInv'
<1>1. /\ t > threshold /\ threshold' = t /\ drain_messages
      /\ UNCHANGED <<timestamp, priority, below, current_time, running, late, lost>>
      /\ running = NoTask
  BY DEF execute_until, keys, history, ListsInv
<1>2. /\ KeyOf' = KeyOf /\ KeyOf \in [Tasks -> Keys]
      /\ fel \in SUBSET Tasks /\ messages_fel \in SUBSET Tasks
      /\ top \in fel \cup {NoTask}
      /\ top = NoTask => fel = {}
      /\ messages_top \in messages_fel \cup {NoTask}
      /\ messages_top = NoTask => messages_fel = {}
  BY <1>1, KeysAre DEF ListsInv, TypeOK, KeyOf
<1>3. top' # NoTask => FirstBy(KeyOf, top', fel')
  <2>1. CASE messages_fel = {}
    BY <1>1, <2>1 DEF drain_messages, OrderInv
  <2>2. CASE messages_fel # {}
    <3>1. top' = IF top = NoTask \/ ~Before(KeyOf[top], KeyOf[messages_top])
                 THEN messages_top ELSE top
      BY <1>1, <1>2, <2>2, KeysAre DEF drain_messages, TopOf, ListsInv
    <3>2. messages_top \in messages_fel
      BY <1>2, <2>2
    <3>3. FirstBy(KeyOf, messages_top, messages_fel) /\ (top # NoTask => FirstBy(KeyOf, top, fel))
      BY <1>2, <2>2 DEF OrderInv
    <3>4. FirstBy(KeyOf, top', fel \cup messages_fel)
      BY <1>2, <3>1, <3>2, <3>3, TopIsFirst
    <3> QED
      BY <1>1, <3>4 DEF drain_messages
  <2> QED
    BY <2>1, <2>2
<1>4. threshold \in Nat /\ t \in Nat /\ current_time \in Nat /\ current_time <= threshold
      /\ \A m \in Tasks : timestamp[m] \in Nat
  BY ContextAssumption DEF ListsInv, TypeOK, OrderInv, NotStarted, Times
<1>5. fel' = fel \cup messages_fel /\ messages_fel' = {} /\ messages_top' = NoTask
  BY <1>1 DEF drain_messages
<1>6. \A m \in fel' : timestamp[m] >= current_time \/ m \in late
  <2>1. ASSUME NEW m \in fel PROVE timestamp[m] >= current_time \/ m \in late
    BY <1>1 DEF OrderInv
  <2>2. ASSUME NEW m \in messages_fel PROVE timestamp[m] >= current_time \/ m \in late
    BY <1>2, <1>4 DEF OrderInv
  <2> QED
    BY <1>5, <2>1, <2>2
<1>7. t # 0 /\ current_time <= t
  BY <1>1, <1>4
<1> QED
  BY <1>1, <1>2, <1>3, <1>5, <1>6, <1>7 DEF OrderInv, NotStarted

LEMMA RunStep ==
  ASSUME ListsInv, OrderInv, lost = NoTask, run_top
  PROVE  /\ OrderInv'
         /\ current_time' >= current_time \/ running' \in late
         /\ \A m \in fel : ~precedes(m, running')
<1>1. /\ top # NoTask /\ timestamp[top] <= threshold /\ current_time' = timestamp[top]
      /\ running' = top
      /\ UNCHANGED <<timestamp, priority, fel, top, messages_fel, messages_top, below, threshold>>
      /\ running = NoTask /\ late' = late \ {top}
  BY DEF run_top, is_top_task_le_threshold, keys, messages, engine
<1>2. /\ top \in fel /\ fel \subseteq Tasks /\ top \notin messages_fel /\ KeyOf' = KeyOf
      /\ KeyOf \in [Tasks -> Keys] /\ threshold # 0
      /\ \A m \in Tasks : KeyOf[m] = key(m) /\ KeyOf[m][1] = timestamp[m]
  BY <1>1, KeysAre DEF ListsInv, TypeOK, NoTaskLost, KeyOf, run_top
<1>3. \A m \in fel : ~Before(KeyOf[m], KeyOf[top])
  BY <1>1 DEF OrderInv, FirstBy
<1>4. \A m \in messages_fel : timestamp[m] >= threshold \/ m \in late'
  BY <1>1, <1>2 DEF OrderInv
<1>5. OrderInv'
  BY <1>1, <1>2, <1>4 DEF OrderInv, NotStarted, FirstBy
<1> QED
  BY <1>1, <1>2, <1>3, <1>5 DEF OrderInv, precedes

LEMMA ReturnStep ==
  ASSUME ListsInv, OrderInv, Return
  PROVE  OrderInv' /\ \A m \in fel : timestamp[m] > threshold
<1>1. UNCHANGED <<timestamp, priority, fel, top, messages_fel, messages_top, below,
                  current_time, threshold, running, late, lost>>
  BY DEF Return, keys, messages, history
<1>2. OrderInv'
  BY <1>1 DEF OrderInv, NotStarted, FirstBy, KeyOf
<1>3. /\ top \in fel \cup {NoTask} /\ fel \subseteq Tasks /\ KeyOf \in [Tasks -> Keys]
      /\ top = NoTask => fel = {}
      /\ \A m \in Tasks : KeyOf[m][1] = timestamp[m] /\ timestamp[m] \in Int
      /\ threshold \in Int
  BY KeysAre, ContextAssumption DEF ListsInv, TypeOK, Times
<1>4. ASSUME NEW m \in fel PROVE timestamp[m] > threshold
  <2>1. top # NoTask /\ timestamp[top] > threshold
    BY <1>3 DEF Return, is_top_task_le_threshold
  <2>2. timestamp[m] >= timestamp[top]
    BY <1>3, <2>1, KeyOrder DEF OrderInv, FirstBy
  <2> QED
    BY <1>3, <2>1, <2>2
<1> QED
  BY <1>2, <1>4

(* A task that becomes busy until no later than the next event stays first *)
LEMMA BusyStep ==
  ASSUME ~WaitsPass, ListsInv, OrderInv, NEW d \in Times, wait_for(d)
  PROVE  OrderInv'
<1> DEFINE later == <<timestamp[running] + d, priority[running]>>
<1>1. /\ running # NoTask /\ running \in fel /\ lost = NoTask
      /\ fel \subseteq Tasks /\ messages_fel \subseteq Tasks /\ running \notin messages_fel
      /\ messages_top \in messages_fel \cup {NoTask}
      /\ timestamp \in [Tasks -> Times] /\ current_time \in Int
  BY ContextAssumption DEF wait_for, ListsInv, TypeOK, NoTaskLost, Times
<1>2. /\ \A m \in fel \ {running} : ~Before(key(m), later)
      /\ timestamp' = [timestamp EXCEPT ![running] = timestamp[running] + d]
      /\ UNCHANGED <<priority, fel, messages_fel, messages_top, current_time, threshold, late, lost>>
      /\ running' = NoTask
  BY DEF wait_for, messages, engine
<1>3. top' = running
  <2>1. top' = IF top = running THEN running ELSE TopOf(top, running, later)
    BY DEF wait_for
  <2>2. top \in fel
    BY <1>1 DEF ListsInv, TypeOK
  <2> QED
    BY <1>2, <2>1, <2>2 DEF TopOf
<1>4. below' = {}
  <2>1. below' = below \cup {<<m, running>> : m \in
                     {n \in fel \ {running} : Before(key(n), later) /\ ~precedes(n, running)}}
    BY DEF wait_for
  <2>2. {n \in fel \ {running} : Before(key(n), later) /\ ~precedes(n, running)} = {}
    BY <1>2
  <2> QED
    BY <2>1, <2>2 DEF OrderInv
<1>5. /\ KeyOf'[running] = later
      /\ \A n \in Tasks \ {running} :
           KeyOf'[n] = key(n) /\ KeyOf[n] = key(n) /\ timestamp'[n] = timestamp[n]
  BY <1>1, <1>2 DEF KeyOf, key
<1>6. later \in Keys /\ later[1] = timestamp[running] + d
  <2>1. timestamp[running] + d \in Times
    <3>1. timestamp[running] + d <= MaxTime
      BY DEF wait_for
    <3> QED
      BY <1>1, <3>1, ContextAssumption DEF Times
  <2>2. priority[running] \in Priorities \cup {0}
    BY <1>1 DEF ListsInv, TypeOK
  <2> QED
    BY <2>1, <2>2 DEF Keys
<1>7. later[1] >= current_time /\ later[1] \in Int
  BY <1>1, <1>6, ContextAssumption DEF OrderInv, Times
<1>8. timestamp'[running] = later[1]
  BY <1>1, <1>2
<1> HIDE DEF later
<1>9. FirstBy(KeyOf', running, fel)
  BY <1>1, <1>2, <1>5, <1>6, KeyOrder DEF FirstBy
<1>10. messages_top # NoTask => FirstBy(KeyOf', messages_top, messages_fel)
  BY <1>1, <1>5 DEF OrderInv, FirstBy
<1>11. ASSUME NEW m \in fel PROVE timestamp'[m] >= current_time
  <2>1. CASE m = running
    BY <1>7, <1>8, <2>1
  <2>2. CASE m # running
    <3>1. key(m) \in Keys /\ key(m)[1] = timestamp[m] /\ timestamp'[m] = timestamp[m]
      BY <1>1, <1>5, <2>2, KeyType DEF ListsInv
    <3>2. timestamp[m] >= later[1] /\ timestamp[m] \in Int
      BY <1>1, <1>2, <1>6, <2>2, <3>1, KeyOrder, ContextAssumption DEF Times
    <3> QED
      BY <1>1, <1>7, <3>1, <3>2
  <2> QED
    BY <2>1, <2>2
<1>12. \A m \in messages_fel : timestamp'[m] >= threshold \/ m \in late
  BY <1>1, <1>5 DEF OrderInv
<1> QED
  BY <1>1, <1>2, <1>3, <1>4, <1>9, <1>10, <1>11, <1>12 DEF OrderInv, NotStarted

LEMMA PopStep ==
  ASSUME ListsInv, OrderInv, sleep \/ stop
  PROVE  OrderInv'
<1>1. /\ pop
      /\ UNCHANGED <<timestamp, priority, messages_fel, messages_top, current_time, threshold, late>>
      /\ running # NoTask /\ running' = NoTask
  BY DEF sleep, stop, keys, messages, engine
<1>2. /\ fel' \subseteq fel /\ fel \subseteq Tasks /\ below' = {} /\ KeyOf' = KeyOf
      /\ KeyOf \in [Tasks -> Keys] /\ running \in Tasks
      /\ \A m \in Tasks : KeyOf[m] = key(m) /\ KeyOf[m][1] = timestamp[m]
  BY <1>1, KeysAre DEF pop, OrderInv, KeyOf, ListsInv, TypeOK
<1>3. top' # NoTask => FirstBy(KeyOf, top', fel')
  BY <1>1, <1>2 DEF pop, Tops, OrderInv, FirstBy, precedes
<1>4. lost' = NoTask => \A m \in fel : timestamp[m] >= current_time
  <2>1. CASE top = running
    <3>1. \A m \in fel : ~Before(KeyOf[m], KeyOf[running])
      BY <1>1, <2>1 DEF OrderInv, FirstBy
    <3>2. \A m \in fel : timestamp[m] >= timestamp[running]
      BY <1>2, <3>1, KeyOrder
    <3> QED
      BY <1>1, <3>2 DEF OrderInv
  <2>2. CASE top # running
    <3>1. lost' = top /\ top \in fel
      BY <1>1, <2>2 DEF pop, ListsInv, TypeOK
    <3> QED
      BY <1>2, <3>1, ContextAssumption
  <2> QED
    BY <2>1, <2>2
<1> QED
  BY <1>1, <1>2, <1>3, <1>4 DEF OrderInv, NotStarted

-----------------------------------------------------------------------------
(* What follows for every step.                                            *)

InOrder ==
  /\ current_time' >= current_time \/ running' \in late
  /\ running = NoTask /\ running' # NoTask => \A m \in fel : ~precedes(m, running')
  /\ executing /\ ~executing' => \A m \in fel : timestamp[m] > threshold

LEMMA OrderStep ==
  ASSUME ~WaitsPass, ListsInv, OrderInv, [Next]_vars
  PROVE  OrderInv' /\ InOrder
<1>1. ListsInv' /\ current_time \in Int
  BY ListsStep, ContextAssumption DEF ListsInv, TypeOK, Times
<1>2. CASE UNCHANGED vars \/ Finished
  BY <1>1, <1>2 DEF vars, Finished, keys, messages, engine, history, OrderInv, NotStarted,
     FirstBy, KeyOf, InOrder
<1>3. ASSUME lost = NoTask, NEW m \in Tasks, NEW t \in Times, NEW p \in Priorities,
             spawn(m, t, p) \/ wakeup(m, t, p) \/ send_message(m, t, p)
      PROVE  OrderInv' /\ InOrder
  <2>1. UNCHANGED <<current_time, running, executing>>
    BY <1>3 DEF spawn, wakeup, send_message, engine
  <2> QED
    BY <1>1, <1>3, <2>1, NewStep, SendStep DEF InOrder
<1>4. ASSUME NEW m \in Tasks, spawn_sleeping(m) PROVE OrderInv' /\ InOrder
  BY <1>1, <1>4 DEF spawn_sleeping, keys, messages, engine, history, OrderInv, NotStarted,
     FirstBy, KeyOf, InOrder
<1>5. ASSUME lost = NoTask, NEW t \in Times, execute_until(t) PROVE OrderInv' /\ InOrder
  BY <1>1, <1>5, DrainStep DEF execute_until, InOrder
<1>6. CASE lost = NoTask /\ run_top
  BY <1>6, RunStep DEF run_top, engine, InOrder
<1>7. CASE Return
  <2>1. UNCHANGED <<current_time, running>>
    BY <1>7 DEF Return
  <2>2. OrderInv' /\ \A m \in fel : timestamp[m] > threshold
    BY <1>7, ReturnStep
  <2> QED
    BY <1>1, <2>1, <2>2 DEF InOrder
<1>8. ASSUME NEW d \in Times, wait_for(d) PROVE OrderInv' /\ InOrder
  <2>1. running' = NoTask /\ UNCHANGED <<current_time, executing>>
    BY <1>8 DEF wait_for, engine
  <2>2. OrderInv'
    BY <1>8, BusyStep
  <2> QED
    BY <1>1, <2>1, <2>2 DEF InOrder
<1>9. CASE sleep \/ stop
  BY <1>1, <1>9, PopStep DEF sleep, stop, engine, InOrder
<1> QED
  BY <1>2, <1>3, <1>4, <1>5, <1>6, <1>7, <1>8, <1>9 DEF Next, Execution

LEMMA OrderHolds ==
  ASSUME ~WaitsPass
  PROVE  Spec => [](ListsInv /\ OrderInv) /\ [][InOrder]_vars
<1>1. Init => ListsInv /\ OrderInv
  BY ListsInit, OrderInit
<1>2. ListsInv /\ OrderInv /\ [Next]_vars => (ListsInv /\ OrderInv)' /\ InOrder
  BY ListsStep, OrderStep
<1> QED
  BY <1>1, <1>2, PTL DEF Spec

(* When no task is busy past the next event the documented order holds     *)
(* for any tasks, times and priorities, whomever the tasks wake: whoever   *)
(* starts precedes or ties with all others.                                *)
THEOREM TasksInOrder == ASSUME ~WaitsPass PROVE Spec => FirstTaskRuns
<1>1. InOrder => [running = NoTask /\ running' # NoTask =>
                    \A m \in fel : ~precedes(m, running')]_vars
  BY DEF InOrder
<1> QED
  BY <1>1, OrderHolds, PTL DEF FirstTaskRuns

(* Under the same proviso the assertion of context.cpp:75 fails only for   *)
(* messages sent for a time before the threshold of a round already begun. *)
THEOREM ClockNeverBack == ASSUME ~WaitsPass PROVE Spec => ClockAdvances
<1>1. InOrder => [current_time' >= current_time \/ running' \in late]_vars
  BY DEF InOrder
<1> QED
  BY <1>1, OrderHolds, PTL DEF ClockAdvances

(* And execute_until() returns only when nothing that is due is left.      *)
THEOREM NothingDueIsLeft == ASSUME ~WaitsPass PROVE Spec => AllDueExecuted
<1>1. InOrder => [executing /\ ~executing' => \A m \in fel : timestamp[m] > threshold]_vars
  BY DEF InOrder
<1> QED
  BY <1>1, OrderHolds, PTL DEF AllDueExecuted
=============================================================================
