----------------------- MODULE EngineLifecycle_proofs -----------------------
(***************************************************************************)
(* The phases of the engine, for any number of worker threads and of       *)
(* contexts: the meetings at phases_meet_point are complete, the unlocked  *)
(* accesses of different phases do not meet, no context is lost.           *)
(***************************************************************************)
EXTENDS EngineLifecycle, SimpleBarrier_proofs

-----------------------------------------------------------------------------
(* The inductive invariant.                                                *)

MeetingLabels ==
  {"distributed", "await", "cleaning", "collected", "simulated", "cleaned"}

(* How many meetings a thread at a label has left behind.                  *)
Meetings(label) ==
  IF label \in {"clear", "ready", "await", "spin", "simulate", "simulated"} THEN 1
  ELSE IF label \in {"cleanup", "notify_cleanup", "cleaning",
                     "clean", "local_cleanup", "cleaned"} THEN 2
  ELSE IF label \in {"join", "release", "done"} THEN 3
  ELSE 0

PlacesInv ==
  /\ pc[Main] \in MainLabels
  /\ \A t \in Threads : pc[t] \in WorkerLabels
  /\ \A p \in Participants :
       /\ at[p] # "out" => pc[p] \in MeetingLabels
       /\ pc[p] # "exited" => crossings[p] = Meetings(pc[p])

(* The client from a call on.                                              *)
CleaningUp == {"notify_cleanup", "cleaning", "join", "release", "done"}

Simulating == {"await", "cleanup"} \cup CleaningUp

Met == {"clear", "ready"} \cup Simulating

Signalled == {"notify_distribution", "distributed"} \cup Met

Announced == {"notify_init", "distribute", "signal"} \cup Signalled

FlagsInv ==
  /\ init_phase_done => pc[Main] \in Announced \cup {"notify_failure", "join_started", "failed"}
  /\ pc[Main] \in Announced \cup {"notify_failure", "join_started"} => init_phase_done
  /\ init_phase_done => (init_phase_ok <=> pc[Main] \in Announced)
  /\ contexts_distributed_done <=> pc[Main] \in Signalled
  /\ start_simulation <=> pc[Main] \in Simulating
  /\ cleanup_phase_begin <=> pc[Main] \in CleaningUp

(* The threads are created in their order, all of them before init() says  *)
(* that it went fine.                                                      *)
StartedInv ==
  /\ \E k \in 0..num_threads : started = 0..(k - 1)
  /\ pc[Main] \in {"announce"} \cup Announced => started = Threads
  /\ \A t \in Threads : pc[t] = "none" <=> t \notin started
  /\ pc[Main] \in {"release", "done"} => \A t \in Threads : pc[t] = "exited"

(* The workers from a phase on.                                            *)
LastPhase == {"local_cleanup", "cleaned"}

SimulationPhase == {"simulate", "simulated", "clean"} \cup LastPhase

HasCollected == {"collected", "spin"} \cup SimulationPhase

Complete(t) == crossings[t] = 3 /\ committed[t] = Share(t)

WorkersInv ==
  \A t \in Threads :
    /\ pc[t] = "distribution" => init_phase_done /\ init_phase_ok
    /\ pc[t] \in {"collect"} \cup HasCollected => contexts_distributed_done
    /\ pc[t] \in SimulationPhase => start_simulation
    /\ pc[t] \in LastPhase => cleanup_phase_begin
    /\ pc[t] \in HasCollected => committed[t] = Share(t)
    /\ pc[t] = "exited" => (init_phase_done /\ ~init_phase_ok) \/ Complete(t)

ContextsInv ==
  \A t \in Threads :
    /\ pc[Main] \notin Signalled => committed[t] = {}
    /\ pc[Main] \in {"signal", "notify_distribution", "distributed"} =>
         local_contexts_all[t] \cup committed[t] = Share(t)

(* Where one sleeps, and that nobody is left asleep.                       *)
WakeInv ==
  /\ \A t \in asleep : pc[t] \in {"init", "distribution", "clean"}
  /\ NoLostWakeup

PhasesInv ==
  /\ TypeOK /\ BarrierInv /\ PlacesInv /\ FlagsInv /\ StartedInv /\ WorkersInv
  /\ ContextsInv /\ WakeInv

-----------------------------------------------------------------------------
(* Facts about the constants.                                              *)

LEMMA Everybody ==
  /\ Main \notin Threads
  /\ Participants = Threads \cup {Main}
BY LifecycleAssumption DEF Main, Threads

(* A share that goes on to the next thread does not exceed the contexts.   *)
quotient == ncontexts \div num_threads

LEMMA ShareBounds ==
  ASSUME NEW i \in Threads
  PROVE  /\ quotient \in Nat
         /\ i * quotient \in Nat
         /\ i # num_threads - 1 => (i + 1) * quotient \in Nat
         /\ i # num_threads - 1 => (i + 1) * quotient <= ncontexts
         /\ Share(i) = (i * quotient + 1)..
                         (IF i # num_threads - 1 THEN (i + 1) * quotient ELSE ncontexts)
<1>1. quotient \in Nat /\ num_threads * quotient <= ncontexts
  BY LifecycleAssumption DEF quotient
<1>2. i \in Nat /\ i + 1 <= num_threads /\ num_threads \in Nat
  BY LifecycleAssumption DEF Threads
<1>3. i * quotient \in Nat /\ (i + 1) * quotient \in Nat
  BY <1>1, <1>2
<1>4. (i + 1) * quotient <= num_threads * quotient
  BY <1>1, <1>2
<1>5. num_threads * quotient \in Nat /\ ncontexts \in Nat
  BY <1>1, <1>2, LifecycleAssumption
<1>6. (i + 1) * quotient <= ncontexts
  BY <1>1, <1>3, <1>4, <1>5
<1>7. Share(i) = (i * quotient + 1)..
                  (IF i # num_threads - 1 THEN (i + 1) * quotient ELSE ncontexts)
  BY DEF Share, quotient
<1> QED
  BY <1>1, <1>3, <1>6, <1>7

LEMMA ShareType == ASSUME NEW i \in Threads PROVE Share(i) \subseteq 1..ncontexts
BY ShareBounds, LifecycleAssumption

(* Every context is in the share of a thread ...                           *)
LEMMA ShareCovers ==
  ASSUME NEW c \in 1..ncontexts
  PROVE  \E i \in Threads : c \in Share(i)
<1> DEFINE r == quotient
           last == num_threads - 1
<1>1. r \in Nat /\ last \in Nat /\ last \in Threads
  BY ShareBounds, LifecycleAssumption DEF Threads
<1>2. \A i \in Threads :
        Share(i) = (i * r + 1)..(IF i # last THEN (i + 1) * r ELSE ncontexts)
  BY ShareBounds
<1> HIDE DEF r, last
<1>3. CASE c >= last * r + 1
  <2>1. c \in Share(last)
    BY <1>1, <1>2, <1>3, LifecycleAssumption
  <2> QED
    BY <1>1, <2>1
<1>4. CASE c < last * r + 1
  <2> DEFINE i == (c - 1) \div r
  <2>1. r > 0
    BY <1>1, <1>4
  <2>2. i \in Nat /\ i * r <= c - 1 /\ c - 1 < (i + 1) * r
    BY <1>1, <2>1
  <2> HIDE DEF i
  <2>3. i < last
    BY <1>1, <1>4, <2>1, <2>2
  <2>4. i \in Threads /\ i # last
    BY <2>2, <2>3, LifecycleAssumption DEF Threads, last
  <2>5. c \in Share(i)
    BY <1>1, <1>2, <2>2, <2>4
  <2> QED
    BY <2>4, <2>5
<1> QED
  BY <1>1, <1>3, <1>4

(* ... and of one only.                                                    *)
LEMMA SharesDisjoint ==
  ASSUME NEW i \in Threads, NEW j \in Threads, i # j
  PROVE  Share(i) \cap Share(j) = {}
<1>1. ASSUME NEW k \in Threads, NEW l \in Threads, k < l
      PROVE  Share(k) \cap Share(l) = {}
  <2> DEFINE r == quotient
  <2>1. r \in Nat
    BY ShareBounds
  <2>2. k \in Nat /\ l \in Nat /\ k + 1 <= l /\ k # num_threads - 1
    BY <1>1, LifecycleAssumption DEF Threads
  <2>3. Share(k) = (k * r + 1)..((k + 1) * r)
    BY <2>2, ShareBounds
  <2>4. \E n \in Int : Share(l) = (l * r + 1)..n
    <3>1. CASE l # num_threads - 1
      BY <3>1, ShareBounds
    <3>2. CASE l = num_threads - 1
      BY <3>2, ShareBounds, LifecycleAssumption
    <3> QED
      BY <3>1, <3>2
  <2> HIDE DEF r
  <2>5. (k + 1) * r <= l * r /\ (k + 1) * r \in Nat /\ l * r \in Nat /\ k * r \in Nat
    BY <2>1, <2>2
  <2> QED
    BY <2>3, <2>4, <2>5
<1>2. i < j \/ j < i
  BY DEF Threads
<1> QED
  BY <1>1, <1>2
-----------------------------------------------------------------------------
(* The meetings: every step of the engine is one of the barrier or leaves  *)
(* it alone.                                                               *)

LEMMA BarrierSteps == [Next]_vars => [BarrierNext]_barrier
<1> SUFFICES ASSUME [Next]_vars PROVE [BarrierNext]_barrier
  OBVIOUS
<1>1. CASE UNCHANGED vars \/ Finished
  BY <1>1 DEF Finished, vars, barrier
<1>2. CASE Client
  BY <1>2 DEF Client, CreateThread, CreateFails, SetAffinity, AffinityFails,
     NotifyFailure, JoinStarted, Announce, NotifyInit, Distribute,
     SignalDistribution, NotifyDistribution, ClearLists, Start,
     BeginCleanup, NotifyCleanup, Join, Release
<1>3. ASSUME NEW t \in Threads, WorkerPhase(t) PROVE UNCHANGED barrier
  BY <1>3 DEF WorkerPhase, AwaitInit, AwaitDistribution, Collect, AwaitStart,
     Simulate, AwaitCleanup, CleanUp, WaitFor
<1>4. ASSUME NEW p \in Participants, Meet(p) \/ Spurious(p)
      PROVE  [BarrierNext]_barrier
  BY <1>4 DEF Meet, Spurious, BarrierNext, AwaitStep
<1> QED
  BY <1>1, <1>2, <1>3, <1>4, Everybody DEF Next, Worker

LEMMA BarrierInvHolds == Spec => []BarrierInv
<1>1. Init => BarrierInv
  BY BarrierInitInv DEF Init
<1>2. BarrierInv /\ [Next]_vars => BarrierInv'
  BY BarrierSteps, BarrierStepInv
<1> QED
  BY <1>1, <1>2, PTL DEF Spec

(* The three meetings of every thread are complete, however the threads    *)
(* are scheduled and woken: the barrier is never left before everybody has *)
(* come to the same meeting.                                               *)
THEOREM CompleteMeetings == Spec => MeetingsAreComplete
<1>1. Spec => BarrierSpec
  <2>1. Init => BarrierInit
    BY DEF Init
  <2> QED
    BY <2>1, BarrierSteps, PTL DEF Spec, BarrierSpec
<1> QED
  BY <1>1, BarrierImplements DEF MeetingsAreComplete
-----------------------------------------------------------------------------
(* What the kinds of steps do to the barrier and to the places.            *)

(* The threads are started in the order of their numbers.                  *)
LEMMA Order ==
  ASSUME StartedInv
  PROVE  /\ Cardinality(started) \in 0..num_threads
         /\ started = 0..last_started
<1>1. PICK k \in 0..num_threads : started = 0..(k - 1)
  BY DEF StartedInv
<1>2. Cardinality(started) = k
  BY <1>1, FS_Interval, LifecycleAssumption
<1> QED
  BY <1>1, <1>2, LifecycleAssumption DEF last_started

LEMMA ClientStep == ASSUME Client PROVE UNCHANGED barrier
BY DEF Client, CreateThread, CreateFails, SetAffinity, AffinityFails,
   NotifyFailure, JoinStarted, Announce, NotifyInit, Distribute,
   SignalDistribution, NotifyDistribution, ClearLists, Start,
   BeginCleanup, NotifyCleanup, Join, Release

LEMMA WorkerStep ==
  ASSUME NEW t \in Threads, WorkerPhase(t)
  PROVE  UNCHANGED <<barrier, started, joined, flags, cpus>>
BY DEF WorkerPhase, AwaitInit, AwaitDistribution, Collect, AwaitStart,
   Simulate, AwaitCleanup, CleanUp, WaitFor

(* What comes after a meeting, and that it counts as one more.             *)
LEMMA After ==
  ASSUME NEW label \in MeetingLabels
  PROVE  /\ label \in DOMAIN AfterMeeting
         /\ label \in MainLabels => AfterMeeting[label] \in {"clear", "cleanup", "join"}
         /\ label \in WorkerLabels => AfterMeeting[label] \in {"spin", "clean", "exited"}
         /\ AfterMeeting[label] = "exited" => label = "cleaned"
         /\ AfterMeeting[label] # "exited" =>
              Meetings(AfterMeeting[label]) = Meetings(label) + 1
<1>1. /\ AfterMeeting["distributed"] = "clear" /\ AfterMeeting["await"] = "cleanup"
      /\ AfterMeeting["cleaning"] = "join" /\ AfterMeeting["collected"] = "spin"
      /\ AfterMeeting["simulated"] = "clean" /\ AfterMeeting["cleaned"] = "exited"
      /\ DOMAIN AfterMeeting = MeetingLabels
  BY DEF AfterMeeting, MeetingLabels
<1> HIDE DEF AfterMeeting
<1> QED
  BY <1>1 DEF MeetingLabels, Meetings, MainLabels, WorkerLabels

(* A step at the barrier or of a condition variable: threads come to the   *)
(* meeting or stay, or one leaves it and goes on.                          *)
Stays ==
  /\ UNCHANGED <<pc, crossings>>
  /\ \A q \in Participants : at'[q] # "out" => at[q] # "out" \/ pc[q] \in MeetingLabels

GoesOn(p) ==
  /\ at[p] # "out"
  /\ pc' = [pc EXCEPT ![p] = AfterMeeting[pc[p]]]
  /\ crossings' = [crossings EXCEPT ![p] = @ + 1]
  /\ \A q \in Participants : at'[q] # "out" => at[q] # "out" /\ q # p

LEMMA MeetStep ==
  ASSUME BarrierTypeOK, NEW p \in Participants, Meet(p) \/ Spurious(p)
  PROVE  /\ UNCHANGED <<started, joined, flags, contexts, cpus>>
         /\ asleep' \subseteq asleep
         /\ Stays \/ GoesOn(p)
<1> USE DEF BarrierTypeOK, barrier
<1>1. ASSUME pc[p] \in DOMAIN AfterMeeting, Arrive(p) \/ WaitAgain(p), UNCHANGED pc
      PROVE  Stays
  <2>1. DOMAIN AfterMeeting = MeetingLabels
    BY DEF AfterMeeting, MeetingLabels
  <2> HIDE DEF AfterMeeting
  <2> QED
    BY <1>1, <2>1 DEF Stays, Arrive, Open, Wait, WaitAgain
<1>2. ASSUME NotifyAll(p) \/ Return(p), pc' = [pc EXCEPT ![p] = AfterMeeting[pc[p]]]
      PROVE  GoesOn(p)
  BY <1>2 DEF GoesOn, NotifyAll, Return
<1>3. ASSUME Spurious(p) PROVE Stays
  BY <1>3 DEF Stays, Spurious, WakeSpuriously
<1>4. ASSUME Meet(p) PROVE Stays \/ GoesOn(p)
  BY <1>1, <1>2, <1>4 DEF Meet
<1>5. /\ UNCHANGED <<started, joined, flags, contexts, cpus>>
      /\ asleep' \subseteq asleep
  BY DEF Meet, Spurious
<1> QED
  BY <1>3, <1>4, <1>5
-----------------------------------------------------------------------------
(* Every step keeps the invariant, part by part.                           *)

LEMMA TypeStep ==
  ASSUME PhasesInv, [Next]_vars, BarrierInv'
  PROVE  TypeOK'
<1> USE DEF TypeOK, flags, contexts
<1>1. TypeOK /\ Main \in Participants /\ Threads \subseteq Participants
  BY Everybody DEF PhasesInv
<1>2. BarrierTypeOK'
  BY DEF BarrierInv
<1>3. CASE UNCHANGED vars \/ Finished
  BY <1>1, <1>2, <1>3 DEF vars, Finished
<1>4. CASE Client
  <2> USE DEF Transition, MainLabels, WorkerLabels
  <2>1. CASE CreateThread \/ CreateFails \/ SetAffinity \/ AffinityFails
    BY <1>1, <1>2, <2>1 DEF CreateThread, CreateFails, SetAffinity, AffinityFails
  <2>2. CASE JoinStarted
    <3>1. 0..(last_started - 1) \subseteq Threads
      BY Order, LifecycleAssumption DEF PhasesInv, Threads, last_started
    <3> QED
      BY <1>1, <1>2, <2>2, <3>1 DEF JoinStarted
  <2>3. CASE Distribute
    BY <1>1, <1>2, <2>3, ShareType DEF Distribute
  <2>4. CASE NotifyFailure \/ NotifyInit \/ NotifyDistribution \/ NotifyCleanup
    BY <1>1, <1>2, <2>4
       DEF NotifyFailure, NotifyInit, NotifyDistribution, NotifyCleanup, Notify
  <2>5. CASE Announce \/ SignalDistribution \/ ClearLists \/ Start \/ BeginCleanup
    BY <1>1, <1>2, <2>5
       DEF Announce, SignalDistribution, ClearLists, Start, BeginCleanup
  <2>6. CASE Join \/ Release
    BY <1>1, <1>2, <2>6 DEF Join, Release
  <2> QED
    BY <1>4, <2>1, <2>2, <2>3, <2>4, <2>5, <2>6 DEF Client
<1>5. ASSUME NEW t \in Threads, WorkerPhase(t) PROVE TypeOK'
  <2> USE DEF Transition, MainLabels, WorkerLabels
  <2>1. CASE AwaitInit(t) \/ AwaitDistribution(t) \/ AwaitCleanup(t)
    BY <1>1, <1>2, <2>1 DEF AwaitInit, AwaitDistribution, AwaitCleanup, WaitFor
  <2>2. CASE Collect(t)
    BY <1>1, <1>2, <2>2 DEF Collect
  <2>3. CASE AwaitStart(t) \/ Simulate(t) \/ CleanUp(t)
    BY <1>1, <1>2, <2>3 DEF AwaitStart, Simulate, CleanUp
  <2> QED
    BY <1>5, <2>1, <2>2, <2>3 DEF WorkerPhase
<1>6. ASSUME NEW p \in Participants, Meet(p) \/ Spurious(p) PROVE TypeOK'
  <2>1. pc' \in [Participants -> MainLabels \cup WorkerLabels]
    <3>1. CASE Stays
      BY <1>1, <3>1 DEF Stays
    <3>2. CASE GoesOn(p)
      <4>1. pc[p] \in MeetingLabels
        BY <3>2 DEF GoesOn, PhasesInv, PlacesInv
      <4>2. AfterMeeting[pc[p]] \in MainLabels \cup WorkerLabels
        BY <4>1, After DEF MeetingLabels, MainLabels, WorkerLabels
      <4> HIDE DEF AfterMeeting
      <4> QED
        BY <1>1, <3>2, <4>2 DEF GoesOn
    <3> QED
      BY <1>1, <1>6, <3>1, <3>2, MeetStep
  <2>2. UNCHANGED <<started, joined, flags, contexts, cpus>> /\ asleep' \subseteq asleep
    BY <1>1, <1>6, MeetStep
  <2> QED
    BY <1>1, <1>2, <2>1, <2>2
<1> QED
  BY <1>3, <1>4, <1>5, <1>6, Everybody DEF Next, Worker

LEMMA PlacesStep ==
  ASSUME PhasesInv, [Next]_vars
  PROVE  PlacesInv'
<1> USE DEF PlacesInv
<1>1. /\ TypeOK /\ PlacesInv /\ StartedInv /\ BarrierTypeOK
      /\ Main \in Participants /\ Threads \subseteq Participants /\ Main \notin Threads
      /\ pc \in [Participants -> MainLabels \cup WorkerLabels]
  BY Everybody DEF PhasesInv, TypeOK
<1>2. CASE UNCHANGED vars \/ Finished
  BY <1>1, <1>2 DEF vars, barrier, Finished
<1>3. CASE Client
  <2> USE DEF Transition, MainLabels, WorkerLabels, MeetingLabels, Meetings
  <2>1. UNCHANGED <<at, crossings>>
    BY <1>3, ClientStep DEF barrier
  <2>2. CASE CreateThread
    <3>1. PICK i \in Threads :
            /\ i = Cardinality(started)
            /\ pc' = [pc EXCEPT ![Main] = "affinity", ![i] = "init"]
      BY <2>2 DEF CreateThread
    <3>2. i \notin started
      BY <1>1, <3>1, Order, LifecycleAssumption DEF last_started
    <3>3. pc[i] = "none" /\ pc[Main] = "create"
      BY <1>1, <2>2, <3>2 DEF StartedInv, CreateThread
    <3> QED
      BY <1>1, <2>1, <3>1, <3>3
  <2>3. CASE CreateFails \/ SetAffinity \/ AffinityFails \/ NotifyFailure \/ JoinStarted
    BY <1>1, <2>1, <2>3 DEF CreateFails, SetAffinity, AffinityFails, NotifyFailure, JoinStarted
  <2>4. CASE Announce \/ NotifyInit \/ Distribute \/ SignalDistribution \/ NotifyDistribution
    BY <1>1, <2>1, <2>4
       DEF Announce, NotifyInit, Distribute, SignalDistribution, NotifyDistribution
  <2>5. CASE ClearLists \/ Start \/ BeginCleanup \/ NotifyCleanup \/ Join \/ Release
    BY <1>1, <2>1, <2>5 DEF ClearLists, Start, BeginCleanup, NotifyCleanup, Join, Release
  <2> QED
    BY <1>3, <2>2, <2>3, <2>4, <2>5 DEF Client
<1>4. ASSUME NEW t \in Threads, WorkerPhase(t) PROVE PlacesInv'
  <2> USE DEF Transition, MainLabels, WorkerLabels, MeetingLabels, Meetings
  <2>1. UNCHANGED <<at, crossings>>
    BY <1>4, WorkerStep DEF barrier
  <2>2. CASE AwaitInit(t) \/ AwaitDistribution(t) \/ AwaitCleanup(t)
    BY <1>1, <2>1, <2>2 DEF AwaitInit, AwaitDistribution, AwaitCleanup, WaitFor
  <2>3. CASE Collect(t) \/ AwaitStart(t) \/ Simulate(t) \/ CleanUp(t)
    BY <1>1, <2>1, <2>3 DEF Collect, AwaitStart, Simulate, CleanUp
  <2> QED
    BY <1>4, <2>2, <2>3 DEF WorkerPhase
<1>5. ASSUME NEW p \in Participants, Meet(p) \/ Spurious(p) PROVE PlacesInv'
  <2>1. CASE Stays
    BY <1>1, <2>1 DEF Stays
  <2>2. CASE GoesOn(p)
    <3> USE <2>2 DEF GoesOn
    <3>1. pc[p] \in MeetingLabels /\ crossings[p] = Meetings(pc[p])
      BY <1>1 DEF MeetingLabels
    <3>2. pc'[p] = AfterMeeting[pc[p]] /\ crossings'[p] = crossings[p] + 1
      BY <1>1 DEF BarrierTypeOK
    <3>3. /\ p = Main => pc'[p] \in {"clear", "cleanup", "join"}
          /\ p # Main => pc'[p] \in {"spin", "clean", "exited"}
          /\ pc'[p] # "exited" => crossings'[p] = Meetings(pc'[p])
      BY <1>1, <3>1, <3>2, After, Everybody
    <3>4. \A q \in Participants : q # p => pc'[q] = pc[q] /\ crossings'[q] = crossings[q]
      BY <1>1 DEF BarrierTypeOK
    <3> QED
      BY <1>1, <3>3, <3>4 DEF MainLabels, WorkerLabels
  <2> QED
    BY <1>1, <1>5, <2>1, <2>2, MeetStep
<1> QED
  BY <1>2, <1>3, <1>4, <1>5, Everybody DEF Next, Worker
-----------------------------------------------------------------------------
(* What the invariant says of the phases.                                  *)

(* Nobody is a meeting behind a thread that is not in one, unless it is    *)
(* still on its way out of that meeting.                                   *)
LEMMA Neighbours ==
  ASSUME PhasesInv, NEW p \in Participants, NEW q \in Participants, at[p] = "out"
  PROVE  crossings[q] = crossings[p] \/ (crossings[q] + 1 = crossings[p] /\ at[q] # "out")
<1>1. PICK K \in Nat : Level(K)
  BY DEF PhasesInv, BarrierInv
<1> QED
  BY <1>1 DEF Level

LEMMA Separate == PhasesInv => PhasesAreSeparate
<1> SUFFICES ASSUME PhasesInv, NEW t \in Threads
             PROVE  /\ pc[t] = "collect" => pc[Main] \in {"notify_distribution", "distributed"}
                    /\ pc[t] = "simulate" => pc[Main] = "await"
                    /\ pc[t] = "local_cleanup" => pc[Main] \in {"notify_cleanup", "cleaning"}
                    /\ pc[Main] = "release" => pc[t] = "exited"
  BY DEF PhasesAreSeparate
<1> USE DEF PlacesInv, MeetingLabels, Meetings
<1>1. t \in Participants /\ Main \in Participants /\ PlacesInv
  BY Everybody DEF PhasesInv
<1>2. pc[Main] # "exited" /\ crossings[Main] = Meetings(pc[Main])
  BY <1>1 DEF MainLabels
<1>3. CASE pc[t] = "collect"
  <2>1. crossings[Main] = 0 \/ crossings[Main] + 1 = 0
    BY <1>1, <1>3, Neighbours
  <2>2. pc[Main] \in Signalled
    BY <1>3 DEF PhasesInv, WorkersInv, FlagsInv
  <2> QED
    BY <1>2, <1>3, <2>1, <2>2 DEF Signalled, Met, Simulating, CleaningUp
<1>4. CASE pc[t] = "simulate"
  <2>1. crossings[Main] = 1 \/ (crossings[Main] + 1 = 1 /\ at[Main] # "out")
    BY <1>1, <1>4, Neighbours
  <2>2. pc[Main] \in Simulating
    BY <1>4 DEF PhasesInv, WorkersInv, FlagsInv, SimulationPhase
  <2> QED
    BY <1>2, <1>4, <2>1, <2>2 DEF Simulating, CleaningUp
<1>5. CASE pc[t] = "local_cleanup"
  <2>1. crossings[Main] = 2 \/ (crossings[Main] + 1 = 2 /\ at[Main] # "out")
    BY <1>1, <1>5, Neighbours
  <2>2. pc[Main] \in CleaningUp
    BY <1>5 DEF PhasesInv, WorkersInv, FlagsInv, SimulationPhase, LastPhase
  <2> QED
    BY <1>2, <1>5, <2>1, <2>2 DEF CleaningUp
<1>6. CASE pc[Main] = "release"
  BY <1>6 DEF PhasesInv, StartedInv
<1> QED
  BY <1>3, <1>4, <1>5, <1>6

(* Once the client has left the first meeting every worker has collected   *)
(* its share.                                                              *)
LEMMA AllHaveCollected ==
  ASSUME PhasesInv, pc[Main] \in Met, NEW t \in Threads
  PROVE  committed[t] = Share(t)
<1> USE DEF PlacesInv
<1>1. t \in Participants /\ Main \in Participants /\ PlacesInv
  BY Everybody DEF PhasesInv
<1>2. crossings[Main] \in 1..3
  <2>1. crossings[Main] = Meetings(pc[Main])
    BY <1>1 DEF MainLabels
  <2> QED
    BY <2>1 DEF Met, Simulating, CleaningUp, Meetings
<1>3. at[t] # "out" \/ crossings[t] # 0
  BY <1>1, <1>2, Neighbours
<1>4. init_phase_done /\ init_phase_ok
  BY DEF PhasesInv, FlagsInv, Announced, Signalled
<1>5. CASE pc[t] = "exited"
  BY <1>4, <1>5 DEF PhasesInv, WorkersInv, Complete
<1>6. CASE pc[t] # "exited"
  <2>1. pc[t] \in MeetingLabels \/ Meetings(pc[t]) # 0
    BY <1>1, <1>3, <1>6
  <2>2. pc[t] \in HasCollected
    BY <1>1, <1>6, <2>1
       DEF WorkerLabels, MeetingLabels, Meetings, HasCollected, SimulationPhase, LastPhase
  <2> QED
    BY <2>2 DEF PhasesInv, WorkersInv
<1> QED
  BY <1>5, <1>6

LEMMA Collected == PhasesInv => ContextsCollected
<1> SUFFICES ASSUME PhasesInv, pc[Main] \in Met
             PROVE  /\ UNION {committed[t] : t \in Threads} = 1..ncontexts
                    /\ \A t, u \in Threads : t # u => committed[t] \cap committed[u] = {}
  BY DEF ContextsCollected, Met, Simulating, CleaningUp
<1>1. \A t \in Threads : committed[t] = Share(t)
  BY AllHaveCollected
<1>2. UNION {committed[t] : t \in Threads} = 1..ncontexts
  BY <1>1, ShareType, ShareCovers
<1> QED
  BY <1>1, <1>2, SharesDisjoint
-----------------------------------------------------------------------------
(* The other parts of the invariant.                                       *)

LEMMA FlagsStep ==
  ASSUME PhasesInv, [Next]_vars
  PROVE  FlagsInv'
<1> USE DEF FlagsInv, Announced, Signalled, Met, Simulating, CleaningUp, flags
<1>1. /\ FlagsInv /\ PlacesInv /\ BarrierTypeOK
      /\ Main \in Participants /\ Threads \subseteq Participants /\ Main \notin Threads
      /\ pc \in [Participants -> MainLabels \cup WorkerLabels]
  BY Everybody DEF PhasesInv, TypeOK
<1>2. CASE UNCHANGED vars \/ Finished
  BY <1>1, <1>2 DEF vars, Finished
<1>3. CASE Client
  <2> USE DEF Transition
  <2>1. CASE CreateThread \/ CreateFails \/ SetAffinity \/ AffinityFails
    BY <1>1, <2>1 DEF CreateThread, CreateFails, SetAffinity, AffinityFails
  <2>2. CASE NotifyFailure \/ JoinStarted \/ Announce \/ NotifyInit \/ Distribute
    BY <1>1, <2>2 DEF NotifyFailure, JoinStarted, Announce, NotifyInit, Distribute
  <2>3. CASE SignalDistribution \/ NotifyDistribution \/ ClearLists \/ Start
    BY <1>1, <2>3 DEF SignalDistribution, NotifyDistribution, ClearLists, Start
  <2>4. CASE BeginCleanup \/ NotifyCleanup \/ Join \/ Release
    BY <1>1, <2>4 DEF BeginCleanup, NotifyCleanup, Join, Release
  <2> QED
    BY <1>3, <2>1, <2>2, <2>3, <2>4 DEF Client
<1>4. ASSUME NEW t \in Threads, WorkerPhase(t) PROVE FlagsInv'
  <2>1. UNCHANGED flags
    BY <1>4, WorkerStep
  <2>2. pc'[Main] = pc[Main]
    BY <1>1, <1>4 DEF WorkerPhase, AwaitInit, AwaitDistribution, Collect,
       AwaitStart, Simulate, AwaitCleanup, CleanUp, WaitFor, Transition
  <2> QED
    BY <1>1, <2>1, <2>2
<1>5. ASSUME NEW p \in Participants, Meet(p) \/ Spurious(p) PROVE FlagsInv'
  <2>1. UNCHANGED flags /\ (Stays \/ GoesOn(p))
    BY <1>1, <1>5, MeetStep
  <2>2. CASE pc'[Main] = pc[Main]
    BY <1>1, <2>1, <2>2
  <2>3. CASE pc'[Main] # pc[Main]
    <3>1. p = Main /\ at[Main] # "out" /\ pc'[Main] = AfterMeeting[pc[Main]]
      BY <1>1, <2>1, <2>3 DEF Stays, GoesOn
    <3>2. pc[Main] \in {"distributed", "await", "cleaning"}
      BY <1>1, <3>1 DEF PlacesInv, MeetingLabels, MainLabels
    <3>3. \/ pc[Main] = "distributed" /\ pc'[Main] = "clear"
          \/ pc[Main] = "await" /\ pc'[Main] = "cleanup"
          \/ pc[Main] = "cleaning" /\ pc'[Main] = "join"
      BY <3>1, <3>2 DEF AfterMeeting
    <3> QED
      BY <1>1, <2>1, <3>3
  <2> QED
    BY <2>2, <2>3
<1> QED
  BY <1>2, <1>3, <1>4, <1>5, Everybody DEF Next, Worker

LEMMA StartedStep ==
  ASSUME PhasesInv, [Next]_vars
  PROVE  StartedInv'
<1> USE DEF StartedInv
<1>1. /\ StartedInv /\ PlacesInv /\ BarrierTypeOK
      /\ Main \in Participants /\ Threads \subseteq Participants /\ Main \notin Threads
      /\ pc \in [Participants -> MainLabels \cup WorkerLabels]
  BY Everybody DEF PhasesInv, TypeOK
<1>2. CASE UNCHANGED vars \/ Finished
  BY <1>1, <1>2 DEF vars, Finished
<1>3. CASE Client
  <2> USE DEF Transition, Announced, Signalled, Met, Simulating, CleaningUp
  <2>1. CASE CreateThread
    <3>1. PICK i \in Threads :
            /\ i = Cardinality(started)
            /\ started' = started \cup {i}
            /\ pc' = [pc EXCEPT ![Main] = "affinity", ![i] = "init"]
      BY <2>1 DEF CreateThread
    <3>2. started = 0..(i - 1) /\ i \in Nat /\ i + 1 \in 0..num_threads
      BY <1>1, <3>1, Order, LifecycleAssumption DEF last_started, Threads
    <3>3. started' = 0..((i + 1) - 1)
      <4>1. \A n \in Nat : 0..((n + 1) - 1) = (0..(n - 1)) \cup {n}
        OBVIOUS
      <4> QED
        BY <3>1, <3>2, <4>1
    <3>4. pc'[Main] = "affinity" /\ \A t \in Threads : pc'[t] = "none" <=> t \notin started'
      BY <1>1, <3>1
    <3> QED
      BY <3>2, <3>3, <3>4
  <2>2. CASE CreateFails \/ SetAffinity \/ AffinityFails \/ NotifyFailure
    BY <1>1, <2>2 DEF CreateFails, SetAffinity, AffinityFails, NotifyFailure
  <2>3. CASE JoinStarted \/ Announce \/ NotifyInit \/ Distribute
    BY <1>1, <2>3 DEF JoinStarted, Announce, NotifyInit, Distribute
  <2>4. CASE SignalDistribution \/ NotifyDistribution \/ ClearLists \/ Start
    BY <1>1, <2>4 DEF SignalDistribution, NotifyDistribution, ClearLists, Start
  <2>5. CASE BeginCleanup \/ NotifyCleanup \/ Join \/ Release
    BY <1>1, <2>5 DEF BeginCleanup, NotifyCleanup, Join, Release
  <2> QED
    BY <1>3, <2>1, <2>2, <2>3, <2>4, <2>5 DEF Client
<1>4. ASSUME NEW t \in Threads, WorkerPhase(t) PROVE StartedInv'
  <2>1. UNCHANGED started
    BY <1>4, WorkerStep
  <2>2. /\ pc[t] \notin {"none", "exited"} /\ pc'[t] # "none"
        /\ \A q \in Participants : q # t => pc'[q] = pc[q]
    BY <1>1, <1>4 DEF WorkerPhase, AwaitInit, AwaitDistribution, Collect,
       AwaitStart, Simulate, AwaitCleanup, CleanUp, WaitFor, Transition
  <2> QED
    BY <1>1, <2>1, <2>2
<1>5. ASSUME NEW p \in Participants, Meet(p) \/ Spurious(p) PROVE StartedInv'
  <2>1. UNCHANGED started
    BY <1>1, <1>5, MeetStep
  <2>2. CASE Stays
    BY <1>1, <2>1, <2>2 DEF Stays
  <2>3. CASE GoesOn(p)
    <3>1. /\ pc[p] \in MeetingLabels /\ pc'[p] = AfterMeeting[pc[p]]
          /\ \A q \in Participants : q # p => pc'[q] = pc[q]
      BY <1>1, <2>3 DEF GoesOn, PlacesInv
    <3>2. CASE p = Main
      <4>1. /\ pc[Main] \in Announced
            /\ pc'[Main] \notin {"release", "done"}
        BY <1>1, <3>1, <3>2, After
           DEF PlacesInv, MeetingLabels, MainLabels, Announced, Signalled, Met,
               Simulating, CleaningUp
      <4> QED
        BY <1>1, <2>1, <3>1, <3>2, <4>1
    <3>3. CASE p # Main
      <4>1. pc[p] \notin {"none", "exited"}
        BY <3>1 DEF MeetingLabels
      <4>2. pc'[p] # "none"
        BY <1>1, <3>1, <3>3, After, Everybody DEF PlacesInv
      <4> QED
        BY <1>1, <2>1, <3>1, <3>3, <4>1, <4>2, Everybody
    <3> QED
      BY <3>2, <3>3
  <2> QED
    BY <1>1, <1>5, <2>2, <2>3, MeetStep
<1> QED
  BY <1>2, <1>3, <1>4, <1>5, Everybody DEF Next, Worker

LEMMA WorkersStep ==
  ASSUME PhasesInv, [Next]_vars
  PROVE  WorkersInv'
<1> USE DEF WorkersInv, HasCollected, SimulationPhase, LastPhase, Complete, flags, contexts
<1>1. /\ WorkersInv /\ PlacesInv /\ FlagsInv /\ StartedInv /\ BarrierTypeOK
      /\ Main \in Participants /\ Threads \subseteq Participants /\ Main \notin Threads
      /\ pc \in [Participants -> MainLabels \cup WorkerLabels]
      /\ committed \in [Threads -> SUBSET (1..ncontexts)]
  BY Everybody DEF PhasesInv, TypeOK
<1>2. CASE UNCHANGED vars \/ Finished
  BY <1>1, <1>2 DEF vars, barrier, Finished
<1>3. CASE Client
  <2> USE DEF Transition
  <2>1. UNCHANGED crossings
    BY <1>3, ClientStep DEF barrier
  <2>2. CASE CreateThread
    <3>1. PICK i \in Threads : pc' = [pc EXCEPT ![Main] = "affinity", ![i] = "init"]
      BY <2>2 DEF CreateThread
    <3> QED
      BY <1>1, <2>1, <2>2, <3>1 DEF CreateThread
  <2>3. CASE AffinityFails
    <3>1. \A t \in Threads : pc'[t] = pc[t] /\ init_phase_done' /\ ~init_phase_ok'
      BY <1>1, <2>3 DEF AffinityFails
    <3>2. ~init_phase_done
      BY <2>3, <1>1 DEF AffinityFails, FlagsInv, Announced, Signalled, Met, Simulating, CleaningUp
    <3> QED
      BY <1>1, <2>1, <2>3, <3>1, <3>2 DEF AffinityFails
  <2>4. CASE Announce
    <3>1. pc[Main] = "announce" /\ ~init_phase_done
      BY <1>1, <2>4 DEF Announce, FlagsInv, Announced, Signalled, Met, Simulating, CleaningUp
    <3> QED
      BY <1>1, <2>1, <2>4, <3>1 DEF Announce
  <2>5. CASE CreateFails \/ SetAffinity \/ NotifyFailure \/ JoinStarted
    BY <1>1, <2>1, <2>5 DEF CreateFails, SetAffinity, NotifyFailure, JoinStarted
  <2>6. CASE NotifyInit \/ Distribute \/ SignalDistribution \/ NotifyDistribution
    BY <1>1, <2>1, <2>6 DEF NotifyInit, Distribute, SignalDistribution, NotifyDistribution
  <2>7. CASE ClearLists \/ Start \/ BeginCleanup \/ NotifyCleanup \/ Join \/ Release
    BY <1>1, <2>1, <2>7 DEF ClearLists, Start, BeginCleanup, NotifyCleanup, Join, Release
  <2> QED
    BY <1>3, <2>2, <2>3, <2>4, <2>5, <2>6, <2>7 DEF Client
<1>4. ASSUME NEW t \in Threads, WorkerPhase(t) PROVE WorkersInv'
  <2> USE DEF Transition
  <2>1. UNCHANGED <<crossings, flags>>
    BY <1>4, WorkerStep DEF barrier
  <2>2. CASE AwaitInit(t) \/ AwaitDistribution(t)
    BY <1>1, <2>1, <2>2 DEF AwaitInit, AwaitDistribution, WaitFor
  <2>3. CASE AwaitCleanup(t) \/ AwaitStart(t)
    BY <1>1, <2>1, <2>3 DEF AwaitCleanup, AwaitStart, WaitFor
  <2>4. CASE Collect(t)
    <3>1. pc[Main] \in {"notify_distribution", "distributed"}
      BY <2>4, Separate DEF PhasesAreSeparate, Collect
    <3>2. local_contexts_all[t] \cup committed[t] = Share(t)
      BY <3>1 DEF PhasesInv, ContextsInv
    <3>3. committed' = [committed EXCEPT ![t] = @ \cup local_contexts_all[t]]
      BY <2>4 DEF Collect
    <3>4. committed'[t] = Share(t) /\ \A q \in Threads : q # t => committed'[q] = committed[q]
      BY <1>1, <3>2, <3>3
    <3>5. Transition(t, "collect", "collected")
      BY <2>4 DEF Collect
    <3> QED
      BY <1>1, <2>1, <3>4, <3>5
  <2>5. CASE Simulate(t) \/ CleanUp(t)
    BY <1>1, <2>1, <2>5 DEF Simulate, CleanUp
  <2> QED
    BY <1>4, <2>2, <2>3, <2>4, <2>5 DEF WorkerPhase
<1>5. ASSUME NEW p \in Participants, Meet(p) \/ Spurious(p) PROVE WorkersInv'
  <2>1. UNCHANGED <<flags, contexts>>
    BY <1>1, <1>5, MeetStep
  <2>2. CASE Stays
    BY <1>1, <2>1, <2>2 DEF Stays
  <2>3. CASE GoesOn(p)
    <3>1. /\ pc[p] \in MeetingLabels /\ pc'[p] = AfterMeeting[pc[p]]
          /\ crossings[p] = Meetings(pc[p]) /\ crossings'[p] = crossings[p] + 1
          /\ \A q \in Participants : q # p => pc'[q] = pc[q] /\ crossings'[q] = crossings[q]
      BY <1>1, <2>3 DEF GoesOn, PlacesInv, BarrierTypeOK, MeetingLabels
    <3>2. CASE p = Main
      BY <1>1, <2>1, <3>1, <3>2
    <3>3. CASE p \in Threads
      <4>1. pc[p] \in {"collected", "simulated", "cleaned"}
        BY <1>1, <3>1, <3>3 DEF PlacesInv, MeetingLabels, WorkerLabels
      <4>2. CASE pc[p] = "collected"
        BY <1>1, <2>1, <3>1, <3>3, <4>2 DEF AfterMeeting
      <4>3. CASE pc[p] = "simulated"
        BY <1>1, <2>1, <3>1, <3>3, <4>3 DEF AfterMeeting
      <4>4. CASE pc[p] = "cleaned"
        <5>1. pc'[p] = "exited" /\ crossings'[p] = 3 /\ committed'[p] = Share(p)
          BY <1>1, <2>1, <3>1, <3>3, <4>4 DEF AfterMeeting, Meetings
        <5> QED
          BY <1>1, <2>1, <3>1, <3>3, <5>1
      <4> QED
        BY <4>1, <4>2, <4>3, <4>4
    <3> QED
      BY <3>2, <3>3, Everybody
  <2> QED
    BY <1>1, <1>5, <2>2, <2>3, MeetStep
<1> QED
  BY <1>2, <1>3, <1>4, <1>5, Everybody DEF Next, Worker

LEMMA ContextsStep ==
  ASSUME PhasesInv, [Next]_vars
  PROVE  ContextsInv'
<1> USE DEF ContextsInv, Signalled, Met, Simulating, CleaningUp, contexts
<1>1. /\ ContextsInv /\ PlacesInv /\ FlagsInv /\ WorkersInv /\ BarrierTypeOK
      /\ Main \in Participants /\ Threads \subseteq Participants /\ Main \notin Threads
      /\ pc \in [Participants -> MainLabels \cup WorkerLabels]
      /\ committed \in [Threads -> SUBSET (1..ncontexts)]
      /\ local_contexts_all \in [Threads -> SUBSET (1..ncontexts)]
  BY Everybody DEF PhasesInv, TypeOK
<1>2. CASE UNCHANGED vars \/ Finished
  BY <1>1, <1>2 DEF vars, Finished
<1>3. CASE Client
  <2> USE DEF Transition
  <2>1. CASE CreateThread \/ CreateFails \/ SetAffinity \/ AffinityFails
    BY <1>1, <2>1 DEF CreateThread, CreateFails, SetAffinity, AffinityFails
  <2>2. CASE NotifyFailure \/ JoinStarted \/ Announce \/ NotifyInit
    BY <1>1, <2>2 DEF NotifyFailure, JoinStarted, Announce, NotifyInit
  <2>3. CASE Distribute
    BY <1>1, <2>3 DEF Distribute
  <2>4. CASE SignalDistribution \/ NotifyDistribution \/ ClearLists \/ Start
    BY <1>1, <2>4 DEF SignalDistribution, NotifyDistribution, ClearLists, Start
  <2>5. CASE BeginCleanup \/ NotifyCleanup \/ Join \/ Release
    BY <1>1, <2>5 DEF BeginCleanup, NotifyCleanup, Join, Release
  <2> QED
    BY <1>3, <2>1, <2>2, <2>3, <2>4, <2>5 DEF Client
<1>4. ASSUME NEW t \in Threads, WorkerPhase(t) PROVE ContextsInv'
  <2>1. pc'[Main] = pc[Main]
    BY <1>1, <1>4 DEF WorkerPhase, AwaitInit, AwaitDistribution, Collect,
       AwaitStart, Simulate, AwaitCleanup, CleanUp, WaitFor, Transition
  <2>2. CASE Collect(t)
    <3>1. pc[Main] \in {"notify_distribution", "distributed"}
      BY <2>2, Separate DEF PhasesAreSeparate, Collect, Transition
    <3>2. \A q \in Threads :
            local_contexts_all'[q] \cup committed'[q] = local_contexts_all[q] \cup committed[q]
      BY <1>1, <2>2 DEF Collect
    <3> QED
      BY <1>1, <2>1, <3>1, <3>2
  <2>3. CASE ~Collect(t)
    <3>1. UNCHANGED contexts
      BY <1>4, <2>3 DEF WorkerPhase, AwaitInit, AwaitDistribution,
         AwaitStart, Simulate, AwaitCleanup, CleanUp, WaitFor
    <3> QED
      BY <1>1, <2>1, <3>1
  <2> QED
    BY <2>2, <2>3
<1>5. ASSUME NEW p \in Participants, Meet(p) \/ Spurious(p) PROVE ContextsInv'
  <2>1. UNCHANGED contexts
    BY <1>1, <1>5, MeetStep
  <2>2. CASE pc'[Main] = pc[Main]
    BY <1>1, <2>1, <2>2
  <2>3. CASE pc'[Main] # pc[Main]
    <3>1. p = Main /\ at[Main] # "out" /\ pc'[Main] = AfterMeeting[pc[Main]]
      BY <1>1, <1>5, <2>3, MeetStep DEF Stays, GoesOn
    <3>2. pc[Main] \in MeetingLabels /\ pc[Main] \in MainLabels
      BY <1>1, <3>1 DEF PlacesInv
    <3>3. pc'[Main] \in {"clear", "cleanup", "join"}
      BY <3>1, <3>2, After
    <3> QED
      BY <1>1, <2>1, <3>2, <3>3 DEF MeetingLabels, MainLabels
  <2> QED
    BY <2>2, <2>3
<1> QED
  BY <1>2, <1>3, <1>4, <1>5, Everybody DEF Next, Worker

(* Whoever goes to sleep has seen its flag FALSE; whoever sets it is at    *)
(* the label of the notification until nobody sleeps there.                *)
LEMMA WakeUpStep ==
  ASSUME PhasesInv, [Next]_vars
  PROVE  WakeInv'
<1> USE DEF NoLostWakeup, flags
<1>1. /\ WakeInv /\ PlacesInv /\ FlagsInv /\ StartedInv /\ BarrierTypeOK
      /\ asleep \subseteq Threads
      /\ Main \in Participants /\ Threads \subseteq Participants /\ Main \notin Threads
      /\ pc \in [Participants -> MainLabels \cup WorkerLabels]
  BY Everybody DEF PhasesInv, TypeOK
<1>2. WaitersAreNotified'
  BY <1>1, BarrierSteps, NotifiedStep DEF WakeInv
<1>3. CASE UNCHANGED vars \/ Finished
  BY <1>1, <1>2, <1>3 DEF vars, Finished, WakeInv
<1>4. CASE Client
  <2> USE DEF Transition, WakeInv
  <2>1. CASE CreateThread
    <3>1. PICK i \in Threads :
            /\ i = Cardinality(started)
            /\ pc' = [pc EXCEPT ![Main] = "affinity", ![i] = "init"]
      BY <2>1 DEF CreateThread
    <3>2. i \notin started
      BY <1>1, <3>1, Order, LifecycleAssumption DEF last_started
    <3>3. pc[i] = "none" /\ i \notin asleep
      BY <1>1, <3>2 DEF StartedInv
    <3>4. pc[Main] = "create" /\ UNCHANGED <<asleep, flags>>
      BY <2>1 DEF CreateThread
    <3>5. \A t \in asleep : pc'[t] = pc[t]
      BY <1>1, <3>1, <3>3
    <3> QED
      BY <1>1, <1>2, <3>4, <3>5
  <2>2. CASE CreateFails \/ SetAffinity \/ JoinStarted \/ Distribute
    BY <1>1, <1>2, <2>2 DEF CreateFails, SetAffinity, JoinStarted, Distribute
  <2>3. CASE AffinityFails \/ Announce \/ SignalDistribution \/ BeginCleanup \/ Start
    BY <1>1, <1>2, <2>3 DEF AffinityFails, Announce, SignalDistribution, BeginCleanup, Start
  <2>4. CASE NotifyFailure \/ NotifyInit \/ NotifyDistribution \/ NotifyCleanup
    BY <1>1, <1>2, <2>4
       DEF NotifyFailure, NotifyInit, NotifyDistribution, NotifyCleanup, Notify
  <2>5. CASE ClearLists \/ Join \/ Release
    BY <1>1, <1>2, <2>5 DEF ClearLists, Join, Release
  <2> QED
    BY <1>4, <2>1, <2>2, <2>3, <2>4, <2>5 DEF Client
<1>5. ASSUME NEW t \in Threads, WorkerPhase(t) PROVE WakeInv'
  <2> USE DEF Transition, WakeInv
  <2>1. UNCHANGED flags
    BY <1>5, WorkerStep
  <2>2. CASE AwaitInit(t)
    BY <1>1, <1>2, <2>1, <2>2 DEF AwaitInit, WaitFor
  <2>3. CASE AwaitDistribution(t)
    BY <1>1, <1>2, <2>1, <2>3 DEF AwaitDistribution, WaitFor
  <2>4. CASE AwaitCleanup(t)
    BY <1>1, <1>2, <2>1, <2>4 DEF AwaitCleanup, WaitFor
  <2>5. CASE Collect(t) \/ AwaitStart(t) \/ Simulate(t) \/ CleanUp(t)
    BY <1>1, <1>2, <2>1, <2>5 DEF Collect, AwaitStart, Simulate, CleanUp
  <2> QED
    BY <1>5, <2>2, <2>3, <2>4, <2>5 DEF WorkerPhase
<1>6. ASSUME NEW p \in Participants, Meet(p) \/ Spurious(p) PROVE WakeInv'
  <2>1. UNCHANGED flags /\ asleep' \subseteq asleep
    BY <1>1, <1>6, MeetStep
  <2>2. CASE Stays
    BY <1>1, <1>2, <2>1, <2>2 DEF Stays, WakeInv
  <2>3. CASE GoesOn(p)
    <3>1. /\ pc[p] \in MeetingLabels /\ p \notin asleep
          /\ \A q \in Participants : q # p => pc'[q] = pc[q]
      BY <1>1, <2>3 DEF GoesOn, PlacesInv, WakeInv, MeetingLabels
    <3>2. CASE p = Main
      <4>1. pc[Main] \notin {"notify_failure", "notify_init", "notify_distribution", "notify_cleanup"}
        BY <3>1, <3>2 DEF MeetingLabels
      <4> QED
        BY <1>1, <1>2, <2>1, <3>1, <3>2, <4>1 DEF WakeInv
    <3>3. CASE p # Main
      BY <1>1, <1>2, <2>1, <3>1, <3>3 DEF WakeInv
    <3> QED
      BY <3>2, <3>3
  <2> QED
    BY <1>1, <1>6, <2>2, <2>3, MeetStep
<1> QED
  BY <1>3, <1>4, <1>5, <1>6, Everybody DEF Next, Worker

-----------------------------------------------------------------------------
(* Nobody waits in vain.                                                   *)

(* A worker that has to be woken or told is at one of few labels.          *)
LEMMA BlockedWorker ==
  ASSUME PhasesInv, NEW t \in Threads, Blocked(t), at[t] = "out"
  PROVE  \/ pc[t] \in {"none", "exited"}
         \/ pc[t] = "spin" /\ ~start_simulation
         \/ t \in asleep /\ pc[t] \in {"init", "distribution", "clean"}
<1>1. pc[t] \in WorkerLabels
  BY DEF PhasesInv, PlacesInv
<1> QED
  BY <1>1 DEF Blocked, WorkerLabels, PhasesInv, WakeInv

(* The threads that init() has told to stop do so.                         *)
LEMMA ToldToStop ==
  ASSUME PhasesInv, pc[Main] \in {"join_started", "failed"}, init_phase_done,
         NEW t \in started, pc[t] # "exited", Blocked(t)
  PROVE  FALSE
<1>1. t \in Threads /\ t \in Participants /\ Main \in Participants
  BY Everybody DEF PhasesInv, TypeOK
<1>2. ~contexts_distributed_done /\ ~init_phase_ok
  BY DEF PhasesInv, FlagsInv, Announced, Signalled, Met, Simulating, CleaningUp
<1>3. pc[t] # "none"
  BY <1>1 DEF PhasesInv, StartedInv
<1>4. pc[t] = "init"
  BY <1>1, <1>2, <1>3
     DEF PhasesInv, WorkersInv, PlacesInv, WorkerLabels, HasCollected, SimulationPhase, LastPhase
<1>5. at[t] = "out"
  BY <1>1, <1>4 DEF PhasesInv, PlacesInv, MeetingLabels
<1>6. t \in asleep
  BY <1>1, <1>4, <1>5, BlockedWorker
<1> QED
  BY <1>4, <1>6 DEF PhasesInv, WakeInv, NoLostWakeup

(* The one that has not come to a meeting the client waits for is not      *)
(* blocked.                                                                *)
LEMMA LateComer ==
  ASSUME PhasesInv, at[Main] = "waiting", current_generation[Main] = generation,
         NEW t \in Threads, at[t] = "out", Blocked(t)
  PROVE  FALSE
<1>1. t \in Participants /\ Main \in Participants /\ PlacesInv /\ FlagsInv
  BY Everybody DEF PhasesInv
<1>2. pc[Main] \in {"distributed", "await", "cleaning"}
  BY <1>1 DEF PlacesInv, MeetingLabels, MainLabels
<1>3. crossings[t] = crossings[Main]
  <2>1. PICK K \in Nat : Level(K)
    BY DEF PhasesInv, BarrierInv
  <2> QED
    BY <1>1, <2>1 DEF Level
<1>4. crossings[Main] = Meetings(pc[Main]) /\ Meetings(pc[Main]) \in {0, 1, 2}
  BY <1>1, <1>2 DEF PlacesInv, Meetings
<1>5. init_phase_done /\ init_phase_ok /\ started = Threads
  BY <1>1, <1>2 DEF FlagsInv, PhasesInv, StartedInv, Announced, Signalled, Met, Simulating, CleaningUp
<1>6. pc[t] # "none"
  BY <1>5 DEF PhasesInv, StartedInv
<1>7. pc[t] # "exited"
  <2>1. pc[t] = "exited" => crossings[t] = 3
    BY <1>5 DEF PhasesInv, WorkersInv, Complete
  <2> QED
    BY <1>3, <1>4, <2>1
<1>8. Meetings(pc[t]) = Meetings(pc[Main])
  BY <1>1, <1>3, <1>4, <1>7 DEF PlacesInv
<1>9. CASE pc[t] = "spin"
  <2>1. pc[Main] = "await"
    BY <1>2, <1>8, <1>9 DEF Meetings
  <2>2. start_simulation
    BY <1>1, <2>1 DEF FlagsInv, Simulating
  <2> QED
    BY <1>9, <2>2, BlockedWorker
<1>10. CASE t \in asleep /\ pc[t] \in {"init", "distribution"}
  <2>1. pc[Main] = "distributed"
    BY <1>2, <1>8, <1>10 DEF Meetings
  <2>2. contexts_distributed_done
    BY <1>1, <2>1 DEF FlagsInv, Signalled
  <2> QED
    BY <1>5, <1>10, <2>1, <2>2 DEF PhasesInv, WakeInv, NoLostWakeup
<1>11. CASE t \in asleep /\ pc[t] = "clean"
  <2>1. pc[Main] = "cleaning"
    BY <1>2, <1>8, <1>11 DEF Meetings
  <2>2. cleanup_phase_begin
    BY <1>1, <2>1 DEF FlagsInv, CleaningUp
  <2> QED
    BY <1>11, <2>1, <2>2 DEF PhasesInv, WakeInv, NoLostWakeup
<1> QED
  BY <1>6, <1>7, <1>9, <1>10, <1>11, BlockedWorker

LEMMA Progress == PhasesInv => SomebodyMoves
<1> SUFFICES ASSUME PhasesInv, \A p \in Participants : Blocked(p)
             PROVE  \/ pc[Main] = "done"
                    \/ /\ pc[Main] = "failed"
                       /\ init_phase_done => \A t \in started : pc[t] = "exited"
  BY DEF SomebodyMoves
<1>1. /\ Main \in Participants /\ Main \notin Threads /\ Threads \subseteq Participants
      /\ started \subseteq Threads /\ asleep \subseteq Threads
      /\ BarrierTypeOK /\ PlacesInv
  BY Everybody DEF PhasesInv, TypeOK
<1>2. \A p \in Participants : at[p] \in {"out", "waiting"}
  <2> SUFFICES ASSUME NEW p \in Participants, at[p] \in {"woken", "notify"} PROVE FALSE
    BY <1>1 DEF BarrierTypeOK
  <2>1. pc[p] \in MeetingLabels
    BY <1>1 DEF PlacesInv
  <2>2. p \notin asleep
    BY <2>1 DEF PhasesInv, WakeInv, MeetingLabels
  <2> QED
    BY <2>1, <2>2 DEF Blocked, MeetingLabels
<1>3. /\ \A p \in Participants : at[p] = "waiting" => current_generation[p] = generation
      /\ \E p \in Participants : at[p] = "out"
  BY <1>2, SomebodyIsMissing DEF PhasesInv, WakeInv, NoLostWakeup
<1>4. at[Main] # "waiting"
  <2> SUFFICES ASSUME at[Main] = "waiting" PROVE FALSE
    OBVIOUS
  <2>1. PICK t \in Participants : at[t] = "out"
    BY <1>3
  <2>2. t \in Threads
    BY <2>1, Everybody
  <2> QED
    BY <1>1, <1>3, <2>1, <2>2, LateComer
<1>5. pc[Main] \in {"join_started", "join", "failed", "done"}
  BY <1>1, <1>4 DEF Blocked, PlacesInv, MainLabels
<1>6. pc[Main] # "join"
  <2> SUFFICES ASSUME pc[Main] = "join" PROVE FALSE
    OBVIOUS
  <2>1. PICK t \in started : pc[t] # "exited"
    BY <1>1, <1>4 DEF Blocked
  <2>2. crossings[Main] = 3 /\ at[Main] = "out"
    BY <1>1 DEF PlacesInv, Meetings, MeetingLabels
  <2>3. crossings[t] = Meetings(pc[t]) /\ Meetings(pc[t]) \in 0..2
    <3>1. pc[t] \in WorkerLabels /\ crossings[t] = Meetings(pc[t])
      BY <1>1, <2>1 DEF PlacesInv
    <3> QED
      BY <3>1 DEF WorkerLabels, Meetings
  <2>4. at[t] # "out" /\ crossings[t] # crossings[Main]
    BY <1>1, <2>2, <2>3, Neighbours
  <2>5. PICK K \in Nat : Level(K)
    BY DEF PhasesInv, BarrierInv
  <2>6. current_generation[t] # generation
    BY <1>1, <2>2, <2>4, <2>5 DEF Level
  <2> QED
    BY <1>1, <1>2, <1>3, <2>4, <2>6
<1>7. pc[Main] # "join_started"
  <2> SUFFICES ASSUME pc[Main] = "join_started" PROVE FALSE
    OBVIOUS
  <2>1. PICK t \in 0..(last_started - 1) : pc[t] # "exited"
    BY <1>1, <1>4 DEF Blocked
  <2>2. t \in started
    BY Order, LifecycleAssumption DEF PhasesInv, last_started
  <2>3. init_phase_done
    BY DEF PhasesInv, FlagsInv
  <2> QED
    BY <1>1, <2>1, <2>2, <2>3, ToldToStop
<1>8. ASSUME pc[Main] = "failed", init_phase_done, NEW t \in started PROVE pc[t] = "exited"
  BY <1>1, <1>8, ToldToStop
<1> QED
  BY <1>5, <1>6, <1>7, <1>8

-----------------------------------------------------------------------------
(* The theorems.                                                           *)

LEMMA InitInv == Init => PhasesInv
<1> SUFFICES ASSUME Init PROVE PhasesInv
  OBVIOUS
<1>1. /\ pc[Main] = "create"
      /\ \A t \in Threads : pc[t] = "none"
      /\ \A p \in Participants : pc[p] \in {"create", "none"}
  BY Everybody DEF Init
<1>2. BarrierInv
  BY BarrierInitInv DEF Init
<1>3. TypeOK
  BY <1>2, Everybody DEF Init, TypeOK, BarrierInv, MainLabels, WorkerLabels, flags
<1>4. PlacesInv
  BY <1>1 DEF Init, BarrierInit, PlacesInv, Meetings, MainLabels, WorkerLabels
<1>5. FlagsInv
  BY <1>1 DEF Init, FlagsInv, Announced, Signalled, Met, Simulating, CleaningUp
<1>6. StartedInv
  <2>1. started = 0..(0 - 1) /\ 0 \in 0..num_threads
    BY LifecycleAssumption DEF Init
  <2> QED
    BY <1>1, <2>1 DEF StartedInv, Announced, Signalled, Met, Simulating, CleaningUp
<1>7. WorkersInv
  BY <1>1 DEF WorkersInv, HasCollected, SimulationPhase, LastPhase
<1>8. ContextsInv
  BY <1>1 DEF Init, ContextsInv
<1>9. WakeInv
  BY DEF Init, BarrierInit, WakeInv, NoLostWakeup, WaitersAreNotified
<1> QED
  BY <1>2, <1>3, <1>4, <1>5, <1>6, <1>7, <1>8, <1>9 DEF PhasesInv

LEMMA StepInv == PhasesInv /\ [Next]_vars => PhasesInv'
<1> SUFFICES ASSUME PhasesInv, [Next]_vars PROVE PhasesInv'
  OBVIOUS
<1>1. BarrierInv'
  BY BarrierSteps, BarrierStepInv DEF PhasesInv
<1> QED
  BY <1>1, TypeStep, PlacesStep, FlagsStep, StartedStep, WorkersStep, ContextsStep,
     WakeUpStep DEF PhasesInv

(* Every step of the client and of the workers keeps label, flags, meetings*)
(* and lists in accord.                                                    *)
THEOREM PhasesInvariant == Spec => []PhasesInv
BY InitInv, StepInv, PTL DEF Spec

(* The variables of the engine's life cycle keep their types; in           *)
(* particular a share never reaches past the contexts there are.           *)
THEOREM LifecycleTypes == Spec => []TypeOK
BY PhasesInvariant, PTL DEF PhasesInv

(* The unlocked accesses of the client and of the workers do not meet,     *)
(* however many threads there are and however they are woken.              *)
THEOREM SeparatePhases == Spec => []PhasesAreSeparate
BY PhasesInvariant, Separate, PTL

(* When distribute_contexts() clears the lists every context has been      *)
(* collected by one thread, for any number of threads and contexts.        *)
THEOREM AllCollected == Spec => []ContextsCollected
BY PhasesInvariant, Collected, PTL

(* No wakeup is lost: whoever sleeps although its flag is set or its       *)
(* generation over is about to be notified.                                *)
THEOREM WakeupsArrive == Spec => []NoLostWakeup
BY PhasesInvariant, PTL DEF PhasesInv, WakeInv

(* The client and the workers never all wait for each other, however many  *)
(* threads there are, and a failed init() that has told the threads to     *)
(* stop leaves none of them waiting.                                       *)
THEOREM EngineMoves == Spec => []SomebodyMoves
BY PhasesInvariant, Progress, PTL
=============================================================================

