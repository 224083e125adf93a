---------------------------- MODULE SimpleBarrier ----------------------------
(***************************************************************************)
(* concurrent::simple_barrier: await() counts the arrivals under a lock;   *)
(* the last one opens the next generation and then, without the lock,      *)
(* notifies the others, which wait on a condition variable until the       *)
(* generation is no longer the one they came in.  The barrier is reused:   *)
(* a thread may be back before the others have woken up.                   *)
(*                                                                         *)
(* cond.wait(lock) in the source passes the mutex where the condition      *)
(* variable takes the unique_lock lk; lk is what is modelled.              *)
(***************************************************************************)
EXTENDS Integers, FiniteSets

CONSTANTS
  Participants,  \* the threads that meet, expected of them
  Generations    \* size_type has the values 0..Generations-1

ASSUME BarrierAssumption ==
  /\ IsFiniteSet(Participants)
  /\ Participants # {}              \* simple_barrier.hpp:17
  /\ Generations \in Nat /\ Generations >= 2

VARIABLES
  arrived,             \* how many have come to the current generation
  generation,
  current_generation,  \* the local variable of each call of await()
  at,                  \* where in await() each participant is
  crossings            \* history: how many calls of await() have returned

barrier == <<arrived, generation, current_generation, at, crossings>>

(* Mutant: the thread that calls init() is not counted (engine.hpp:70).    *)
OneTooFew == Cardinality(Participants) - 1

expected == Cardinality(Participants)

BarrierInit ==
  /\ arrived = 0
  /\ generation = 0
  /\ current_generation = [p \in Participants |-> 0]
  /\ at = [p \in Participants |-> "out"]
  /\ crossings = [p \in Participants |-> 0]

(* Mutant: the last one does not set arrived back (simple_barrier.hpp:39). *)
OpenWithoutReset(p) ==
  /\ arrived + 1 = expected
  /\ arrived' = arrived + 1
  /\ generation' = (generation + 1) % Generations
  /\ at' = [at EXCEPT ![p] = "notify"]

(* The last one: initialize for the next round and unlock.                 *)
Open(p) ==
  /\ arrived + 1 = expected
  /\ arrived' = 0
  /\ generation' = (generation + 1) % Generations
  /\ at' = [at EXCEPT ![p] = "notify"]

(* The others: cond.wait() gives the lock back.                            *)
Wait(p) ==
  /\ arrived + 1 # expected
  /\ arrived' = arrived + 1
  /\ at' = [at EXCEPT ![p] = "waiting"]
  /\ UNCHANGED generation

Arrive(p) ==
  /\ at[p] = "out"
  /\ current_generation' = [current_generation EXCEPT ![p] = generation]
  /\ Open(p) \/ Wait(p)
  /\ UNCHANGED crossings

(* cond.notify_all(), with which await() of the last one ends.             *)
NotifyAll(p) ==
  /\ at[p] = "notify"
  /\ at' = [q \in Participants |->
              IF q = p THEN "out" ELSE IF at[q] = "waiting" THEN "woken" ELSE at[q]]
  /\ crossings' = [crossings EXCEPT ![p] = @ + 1]
  /\ UNCHANGED <<arrived, generation, current_generation>>

(* A condition variable may also wake a thread for no reason.              *)
WakeSpuriously(p) ==
  /\ at[p] = "waiting"
  /\ at' = [at EXCEPT ![p] = "woken"]
  /\ UNCHANGED <<arrived, generation, current_generation, crossings>>

(* Mutant: if instead of while (simple_barrier.hpp:46).                    *)
ReturnWhenWoken(p) ==
  /\ at[p] = "woken"
  /\ at' = [at EXCEPT ![p] = "out"]
  /\ crossings' = [crossings EXCEPT ![p] = @ + 1]
  /\ UNCHANGED <<arrived, generation, current_generation>>

(* The loop tests its condition again: await() ends ...                    *)
Return(p) ==
  /\ at[p] = "woken"
  /\ current_generation[p] # generation
  /\ at' = [at EXCEPT ![p] = "out"]
  /\ crossings' = [crossings EXCEPT ![p] = @ + 1]
  /\ UNCHANGED <<arrived, generation, current_generation>>

(* ... or it waits on.                                                     *)
WaitAgain(p) ==
  /\ at[p] = "woken"
  /\ current_generation[p] = generation
  /\ at' = [at EXCEPT ![p] = "waiting"]
  /\ UNCHANGED <<arrived, generation, current_generation, crossings>>

AwaitStep(p) ==
  Arrive(p) \/ NotifyAll(p) \/ WakeSpuriously(p) \/ Return(p) \/ WaitAgain(p)

BarrierNext == \E p \in Participants : AwaitStep(p)

BarrierSpec == BarrierInit /\ [][BarrierNext]_barrier

-----------------------------------------------------------------------------
BarrierTypeOK ==
  /\ arrived \in Nat
  /\ generation \in 0..(Generations - 1)
  /\ current_generation \in [Participants -> 0..(Generations - 1)]
  /\ at \in [Participants -> {"out", "waiting", "woken", "notify"}]
  /\ crossings \in [Participants -> Nat]

(* A generation that is over has no waiter left that is not to be notified.*)
WaitersAreNotified ==
  \A p \in Participants : at[p] = "waiting" /\ current_generation[p] # generation =>
    \E q \in Participants : at[q] = "notify"

(* Whoever is in await() is in a meeting of the abstract barrier.          *)
PB == INSTANCE PhaseBarrier WITH inside <- {p \in Participants : at[p] # "out"}
=============================================================================
