------------------------ MODULE SimpleBarrier_proofs ------------------------
(***************************************************************************)
(* SimpleBarrier implements PhaseBarrier, for any number of participants   *)
(* and any width of the generation counter.                                *)
(***************************************************************************)
EXTENDS SimpleBarrier, FiniteSetTheorems, TLAPS

-----------------------------------------------------------------------------
(* The inductive invariant.                                                *)

(* Those arrived counts: they wait for the generation to end.              *)
Pending ==
  {p \in Participants : at[p] \in {"waiting", "woken"} /\ current_generation[p] = generation}

(* Whoever is outside, or waits for the current generation, has left K     *)
(* meetings; whoever is still on its way out of the last one, one less.    *)
Level(K) ==
  \A p \in Participants :
    crossings[p] = IF at[p] = "out" \/ current_generation[p] = generation THEN K ELSE K - 1

BarrierInv ==
  /\ BarrierTypeOK
  /\ arrived = Cardinality(Pending)
  /\ arrived + 1 <= expected
  /\ \A p \in Participants : at[p] = "notify" => current_generation[p] # generation
  /\ \E K \in Nat : Level(K)

(* The generation after the last one is another one, wrapping included.    *)
LEMMA NextGeneration ==
  ASSUME NEW g \in 0..(Generations - 1)
  PROVE  /\ (g + 1) % Generations \in 0..(Generations - 1)
         /\ (g + 1) % Generations # g
<1>1. CASE g + 1 = Generations
  BY <1>1, BarrierAssumption
<1>2. CASE g + 1 < Generations
  <2>1. (g + 1) % Generations = g + 1
    BY <1>2, BarrierAssumption
  <2> QED
    BY <2>1, <1>2, BarrierAssumption
<1> QED
  BY <1>1, <1>2, BarrierAssumption

(* A set with all participants but one, and the one, are all of them.      *)
LEMMA OnlyOneMissing ==
  ASSUME NEW S \in SUBSET Participants, NEW p \in Participants, p \notin S,
         Cardinality(S) + 1 = Cardinality(Participants)
  PROVE  S \cup {p} = Participants
<1>1. /\ IsFiniteSet(S \cup {p})
      /\ Cardinality(S \cup {p}) = Cardinality(Participants)
  BY FS_Subset, FS_AddElement, BarrierAssumption
<1> QED
  BY <1>1, FS_Subset, BarrierAssumption

LEMMA BarrierInitInv == BarrierInit => BarrierInv
<1> SUFFICES ASSUME BarrierInit PROVE BarrierInv
  OBVIOUS
<1>1. BarrierTypeOK
  BY BarrierAssumption DEF BarrierInit, BarrierTypeOK
<1>2. Pending = {}
  BY DEF BarrierInit, Pending
<1>3. Cardinality(Pending) = 0
  BY <1>2, FS_EmptySet
<1>4. 1 <= expected
  BY FS_EmptySet, FS_CardinalityType, BarrierAssumption DEF expected
<1>5. Level(0)
  BY DEF BarrierInit, Level
<1> QED
  BY <1>1, <1>3, <1>4, <1>5 DEF BarrierInit, BarrierInv

-----------------------------------------------------------------------------
(* One step of await() keeps the invariant.                                *)

(* The last one to come: everybody is pending, at the same level, and the  *)
(* whole meeting falls behind the new generation.                          *)
LEMMA OpenStep ==
  ASSUME BarrierInv, NEW p \in Participants, Arrive(p), Open(p)
  PROVE  BarrierInv'
<1> USE DEF BarrierTypeOK
<1>1. PICK K \in Nat : Level(K)
  BY DEF BarrierInv
<1>2. p \notin Pending /\ Cardinality(Pending) + 1 = Cardinality(Participants)
  BY DEF BarrierInv, Arrive, Open, Pending, expected
<1>3. Pending \cup {p} = Participants
  BY <1>2, OnlyOneMissing DEF Pending
<1>4. /\ generation' \in 0..(Generations - 1)
      /\ generation' # generation
  BY NextGeneration DEF BarrierInv, Open
<1>5. BarrierTypeOK'
  BY <1>4 DEF BarrierInv, Arrive, Open
<1>6. \A q \in Participants : at'[q] # "out" /\ current_generation'[q] = generation
  BY <1>3 DEF BarrierInv, Arrive, Open, Pending
<1>7. Pending' = {}
  BY <1>4, <1>6 DEF Pending
<1>8. arrived' = Cardinality(Pending') /\ arrived' + 1 <= expected
  BY <1>2, <1>7, FS_EmptySet DEF BarrierInv, Open, expected
<1>9. Level(K + 1)'
  <2>1. \A q \in Participants : crossings[q] = K
    BY <1>1, <1>3 DEF Level, Arrive, Pending
  <2> QED
    BY <2>1, <1>4, <1>6 DEF Level, Arrive
<1>10. \A q \in Participants : at'[q] = "notify" => current_generation'[q] # generation'
  BY <1>4, <1>6
<1> QED
  BY <1>5, <1>8, <1>9, <1>10 DEF BarrierInv, expected

(* The others: one more is pending, and not yet everybody.                 *)
LEMMA WaitStep ==
  ASSUME BarrierInv, NEW p \in Participants, Arrive(p), Wait(p)
  PROVE  BarrierInv'
<1> USE DEF BarrierTypeOK
<1>1. PICK K \in Nat : Level(K)
  BY DEF BarrierInv
<1>2. BarrierTypeOK'
  BY DEF BarrierInv, Arrive, Wait
<1>3. Pending' = Pending \cup {p} /\ p \notin Pending
  BY DEF BarrierInv, Arrive, Wait, Pending
<1>4. IsFiniteSet(Pending)
  BY FS_Subset, BarrierAssumption DEF Pending
<1>5. arrived' = Cardinality(Pending')
  BY <1>3, <1>4, FS_AddElement, FS_CardinalityType DEF BarrierInv, Wait
<1>6. arrived' + 1 <= expected
  BY FS_CardinalityType, BarrierAssumption DEF BarrierInv, Wait, expected
<1>7. Level(K)'
  BY <1>1 DEF BarrierInv, Level, Arrive, Wait
<1>8. \A q \in Participants : at'[q] = "notify" => current_generation'[q] # generation'
  BY DEF BarrierInv, Arrive, Wait
<1> QED
  BY <1>2, <1>5, <1>6, <1>7, <1>8 DEF BarrierInv, expected

(* A step that only changes where threads are in await(), or takes one     *)
(* whose generation is over out of it.                                     *)
LEMMA LeaveStep ==
  ASSUME BarrierInv, NEW p \in Participants, NotifyAll(p) \/ Return(p)
  PROVE  BarrierInv'
<1> USE DEF BarrierTypeOK, Pending
<1>1. PICK K \in Nat : Level(K)
  BY DEF BarrierInv
<1>2. BarrierTypeOK'
  BY DEF BarrierInv, NotifyAll, Return
<1>3. current_generation[p] # generation /\ at[p] # "out" /\ at'[p] = "out"
  BY DEF BarrierInv, NotifyAll, Return
<1>4. UNCHANGED <<arrived, generation, current_generation>>
  BY DEF NotifyAll, Return
<1>5. \A q \in Participants \ {p} :
        /\ crossings'[q] = crossings[q]
        /\ at'[q] = at[q] \/ (at[q] = "waiting" /\ at'[q] = "woken")
  BY DEF BarrierInv, NotifyAll, Return
<1>6. crossings'[p] = crossings[p] + 1
  BY DEF BarrierInv, NotifyAll, Return
<1>7. Pending' = Pending
  BY <1>3, <1>4, <1>5
<1>8. Level(K)'
  BY <1>1, <1>3, <1>4, <1>5, <1>6 DEF Level
<1>9. \A q \in Participants : at'[q] = "notify" => current_generation'[q] # generation'
  BY <1>3, <1>4, <1>5 DEF BarrierInv
<1> QED
  BY <1>2, <1>4, <1>7, <1>8, <1>9 DEF BarrierInv, expected

LEMMA WakeStep ==
  ASSUME BarrierInv, NEW p \in Participants, WakeSpuriously(p) \/ WaitAgain(p)
  PROVE  BarrierInv'
<1> USE DEF BarrierTypeOK, Pending
<1>1. PICK K \in Nat : Level(K)
  BY DEF BarrierInv
<1>2. BarrierTypeOK'
  BY DEF BarrierInv, WakeSpuriously, WaitAgain
<1>3. UNCHANGED <<arrived, generation, current_generation, crossings>>
  BY DEF WakeSpuriously, WaitAgain
<1>4. \A q \in Participants :
        at'[q] = at[q] \/ {at[q], at'[q]} = {"waiting", "woken"}
  BY DEF BarrierInv, WakeSpuriously, WaitAgain
<1>5. Pending' = Pending
  BY <1>3, <1>4
<1>6. Level(K)'
  BY <1>1, <1>3, <1>4 DEF Level
<1>7. \A q \in Participants : at'[q] = "notify" => current_generation'[q] # generation'
  BY <1>3, <1>4 DEF BarrierInv
<1> QED
  BY <1>2, <1>3, <1>5, <1>6, <1>7 DEF BarrierInv, expected

LEMMA BarrierStepInv ==
  ASSUME BarrierInv, [BarrierNext]_barrier
  PROVE  BarrierInv'
<1>1. CASE UNCHANGED barrier
  BY <1>1 DEF barrier, BarrierInv, BarrierTypeOK, Pending, Level, expected
<1>2. ASSUME NEW p \in Participants, AwaitStep(p) PROVE BarrierInv'
  <2>1. CASE Arrive(p)
    BY <2>1, OpenStep, WaitStep DEF Arrive
  <2> QED
    BY <1>2, <2>1, LeaveStep, WakeStep DEF AwaitStep
<1> QED
  BY <1>1, <1>2 DEF BarrierNext

-----------------------------------------------------------------------------
(* Nobody is left asleep.                                                  *)

LEMMA NotifiedStep ==
  ASSUME BarrierTypeOK, WaitersAreNotified, [BarrierNext]_barrier
  PROVE  WaitersAreNotified'
<1> USE DEF BarrierTypeOK, WaitersAreNotified
<1>1. CASE UNCHANGED barrier
  BY <1>1 DEF barrier
<1>2. ASSUME NEW p \in Participants, AwaitStep(p) PROVE WaitersAreNotified'
  <2>1. CASE Arrive(p) /\ Open(p)
    <3>1. at'[p] = "notify"
      BY <2>1 DEF Arrive, Open
    <3> QED
      BY <3>1
  <2>2. CASE Arrive(p) /\ Wait(p)
    BY <2>2 DEF Arrive, Wait
  <2>3. CASE NotifyAll(p)
    <3>1. \A q \in Participants : at'[q] # "waiting"
      BY <2>3 DEF NotifyAll
    <3> QED
      BY <3>1
  <2>4. CASE WakeSpuriously(p) \/ Return(p)
    BY <2>4 DEF WakeSpuriously, Return
  <2>5. CASE WaitAgain(p)
    BY <2>5 DEF WaitAgain
  <2> QED
    BY <1>2, <2>1, <2>2, <2>3, <2>4, <2>5 DEF AwaitStep, Arrive
<1> QED
  BY <1>1, <1>2 DEF BarrierNext

(* When somebody waits at the barrier, the one it waits for has not come.  *)
LEMMA SomebodyIsMissing ==
  ASSUME BarrierInv, WaitersAreNotified,
         \A p \in Participants : at[p] \in {"out", "waiting"}
  PROVE  /\ \A p \in Participants : at[p] = "waiting" => current_generation[p] = generation
         /\ \E p \in Participants : at[p] = "out"
<1>1. \A p \in Participants : at[p] = "waiting" => current_generation[p] = generation
  BY DEF WaitersAreNotified
<1>2. ASSUME \A p \in Participants : at[p] # "out" PROVE FALSE
  <2>1. Pending = Participants
    BY <1>1, <1>2 DEF Pending
  <2>2. expected \in Nat
    BY BarrierAssumption, FS_CardinalityType DEF expected
  <2> QED
    BY <2>1, <2>2 DEF BarrierInv, expected
<1> QED
  BY <1>1, <1>2

-----------------------------------------------------------------------------
(* Refinement: coming is Come, returning is Leave, the rest a stutter.     *)

LEMMA BarrierInitRefines == BarrierInit => PB!Init
BY DEF BarrierInit, PB!Init

LEMMA BarrierStepRefines ==
  ASSUME BarrierInv, [BarrierNext]_barrier
  PROVE  [PB!Next]_(PB!vars)
<1> USE DEF BarrierTypeOK
<1> DEFINE inside == {q \in Participants : at[q] # "out"}
<1>1. CASE UNCHANGED barrier
  BY <1>1 DEF barrier, PB!vars
<1>2. ASSUME NEW p \in Participants, AwaitStep(p) PROVE [PB!Next]_(PB!vars)
  <2>1. CASE Arrive(p)
    <3>1. p \notin inside /\ inside' = inside \cup {p} /\ UNCHANGED crossings
      BY <2>1 DEF BarrierInv, Arrive, Open, Wait
    <3> QED
      BY <3>1 DEF PB!Next, PB!Come
  <2>2. CASE NotifyAll(p) \/ Return(p)
    <3>1. PICK K \in Nat : Level(K)
      BY DEF BarrierInv
    <3>2. current_generation[p] # generation /\ p \in inside /\ inside' = inside \ {p}
      BY <2>2 DEF BarrierInv, NotifyAll, Return
    <3>3. \A q \in Participants :
            crossings[q] > crossings[p] \/ (crossings[q] = crossings[p] /\ q \in inside)
      BY <3>1, <3>2 DEF Level
    <3>4. crossings' = [crossings EXCEPT ![p] = @ + 1]
      BY <2>2 DEF NotifyAll, Return
    <3> QED
      BY <3>2, <3>3, <3>4 DEF PB!Next, PB!Leave
  <2>3. CASE WakeSpuriously(p) \/ WaitAgain(p)
    <3>1. inside' = inside /\ UNCHANGED crossings
      BY <2>3 DEF BarrierInv, WakeSpuriously, WaitAgain
    <3> QED
      BY <3>1 DEF PB!vars
  <2> QED
    BY <1>2, <2>1, <2>2, <2>3 DEF AwaitStep
<1> QED
  BY <1>1, <1>2 DEF BarrierNext

(* Every step of await() keeps the count of those who have come and how    *)
(* far everybody is.                                                       *)
THEOREM BarrierInvariant == BarrierSpec => []BarrierInv
BY BarrierInitInv, BarrierStepInv, PTL DEF BarrierSpec

(* Whatever the participants, the generation counter may wrap and waiters  *)
(* may wake up late or for no reason: simple_barrier keeps the promise of  *)
(* the abstract barrier.                                                   *)
THEOREM BarrierImplements == BarrierSpec => PB!Spec
BY BarrierInvariant, BarrierInitRefines, BarrierStepRefines, PTL
   DEF BarrierSpec, PB!Spec
=============================================================================
