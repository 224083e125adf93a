------------------------- MODULE WorkStealing_proofs -------------------------
(***************************************************************************)
(* Proofs about WorkStealing for any number of threads, contexts and       *)
(* rounds: the inductive invariant IInv and what follows from it.          *)
(***************************************************************************)
EXTENDS WorkStealing, FiniteSetTheorems, TLAPS

(* Everywhere, the barrier's operations stand for what they do to count.   *)
USE DEF set_active, set_inactive, terminate, reset

-----------------------------------------------------------------------------
(* Types.                                                                  *)

(* Between choosing a victim and giving up or taking its answer.           *)
AskingLabels == {"reset", "declare", "request", "wait", "probe", "cancel"}

AnsweringLabels == {"transfer", "respond", "reenable", "refuse", "seal"}

(* A thief asks another thread, a victim answers a thread.                 *)
PeerOK ==
  /\ \A t \in Threads : pc[t] \in AskingLabels => peer[t] \in Threads \ {t}
  /\ \A t \in Threads : pc[t] \in AnsweringLabels => peer[t] \in Threads

TypeInv == TypeOK /\ PeerOK

LEMMA TypeInit == Init => TypeInv
BY FS_CardinalityType, ThreadsAssumption, ModelAssumption
   DEF Init, TypeInv, TypeOK, PeerOK, Labels, AskingLabels, AnsweringLabels, N

(* Every step keeps the types.                                             *)
LEMMA TypeStep == TypeInv /\ [Next]_vars => TypeInv'
<1> SUFFICES ASSUME TypeInv, [Next]_vars PROVE TypeInv'
  OBVIOUS
<1> USE DEF TypeInv, TypeOK, PeerOK, Labels, AskingLabels, AnsweringLabels,
            lists, Transition
<1>1. CASE UNCHANGED vars
  BY <1>1 DEF vars
<1>2. CASE RoundOver
  BY <1>2, FS_CardinalityType, ThreadsAssumption, ModelAssumption DEF RoundOver, N
<1>3. CASE Finished
  BY <1>3 DEF Finished, vars
<1>4. ASSUME NEW t \in Threads, Owner(t) PROVE TypeInv'
  <2>1. CASE StartRound(t)
    BY <2>1 DEF StartRound
  <2>2. CASE SetActive(t)
    BY <2>2 DEF SetActive
  <2>3. CASE NextContext(t)
    <3>1. PICK c \in local[t] :
            /\ local' = [local EXCEPT ![t] = @ \ {c}]
            /\ committed' = [committed EXCEPT ![t] = @ \cup {c}]
      BY <2>3 DEF NextContext
    <3>2. /\ local' \in [Threads -> SUBSET Contexts]
          /\ committed' \in [Threads -> SUBSET Contexts]
      BY <3>1
    <3>3. CASE steal_request[t] = NoStealRequest
      BY <2>3, <3>2, <3>3 DEF NextContext
    <3>4. CASE steal_request[t] # NoStealRequest
      <4>1. /\ Transition(t, "next", "transfer")
            /\ peer' = [peer EXCEPT ![t] = steal_request[t]]
            /\ UNCHANGED <<steal_free_list, deceased, steal_request,
                           steal_response, count, exceptions, round>>
        BY <2>3, <3>4 DEF NextContext
      <4>2. steal_request[t] \in Threads
        BY <3>4
      <4> QED
        BY <3>2, <4>1, <4>2
    <3> QED
      BY <3>3, <3>4
  <2>4. CASE TransferNothing(t)
    BY <2>4 DEF TransferNothing
  <2>5. CASE Transfer(t)
    BY <2>5 DEF Transfer
  <2>6. CASE Respond(t)
    BY <2>6 DEF Respond
  <2>7. CASE Reenable(t)
    BY <2>7 DEF Reenable
  <2>8. CASE Execute(t)
    BY <2>8 DEF Execute
  <2>9. CASE Throw(t)
    BY <2>9 DEF Throw
  <2>10. CASE Exhausted(t)
    BY <2>10 DEF Exhausted
  <2>11. CASE SetInactive(t)
    BY <2>11 DEF SetInactive
  <2>12. CASE Block(t)
    BY <2>12 DEF Block, AfterBlock
  <2>13. CASE BlockFails(t)
    BY <2>13 DEF BlockFails
  <2>14. CASE Refuse(t)
    BY <2>14 DEF Refuse
  <2>15. CASE Seal(t)
    BY <2>15 DEF Seal, AfterBlock
  <2> QED
    BY <1>4, <2>1, <2>2, <2>3, <2>4, <2>5, <2>6, <2>7, <2>8, <2>9, <2>10,
       <2>11, <2>12, <2>13, <2>14, <2>15 DEF Owner
<1>5. ASSUME NEW t \in Threads, Thief(t) PROVE TypeInv'
  <2>1. CASE ChooseVictim(t)
    <3>1. PICK v \in Threads \ {t} :
            \/ Transition(t, "steal", "check") /\ peer' = peer
            \/ Transition(t, "steal", "reset") /\ peer' = [peer EXCEPT ![t] = v]
      BY <2>1 DEF ChooseVictim
    <3>2. UNCHANGED <<lists, deceased, steal_request, steal_response, count,
                      exceptions, round>>
      BY <2>1 DEF ChooseVictim
    <3>3. CASE Transition(t, "steal", "check") /\ peer' = peer
      BY <3>2, <3>3
    <3>4. CASE Transition(t, "steal", "reset") /\ peer' = [peer EXCEPT ![t] = v]
      BY <3>2, <3>4
    <3> QED
      BY <3>1, <3>3, <3>4
  <2>2. CASE ResetResponse(t)
    BY <2>2 DEF ResetResponse
  <2>3. CASE Declare(t)
    BY <2>3 DEF Declare
  <2>4. CASE Request(t)
    <3>1. CASE Transition(t, "request", "wait")
      BY <2>4, <3>1 DEF Request
    <3>2. CASE Transition(t, "request", "withdraw")
      BY <2>4, <3>2 DEF Request
    <3> QED
      BY <2>4, <3>1, <3>2 DEF Request
  <2>5. CASE LoadResponse(t)
    BY <2>5 DEF LoadResponse
  <2>6. CASE ProbeVictim(t)
    BY <2>6 DEF ProbeVictim
  <2>7. CASE Cancel(t)
    BY <2>7 DEF Cancel
  <2>8. CASE Withdraw(t)
    BY <2>8 DEF Withdraw
  <2>9. CASE Take(t)
    BY <2>9 DEF Take
  <2>10. CASE TakeNull(t)
    BY <2>10 DEF TakeNull
  <2>11. CASE ReportAlive(t)
    BY <2>11 DEF ReportAlive
  <2>12. CASE Unblock(t)
    BY <2>12 DEF Unblock
  <2>13. CASE CheckTermination(t)
    BY <2>13 DEF CheckTermination
  <2>14. CASE LeaveRound(t)
    BY <2>14 DEF LeaveRound
  <2> QED
    BY <1>5, <2>1, <2>2, <2>3, <2>4, <2>5, <2>6, <2>7, <2>8, <2>9, <2>10,
       <2>11, <2>12, <2>13, <2>14 DEF Thief
<1> QED
  BY <1>1, <1>2, <1>3, <1>4, <1>5 DEF Next, Step
-----------------------------------------------------------------------------
(* The request slots.                                                      *)

(* Where a thread's slot may hold another thread's request or none.        *)
OpenLabels ==
  {"start", "activate", "next", "transfer", "respond", "reenable", "execute",
   "inactivate", "block", "refuse", "seal", "compete"}

(* Where deceased[t] is set, and where it may be.                          *)
DeadLabels ==
  {"inactivate", "block", "refuse", "seal", "steal", "reset", "declare",
   "request", "wait", "probe", "cancel", "withdraw", "take", "alive", "check",
   "leave", "compete"}

MaybeDeadLabels == DeadLabels \cup {"start", "left", "crashed"}

DeceasedOK ==
  \A t \in Threads :
    /\ pc[t] \in DeadLabels => deceased[t]
    /\ deceased[t] => pc[t] \in MaybeDeadLabels

(* A thread never answers itself.                                          *)
OpenSlot == \A t \in Threads : pc[t] \in OpenLabels => steal_request[t] # t

(* Who has left because of an exception keeps its slot blocked.            *)
LeftBlocked ==
  \A t \in Threads : pc[t] = "left" =>
    steal_request[t] = t \/ \A u \in Threads : pc[u] = "left"

(* No thief asks a victim of the last round that has not started this one. *)
NobodyAsksEarly ==
  \A t, u \in Threads :
    pc[t] = "start" /\ deceased[t] /\ pc[u] \in AskingLabels => peer[u] # t

(* A thief that is about to cancel a request still in the slot cancels it  *)
(* before the victim has blocked, or after it has left the round.          *)
CancelWindow ==
  \A u \in Threads :
    pc[u] = "cancel" /\ steal_request[peer[u]] = u =>
      pc[peer[u]] \in {"inactivate", "block", "refuse", "seal", "compete"}

SlotInv ==
  /\ DeceasedOK
  /\ OpenSlot
  /\ ThiefIsBlocked
  /\ AnswerInPlace
  /\ LeftBlocked
  /\ NobodyAsksEarly
  /\ CancelWindow

(* The slots are free and nobody is deceased at the beginning.             *)
LEMMA SlotInit == Init => SlotInv
BY ThreadsAssumption
   DEF Init, SlotInv, DeceasedOK, OpenSlot, ThiefIsBlocked, AnswerInPlace,
       LeftBlocked, NobodyAsksEarly, CancelWindow, OpenLabels, DeadLabels,
       MaybeDeadLabels, BlockedLabels, AskingLabels

(* Every step keeps the slot invariant.                                    *)
LEMMA SlotStep == TypeInv /\ SlotInv /\ [Next]_vars => SlotInv'
<1> SUFFICES ASSUME TypeInv, SlotInv, [Next]_vars PROVE SlotInv'
  OBVIOUS
<1> USE ThreadsAssumption
    DEF TypeInv, TypeOK, PeerOK, SlotInv, DeceasedOK, OpenSlot, ThiefIsBlocked,
        AnswerInPlace, LeftBlocked, NobodyAsksEarly, CancelWindow, OpenLabels,
        DeadLabels, MaybeDeadLabels, BlockedLabels, AskingLabels,
        AnsweringLabels, Transition
<1>1. CASE UNCHANGED vars
  BY <1>1 DEF vars
<1>2. CASE RoundOver
  BY <1>2 DEF RoundOver
<1>3. CASE Finished
  BY <1>3 DEF Finished, vars
<1>4. ASSUME NEW t \in Threads, Owner(t) PROVE SlotInv'
  <2>1. CASE StartRound(t)
    BY <2>1 DEF StartRound
  <2>2. CASE SetActive(t)
    BY <2>2 DEF SetActive
  <2>3. CASE NextContext(t)
    <3>1. CASE Transition(t, "next", "execute")
      BY <2>3, <3>1 DEF NextContext
    <3>2. CASE Transition(t, "next", "transfer")
      BY <2>3, <3>2 DEF NextContext
    <3> QED
      BY <2>3, <3>1, <3>2 DEF NextContext
  <2>4. CASE TransferNothing(t)
    BY <2>4 DEF TransferNothing
  <2>5. CASE Transfer(t)
    BY <2>5 DEF Transfer
  <2>6. CASE Respond(t)
    BY <2>6 DEF Respond
  <2>7. CASE Reenable(t)
    BY <2>7 DEF Reenable
  <2>8. CASE Execute(t)
    BY <2>8 DEF Execute
  <2>9. CASE Throw(t)
    BY <2>9 DEF Throw
  <2>10. CASE Exhausted(t)
    BY <2>10 DEF Exhausted
  <2>11. CASE SetInactive(t)
    BY <2>11 DEF SetInactive
  <2>12. CASE Block(t)
    BY <2>12 DEF Block, AfterBlock
  <2>13. CASE BlockFails(t)
    BY <2>13 DEF BlockFails
  <2>14. CASE Refuse(t)
    BY <2>14 DEF Refuse
  <2>15. CASE Seal(t)
    BY <2>15 DEF Seal, AfterBlock
  <2> QED
    BY <1>4, <2>1, <2>2, <2>3, <2>4, <2>5, <2>6, <2>7, <2>8, <2>9, <2>10, <2>11, <2>12, <2>13, <2>14, <2>15 DEF Owner
<1>5. ASSUME NEW t \in Threads, Thief(t) PROVE SlotInv'
  <2>1. CASE ChooseVictim(t)
    <3>1. CASE Transition(t, "steal", "check")
      BY <2>1, <3>1 DEF ChooseVictim
    <3>2. CASE Transition(t, "steal", "reset")
      <4>1. PICK v \in Threads \ {t} : ~deceased[v] /\ peer' = [peer EXCEPT ![t] = v]
        BY <2>1, <3>2 DEF ChooseVictim
      <4>2. UNCHANGED <<deceased, steal_request>>
        BY <2>1 DEF ChooseVictim
      <4> QED
        BY <3>2, <4>1, <4>2
    <3> QED
      BY <2>1, <3>1, <3>2 DEF ChooseVictim
  <2>2. CASE ResetResponse(t)
    BY <2>2 DEF ResetResponse
  <2>3. CASE Declare(t)
    BY <2>3 DEF Declare
  <2>4. CASE Request(t)
    <3>1. CASE Transition(t, "request", "wait")
      <4>1. PICK v \in Threads \ {t} :
              /\ peer[t] = v
              /\ steal_request[v] = NoStealRequest
              /\ steal_request' = [steal_request EXCEPT ![v] = t]
        BY <2>4, <3>1 DEF Request
      <4>2. UNCHANGED <<deceased, peer>>
        BY <2>4 DEF Request
      <4>3. NoStealRequest \notin Threads
        OBVIOUS
      <4>4. DeceasedOK' /\ OpenSlot' /\ ThiefIsBlocked' /\ AnswerInPlace'
        BY <3>1, <4>1, <4>2, <4>3
      <4>5. LeftBlocked' /\ NobodyAsksEarly'
        BY <3>1, <4>1, <4>2, <4>3
      <4>6. CancelWindow'
        BY <3>1, <4>1, <4>2, <4>3
      <4> QED
        BY <4>4, <4>5, <4>6
    <3>2. CASE Transition(t, "request", "withdraw")
      BY <2>4, <3>2 DEF Request
    <3> QED
      BY <2>4, <3>1, <3>2 DEF Request
  <2>5. CASE LoadResponse(t)
    <3>1. CASE Transition(t, "wait", "probe")
      BY <2>5, <3>1 DEF LoadResponse
    <3>2. CASE Transition(t, "wait", "withdraw")
      BY <2>5, <3>2 DEF LoadResponse
    <3>3. CASE Transition(t, "wait", "take")
      BY <2>5, <3>3 DEF LoadResponse
    <3> QED
      BY <2>5, <3>1, <3>2, <3>3 DEF LoadResponse
  <2>6. CASE ProbeVictim(t)
    <3>1. CASE Transition(t, "probe", "cancel")
      BY <2>6, <3>1 DEF ProbeVictim
    <3>2. CASE Transition(t, "probe", "wait")
      BY <2>6, <3>2 DEF ProbeVictim
    <3> QED
      BY <2>6, <3>1, <3>2 DEF ProbeVictim
  <2>7. CASE Cancel(t)
    BY <2>7 DEF Cancel
  <2>8. CASE Withdraw(t)
    BY <2>8 DEF Withdraw
  <2>9. CASE Take(t)
    BY <2>9 DEF Take
  <2>10. CASE TakeNull(t)
    BY <2>10 DEF TakeNull
  <2>11. CASE ReportAlive(t)
    BY <2>11 DEF ReportAlive
  <2>12. CASE Unblock(t)
    BY <2>12 DEF Unblock
  <2>13. CASE CheckTermination(t)
    <3>1. CASE Transition(t, "check", "leave")
      BY <2>13, <3>1 DEF CheckTermination
    <3>2. CASE Transition(t, "check", "steal")
      BY <2>13, <3>2 DEF CheckTermination
    <3> QED
      BY <2>13, <3>1, <3>2 DEF CheckTermination
  <2>14. CASE LeaveRound(t)
    BY <2>14 DEF LeaveRound
  <2> QED
    BY <1>5, <2>1, <2>2, <2>3, <2>4, <2>5, <2>6, <2>7, <2>8, <2>9, <2>10, <2>11, <2>12, <2>13, <2>14 DEF Thief
<1> QED
  BY <1>1, <1>2, <1>3, <1>4, <1>5 DEF Next, Step

-----------------------------------------------------------------------------
(* The counter of the termination detection barrier.                       *)

(* The inactive threads are finitely many.                                 *)
LEMMA InactiveFinite ==
  /\ IsFiniteSet(InactiveThreads)
  /\ Cardinality(InactiveThreads) \in Nat
BY ThreadsAssumption, FS_Subset, FS_CardinalityType DEF InactiveThreads

(* A step within the active or within the inactive labels.                 *)
LEMMA CountSame ==
  ASSUME TypeOK, CountIsInactive, NEW t \in Threads, NEW from, NEW to,
         Transition(t, from, to), count' = count,
         from \in ActiveLabels <=> to \in ActiveLabels
  PROVE  CountIsInactive'
<1>1. InactiveThreads' = InactiveThreads
  BY DEF InactiveThreads, Transition, TypeOK
<1> QED
  BY <1>1 DEF CountIsInactive

(* set_active(): one inactive thread less.                                 *)
LEMMA CountLess ==
  ASSUME TypeOK, CountIsInactive, NEW t \in Threads, NEW from, NEW to,
         Transition(t, from, to), count' = count - 1,
         from \notin ActiveLabels, to \in ActiveLabels
  PROVE  CountIsInactive'
<1>1. /\ InactiveThreads' = InactiveThreads \ {t}
      /\ t \in InactiveThreads
  BY DEF InactiveThreads, Transition, TypeOK
<1> QED
  BY <1>1, InactiveFinite, FS_RemoveElement DEF CountIsInactive

(* set_inactive(): one inactive thread more.                               *)
LEMMA CountMore ==
  ASSUME TypeOK, CountIsInactive, NEW t \in Threads, NEW from, NEW to,
         Transition(t, from, to), count' = count + 1,
         from \in ActiveLabels, to \notin ActiveLabels
  PROVE  CountIsInactive'
<1>1. /\ InactiveThreads' = InactiveThreads \cup {t}
      /\ t \notin InactiveThreads
  BY DEF InactiveThreads, Transition, TypeOK
<1> QED
  BY <1>1, InactiveFinite, FS_AddElement DEF CountIsInactive

(* At the beginning everybody is inactive.                                 *)
LEMMA CountInit == Init => CountIsInactive
<1> SUFFICES ASSUME Init PROVE CountIsInactive
  OBVIOUS
<1>1. InactiveThreads = Threads
  BY DEF Init, InactiveThreads, ActiveLabels
<1> QED
  BY <1>1 DEF Init, CountIsInactive, N

(* Every step keeps the counter equal to the number of inactive threads.   *)
LEMMA CountStep == TypeInv /\ CountIsInactive /\ [Next]_vars => CountIsInactive'
<1> SUFFICES ASSUME TypeInv, CountIsInactive, [Next]_vars PROVE CountIsInactive'
  OBVIOUS
<1> USE DEF TypeInv
<1>1. CASE UNCHANGED vars
  BY <1>1 DEF vars, CountIsInactive, InactiveThreads
<1>2. CASE RoundOver
  <2>1. InactiveThreads' = Threads
    BY <1>2 DEF RoundOver, InactiveThreads, ActiveLabels, TypeOK
  <2> QED
    BY <1>2, <2>1 DEF RoundOver, CountIsInactive, N
<1>3. CASE Finished
  BY <1>3 DEF Finished, vars, CountIsInactive, InactiveThreads
<1>4. ASSUME NEW t \in Threads, Owner(t) PROVE CountIsInactive'
  <2>1. CASE StartRound(t)
    BY <2>1, CountSame DEF StartRound, ActiveLabels
  <2>2. CASE SetActive(t)
    BY <2>2, CountLess DEF SetActive, ActiveLabels
  <2>3. CASE NextContext(t)
    BY <2>3, CountSame DEF NextContext, ActiveLabels
  <2>4. CASE TransferNothing(t)
    BY <2>4, CountSame DEF TransferNothing, ActiveLabels
  <2>5. CASE Transfer(t)
    BY <2>5, CountSame DEF Transfer, ActiveLabels
  <2>6. CASE Respond(t)
    BY <2>6, CountSame DEF Respond, ActiveLabels
  <2>7. CASE Reenable(t)
    BY <2>7, CountSame DEF Reenable, ActiveLabels
  <2>8. CASE Execute(t)
    BY <2>8, CountSame DEF Execute, ActiveLabels
  <2>9. CASE Throw(t)
    BY <2>9, CountSame DEF Throw, ActiveLabels
  <2>10. CASE Exhausted(t)
    BY <2>10, CountSame DEF Exhausted, ActiveLabels
  <2>11. CASE SetInactive(t)
    BY <2>11, CountMore DEF SetInactive, ActiveLabels
  <2>12. CASE Block(t)
    BY <2>12, CountSame DEF Block, ActiveLabels, AfterBlock
  <2>13. CASE BlockFails(t)
    BY <2>13, CountSame DEF BlockFails, ActiveLabels
  <2>14. CASE Refuse(t)
    BY <2>14, CountSame DEF Refuse, ActiveLabels
  <2>15. CASE Seal(t)
    BY <2>15, CountSame DEF Seal, ActiveLabels, AfterBlock
  <2> QED
    BY <1>4, <2>1, <2>2, <2>3, <2>4, <2>5, <2>6, <2>7, <2>8, <2>9, <2>10, <2>11, <2>12, <2>13, <2>14, <2>15 DEF Owner
<1>5. ASSUME NEW t \in Threads, Thief(t) PROVE CountIsInactive'
  <2>1. CASE ChooseVictim(t)
    BY <2>1, CountSame DEF ChooseVictim, ActiveLabels
  <2>2. CASE ResetResponse(t)
    BY <2>2, CountSame DEF ResetResponse, ActiveLabels
  <2>3. CASE Declare(t)
    BY <2>3, CountLess DEF Declare, ActiveLabels
  <2>4. CASE Request(t)
    BY <2>4, CountSame DEF Request, ActiveLabels
  <2>5. CASE LoadResponse(t)
    BY <2>5, CountSame DEF LoadResponse, ActiveLabels
  <2>6. CASE ProbeVictim(t)
    BY <2>6, CountSame DEF ProbeVictim, ActiveLabels
  <2>7. CASE Cancel(t)
    BY <2>7, CountSame DEF Cancel, ActiveLabels
  <2>8. CASE Withdraw(t)
    BY <2>8, CountMore DEF Withdraw, ActiveLabels
  <2>9. CASE Take(t)
    BY <2>9, CountSame DEF Take, ActiveLabels
  <2>10. CASE TakeNull(t)
    BY <2>10, CountSame DEF TakeNull, ActiveLabels
  <2>11. CASE ReportAlive(t)
    BY <2>11, CountSame DEF ReportAlive, ActiveLabels
  <2>12. CASE Unblock(t)
    BY <2>12, CountSame DEF Unblock, ActiveLabels
  <2>13. CASE CheckTermination(t)
    BY <2>13, CountSame DEF CheckTermination, ActiveLabels
  <2>14. CASE LeaveRound(t)
    BY <2>14, CountSame DEF LeaveRound, ActiveLabels
  <2> QED
    BY <1>5, <2>1, <2>2, <2>3, <2>4, <2>5, <2>6, <2>7, <2>8, <2>9, <2>10, <2>11, <2>12, <2>13, <2>14 DEF Thief
<1> QED
  BY <1>1, <1>2, <1>3, <1>4, <1>5 DEF Next, Step

-----------------------------------------------------------------------------
(* The lists.                                                              *)

(* Whatever leaves the lists alone keeps every context in one list.        *)
LEMMA ListsUnchanged == OneList /\ UNCHANGED lists => OneList'
BY DEF OneList, Apart, lists

(* The contexts are distributed without overlap or loss.                   *)
LEMMA ListInit == Init => OneList
BY DEF Init, OneList, Apart, Distributed

(* Every step keeps every context in exactly one list: those that move     *)
(* contexts are StartRound, NextContext, Transfer and Take.                *)
LEMMA ListStep ==
  TypeInv /\ OneList /\ [Next]_vars => OneList'
<1> SUFFICES ASSUME TypeInv, OneList, [Next]_vars PROVE OneList'
  OBVIOUS
<1>1. CASE UNCHANGED lists
  BY <1>1, ListsUnchanged
<1>2. ASSUME NEW t \in Threads, StartRound(t) PROVE OneList'
  <2>1. UNCHANGED steal_free_list
    BY <1>2 DEF StartRound
  <2>2. \A x \in Threads :
          /\ local'[x] = IF x = t THEN local[t] \cup committed[t] ELSE local[x]
          /\ committed'[x] = IF x = t THEN {} ELSE committed[x]
    BY <1>2 DEF StartRound, TypeInv, TypeOK
  <2>3. \A c \in Contexts :
          \/ \E x \in Threads : c \in local'[x] \/ c \in committed'[x]
          \/ \E x, y \in Threads : c \in steal_free_list'[x][y]
    BY <2>1, <2>2 DEF OneList
  <2>4. /\ \A x, y \in Threads : x # y => local'[x] \cap local'[y] = {}
        /\ \A x, y \in Threads : x # y => committed'[x] \cap committed'[y] = {}
        /\ \A x, y \in Threads : local'[x] \cap committed'[y] = {}
    BY <2>2 DEF OneList, Apart
  <2>5. \A x, y, z \in Threads :
          /\ local'[x] \cap steal_free_list'[y][z] = {}
          /\ committed'[x] \cap steal_free_list'[y][z] = {}
    BY <2>1, <2>2 DEF OneList, Apart
  <2> QED
    BY <2>1, <2>3, <2>4, <2>5 DEF OneList, Apart
<1>3. ASSUME NEW t \in Threads, NextContext(t) PROVE OneList'
  <2>1. PICK c \in local[t] :
          /\ local' = [local EXCEPT ![t] = @ \ {c}]
          /\ committed' = [committed EXCEPT ![t] = @ \cup {c}]
    BY <1>3 DEF NextContext
  <2>2. UNCHANGED steal_free_list
    BY <1>3 DEF NextContext
  <2>3. \A x \in Threads :
          /\ local'[x] = IF x = t THEN local[t] \ {c} ELSE local[x]
          /\ committed'[x] = IF x = t THEN committed[t] \cup {c} ELSE committed[x]
    BY <2>1 DEF TypeInv, TypeOK
  <2>4. \A d \in Contexts :
          \/ \E x \in Threads : d \in local'[x] \/ d \in committed'[x]
          \/ \E x, y \in Threads : d \in steal_free_list'[x][y]
    BY <2>2, <2>3 DEF OneList
  <2>5. /\ \A x, y \in Threads : x # y => local'[x] \cap local'[y] = {}
        /\ \A x, y \in Threads : x # y => committed'[x] \cap committed'[y] = {}
        /\ \A x, y \in Threads : local'[x] \cap committed'[y] = {}
    BY <2>3 DEF OneList, Apart
  <2>6. \A x, y, z \in Threads :
          /\ local'[x] \cap steal_free_list'[y][z] = {}
          /\ committed'[x] \cap steal_free_list'[y][z] = {}
    BY <2>2, <2>3 DEF OneList, Apart
  <2> QED
    BY <2>2, <2>4, <2>5, <2>6 DEF OneList, Apart
<1>4. ASSUME NEW t \in Threads, Transfer(t) PROVE OneList'
  <2>1. PICK S \in SUBSET local[t] :
          /\ local' = [local EXCEPT ![t] = @ \ S]
          /\ steal_free_list' = [steal_free_list EXCEPT ![t][peer[t]] = @ \cup S]
    BY <1>4 DEF Transfer
  <2>2. peer[t] \in Threads /\ UNCHANGED committed
    BY <1>4 DEF Transfer, Transition, TypeInv, PeerOK, AnsweringLabels
  <2>3. /\ \A x \in Threads :
             local'[x] = IF x = t THEN local[t] \ S ELSE local[x]
        /\ \A x, y \in Threads : steal_free_list'[x][y] =
             IF x = t /\ y = peer[t] THEN steal_free_list[t][peer[t]] \cup S
                                    ELSE steal_free_list[x][y]
    BY <2>1, <2>2 DEF TypeInv, TypeOK
  <2>4. \A c \in Contexts :
          \/ \E x \in Threads : c \in local'[x] \/ c \in committed'[x]
          \/ \E x, y \in Threads : c \in steal_free_list'[x][y]
    BY <2>2, <2>3 DEF OneList
  <2>5. /\ \A x, y \in Threads : x # y => local'[x] \cap local'[y] = {}
        /\ \A x, y \in Threads : x # y => committed'[x] \cap committed'[y] = {}
        /\ \A x, y \in Threads : local'[x] \cap committed'[y] = {}
    BY <2>2, <2>3 DEF OneList, Apart
  <2>6. \A x, y, w, z \in Threads : <<x, y>> # <<w, z>> =>
          steal_free_list'[x][y] \cap steal_free_list'[w][z] = {}
    BY <2>2, <2>3 DEF OneList, Apart
  <2>7. \A x, y, z \in Threads :
          /\ local'[x] \cap steal_free_list'[y][z] = {}
          /\ committed'[x] \cap steal_free_list'[y][z] = {}
    BY <2>2, <2>3 DEF OneList, Apart
  <2> QED
    BY <2>4, <2>5, <2>6, <2>7 DEF OneList, Apart
<1>5. ASSUME NEW t \in Threads, Take(t) PROVE OneList'
  <2>1. PICK v \in Threads :
          /\ local' = [local EXCEPT ![t] = @ \cup steal_free_list[v][t]]
          /\ steal_free_list' = [steal_free_list EXCEPT ![v][t] = {}]
    BY <1>5 DEF Take
  <2>2. UNCHANGED committed
    BY <1>5 DEF Take
  <2>3. /\ \A x \in Threads :
             local'[x] = IF x = t THEN local[t] \cup steal_free_list[v][t]
                                  ELSE local[x]
        /\ \A x, y \in Threads : steal_free_list'[x][y] =
             IF x = v /\ y = t THEN {} ELSE steal_free_list[x][y]
    BY <2>1 DEF TypeInv, TypeOK
  <2>4. \A c \in Contexts :
          \/ \E x \in Threads : c \in local'[x] \/ c \in committed'[x]
          \/ \E x, y \in Threads : c \in steal_free_list'[x][y]
    BY <2>2, <2>3 DEF OneList
  <2>5. /\ \A x, y \in Threads : x # y => local'[x] \cap local'[y] = {}
        /\ \A x, y \in Threads : x # y => committed'[x] \cap committed'[y] = {}
        /\ \A x, y \in Threads : local'[x] \cap committed'[y] = {}
    BY <2>2, <2>3 DEF OneList, Apart
  <2>6. \A x, y, w, z \in Threads : <<x, y>> # <<w, z>> =>
          steal_free_list'[x][y] \cap steal_free_list'[w][z] = {}
    BY <2>2, <2>3 DEF OneList, Apart
  <2>7. \A x, y, z \in Threads :
          /\ local'[x] \cap steal_free_list'[y][z] = {}
          /\ committed'[x] \cap steal_free_list'[y][z] = {}
    BY <2>2, <2>3 DEF OneList, Apart
  <2> QED
    BY <2>4, <2>5, <2>6, <2>7 DEF OneList, Apart
<1>6. ASSUME NEW t \in Threads, Owner(t) \/ Thief(t)
      PROVE  \/ StartRound(t) \/ NextContext(t) \/ Transfer(t) \/ Take(t)
             \/ UNCHANGED lists
  <2> USE DEF lists
  <2>1. CASE Owner(t)
    BY <2>1 DEF Owner, SetActive, TransferNothing, Respond, Reenable, Execute,
                Throw, Exhausted, SetInactive, Block, BlockFails, Refuse, Seal
  <2>2. CASE Thief(t)
    BY <2>2 DEF Thief, ChooseVictim, ResetResponse, Declare, Request,
                LoadResponse, ProbeVictim, Cancel, Withdraw, TakeNull,
                ReportAlive, Unblock, CheckTermination, LeaveRound
  <2> QED
    BY <1>6, <2>1, <2>2
<1> QED
  BY <1>1, <1>2, <1>3, <1>4, <1>5, <1>6
     DEF Next, Step, RoundOver, Finished, vars, lists

-----------------------------------------------------------------------------
(* The theorems.                                                           *)

IInv == TypeInv /\ SlotInv /\ OneList /\ CountIsInactive

(* IInv holds in every reachable state.                                    *)
THEOREM Invariance == Spec => []IInv
<1>1. Init => IInv
  BY TypeInit, SlotInit, ListInit, CountInit DEF IInv
<1>2. IInv /\ [Next]_vars => IInv'
  BY TypeStep, SlotStep, ListStep, CountStep DEF IInv
<1> QED
  BY <1>1, <1>2, PTL DEF Spec

(* Every field and local of the scheduler keeps its type.                  *)
THEOREM TypeCorrect == Spec => []TypeOK
BY Invariance, PTL DEF IInv, TypeInv

(* A thread without work is blocked: thieves that time out never undo      *)
(* block_steal_requests().                                                 *)
THEOREM StaysBlocked == Spec => []ThiefIsBlocked
BY Invariance, PTL DEF IInv, SlotInv

(* While a victim answers, the request it answers stays in its slot: the   *)
(* plain store of handle_steal_request() wipes out no other request.       *)
THEOREM AnswersRequester == Spec => []AnswerInPlace
BY Invariance, PTL DEF IInv, SlotInv

(* The counter of the termination detection barrier is at any time the     *)
(* number of inactive threads.                                             *)
THEOREM CounterCorrect == Spec => []CountIsInactive
BY Invariance, PTL DEF IInv

(* Every context is in exactly one list.                                   *)
THEOREM ListsDisjoint == Spec => []OneList
BY Invariance, PTL DEF IInv

(* Within a round no context a thread has begun to execute leaves it, so   *)
(* none is executed twice.                                                 *)
THEOREM ExecutedOnce == Spec => AtMostOncePerRound
<1> DEFINE Kept == \A t \in Threads :
      committed[t] \subseteq committed'[t] \/ pc[t] = "start"
<1>1. IInv /\ [Next]_vars => [Kept]_vars
  <2> SUFFICES ASSUME IInv, [Next]_vars PROVE Kept \/ UNCHANGED vars
    BY DEF vars
  <2> USE DEF IInv, TypeInv, TypeOK
  <2>1. CASE UNCHANGED committed
    BY <2>1
  <2>2. ASSUME NEW t \in Threads, StartRound(t) PROVE Kept
    BY <2>2 DEF StartRound, Transition
  <2>3. ASSUME NEW t \in Threads, NextContext(t) PROVE Kept
    BY <2>3 DEF NextContext
  <2>4. ASSUME NEW t \in Threads, Owner(t) \/ Thief(t)
        PROVE  StartRound(t) \/ NextContext(t) \/ UNCHANGED committed
    <3> USE DEF lists
    <3>1. CASE Owner(t)
      BY <3>1 DEF Owner, SetActive, TransferNothing, Transfer, Respond,
                  Reenable, Execute, Throw, Exhausted, SetInactive, Block,
                  BlockFails, Refuse, Seal
    <3>2. CASE Thief(t)
      BY <3>2 DEF Thief, ChooseVictim, ResetResponse, Declare, Request,
                  LoadResponse, ProbeVictim, Cancel, Withdraw, Take, TakeNull,
                  ReportAlive, Unblock, CheckTermination, LeaveRound
    <3> QED
      BY <2>4, <3>1, <3>2
  <2> QED
    BY <2>1, <2>2, <2>3, <2>4 DEF Next, Step, RoundOver, Finished, vars, lists
<1> QED
  BY <1>1, Invariance, PTL DEF Spec, AtMostOncePerRound
=============================================================================
