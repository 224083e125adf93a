---------------------------- MODULE WorkStealing ----------------------------
(***************************************************************************)
(* One simulation round after another of the receiver-initiated work       *)
(* stealing scheduler of pdes::engine (engine.hpp, run_simulation() and    *)
(* run_work_stealing_scheduler()) with the termination detection barrier   *)
(* it uses (concurrent/termination_detection_barrier.hpp).                 *)
(*                                                                         *)
(* Every access to a shared atomic is one step; the accesses are           *)
(* interleaved (sequential consistency: the arrays are accessed with       *)
(* memory_order_seq_cst, the counter too under                             *)
(* NO_MEMORY_ORDER_OPTIMIZATION).  What a thread does on its thread_local  *)
(* data is part of the step of the access before or after it.              *)
(*                                                                         *)
(* A context list is a set: the order inside a list is chosen for cache    *)
(* locality only (engine.hpp:630-634), nothing below depends on it.  The   *)
(* global reduction between two rounds (compute_threshold()) is the        *)
(* joint step RoundOver; TournamentTree details it.                        *)
(***************************************************************************)
EXTENDS Integers, FiniteSets

CONSTANTS
  Threads,          \* the worker threads
  Contexts,         \* the simulation contexts
  NoStealRequest,   \* NO_STEAL_REQUEST, "invalid thread id"
  NoStealResponse,  \* &NO_STEAL_RESPONSE, the sentinel list
  Null,             \* nullptr as a steal response; also "no peer"
  StealHalf,        \* USE_STEAL_HALF_APPROACH (TRUE) or USE_STEAL_ONE_APPROACH
  MayThrow,         \* whether execute_until() may let an exception escape
  MaxRounds         \* bound on the number of rounds

ASSUME ThreadsAssumption ==
  /\ IsFiniteSet(Threads)
  /\ Cardinality(Threads) >= 2      \* the constructor of tournament_tree throws otherwise
  /\ Threads \cap {NoStealRequest, NoStealResponse, Null} = {}
  /\ NoStealResponse # Null

ASSUME ModelAssumption ==
  /\ IsFiniteSet(Contexts)
  /\ StealHalf \in BOOLEAN
  /\ MayThrow \in BOOLEAN
  /\ MaxRounds \in Nat \ {0}

VARIABLES
  pc,               \* where each thread is
  local,            \* local_contexts, thread_local
  committed,        \* committed_contexts, thread_local
  steal_free_list,  \* steal_free_list[victim][thief]
  deceased,         \* deceased[id]
  steal_request,    \* steal_request[id]: a thief, its owner (blocked) or none
  steal_response,   \* steal_response[id]: the victim whose list it points to
  count,            \* the counter of the termination detection barrier
  peer,             \* the local variable thief (in a victim) or victim (in a thief)
  exceptions,       \* exceptions[id] is set
  round             \* number of the current round (bounds the model)

vars == <<pc, local, committed, steal_free_list, deceased, steal_request,
          steal_response, count, peer, exceptions, round>>

lists == <<local, committed, steal_free_list>>

N == Cardinality(Threads)

-----------------------------------------------------------------------------
(* A thread moves from label `from` to label `to`.                         *)
Transition(t, from, to) ==
  /\ pc[t] = from
  /\ pc' = [pc EXCEPT ![t] = to]

(* The number of contexts transfer() hands over out of n > 0.              *)
StealAmount(n) == IF StealHalf THEN n - (n \div 2) ELSE 1

(* The operations of the termination detection barrier, each one atomic    *)
(* access of the counter of inactive threads.                              *)
set_active == count' = count - 1

set_inactive == count' = count + 1

terminate == count = N

reset == count' = N

(* distribute_contexts(): every thread gets the same share, the last one   *)
(* also what is left over.  worker_thread() puts them in committed.        *)
Distributed ==
  /\ UNION {committed[t] : t \in Threads} = Contexts
  /\ \A t, u \in Threads : t # u => committed[t] \cap committed[u] = {}
  /\ \E last \in Threads : \A t \in Threads \ {last} :
       Cardinality(committed[t]) = Cardinality(Contexts) \div N

Init ==
  /\ pc = [t \in Threads |-> "start"]
  /\ local = [t \in Threads |-> {}]
  /\ committed \in [Threads -> SUBSET Contexts]
  /\ Distributed
  /\ steal_free_list = [v \in Threads |-> [t \in Threads |-> {}]]
  /\ deceased = [t \in Threads |-> FALSE]
  /\ steal_request = [t \in Threads |-> NoStealRequest]
  /\ steal_response = [t \in Threads |-> NoStealResponse]
  /\ count = N
  /\ peer = [t \in Threads |-> Null]
  /\ exceptions = [t \in Threads |-> FALSE]
  /\ round = 1

-----------------------------------------------------------------------------
(* Mutants: the bugs the properties below are there to catch.  No action   *)
(* uses them; PROJECT.json names the definition each one stands in for.    *)

(* transfer() called before the current context is moved to committed: it  *)
(* may be given away although the victim executes it (engine.hpp:626-628). *)
TransferOfCurrent(t) ==
  /\ local[t] # {}
  /\ Transition(t, "transfer", "respond")
  /\ \E S \in SUBSET (local[t] \cup committed[t]) :
       /\ Cardinality(S) = StealAmount(Cardinality(local[t]))
       /\ local' = [local EXCEPT ![t] = @ \ S]
       /\ committed' = [committed EXCEPT ![t] = @ \ S]
       /\ steal_free_list' = [steal_free_list EXCEPT ![t][peer[t]] = @ \cup S]
  /\ UNCHANGED <<deceased, steal_request, steal_response, count, peer,
                 exceptions, round>>

(* handle_exception() without td->set_inactive(id) (engine.hpp:970).       *)
ThrowUncounted(t) ==
  /\ MayThrow
  /\ Transition(t, "execute", "block")
  /\ deceased' = [deceased EXCEPT ![t] = TRUE]
  /\ exceptions' = [exceptions EXCEPT ![t] = TRUE]
  /\ UNCHANGED <<lists, steal_request, steal_response, count, peer, round>>

(* Requests re-enabled before the answer is written.                       *)
RespondAfterReenable(t) ==
  /\ Transition(t, "respond", "reenable")
  /\ steal_response' = [steal_response EXCEPT ![peer[t]] = t]
  /\ steal_request' = [steal_request EXCEPT ![t] = NoStealRequest]
  /\ UNCHANGED <<lists, deceased, count, peer, exceptions, round>>

(* No look at deceased before the attempt (engine.hpp:711-717).            *)
ChooseAnyVictim(t) ==
  \E v \in Threads \ {t} :
    /\ Transition(t, "steal", "reset")
    /\ peer' = [peer EXCEPT ![t] = v]
    /\ UNCHANGED <<lists, deceased, steal_request, steal_response, count,
                   exceptions, round>>

(* A plain store instead of the compare&swap (engine.hpp:777-785).         *)
CancelByStore(t) ==
  /\ Transition(t, "cancel", "withdraw")
  /\ steal_request' = [steal_request EXCEPT ![peer[t]] = NoStealRequest]
  /\ UNCHANGED <<lists, deceased, steal_response, count, peer, exceptions, round>>

(* The wrong sentinel written to cancel a request.                         *)
CancelWithNull(t) ==
  /\ Transition(t, "cancel", "withdraw")
  /\ steal_request' = [steal_request EXCEPT ![peer[t]] = IF @ = t THEN Null ELSE @]
  /\ UNCHANGED <<lists, deceased, steal_response, count, peer, exceptions, round>>

(* A failed attempt that does not call td->set_inactive(thief).            *)
WithdrawStillActive(t) ==
  /\ Transition(t, "withdraw", "check")
  /\ peer' = [peer EXCEPT ![t] = Null]
  /\ UNCHANGED <<lists, deceased, steal_request, steal_response, count,
                 exceptions, round>>

(* The stolen list is copied instead of spliced.                           *)
TakeCopy(t) ==
  /\ steal_response[t] \in Threads
  /\ Transition(t, "take", "alive")
  /\ local' = [local EXCEPT ![t] = @ \cup steal_free_list[steal_response[t]][t]]
  /\ peer' = [peer EXCEPT ![t] = Null]
  /\ UNCHANGED <<committed, steal_free_list, deceased, steal_request,
                 steal_response, count, exceptions, round>>

-----------------------------------------------------------------------------
(* The owner's side.                                                       *)

(* run_work_stealing_scheduler(): take back the contexts of the last round *)
(* and report_alive().                                                     *)
StartRound(t) ==
  /\ Transition(t, "start", "activate")
  /\ local' = [local EXCEPT ![t] = @ \cup committed[t]]
  /\ committed' = [committed EXCEPT ![t] = {}]
  /\ deceased' = [deceased EXCEPT ![t] = FALSE]
  /\ UNCHANGED <<steal_free_list, steal_request, steal_response, count, peer,
                 exceptions, round>>

(* td->set_active(id)                                                      *)
SetActive(t) ==
  /\ Transition(t, "activate", "next")
  /\ set_active
  /\ UNCHANGED <<lists, deceased, steal_request, steal_response, peer,
                 exceptions, round>>

(* Move the next context to committed, then load steal_request[id]         *)
(* (handle_steal_request()).                                               *)
NextContext(t) ==
  /\ \E c \in local[t] :
       /\ local' = [local EXCEPT ![t] = @ \ {c}]
       /\ committed' = [committed EXCEPT ![t] = @ \cup {c}]
  /\ \/ /\ steal_request[t] = NoStealRequest
        /\ Transition(t, "next", "execute")
        /\ UNCHANGED peer
     \/ /\ steal_request[t] # NoStealRequest
        /\ Transition(t, "next", "transfer")
        /\ peer' = [peer EXCEPT ![t] = steal_request[t]]
  /\ UNCHANGED <<steal_free_list, deceased, steal_request, steal_response,
                 count, exceptions, round>>

(* transfer(): nothing left to give.                                       *)
TransferNothing(t) ==
  /\ local[t] = {}
  /\ Transition(t, "transfer", "reenable")
  /\ steal_response' = [steal_response EXCEPT ![peer[t]] = Null]
  /\ UNCHANGED <<lists, deceased, steal_request, count, peer, exceptions, round>>

(* transfer(): splice into the list reserved for this thief.               *)
Transfer(t) ==
  /\ local[t] # {}
  /\ Transition(t, "transfer", "respond")
  /\ \E S \in SUBSET local[t] :
       /\ Cardinality(S) = StealAmount(Cardinality(local[t]))
       /\ local' = [local EXCEPT ![t] = @ \ S]
       /\ steal_free_list' = [steal_free_list EXCEPT ![t][peer[t]] = @ \cup S]
  /\ UNCHANGED <<committed, deceased, steal_request, steal_response, count,
                 peer, exceptions, round>>

(* transfer(): publish the list to the thief.                              *)
Respond(t) ==
  /\ Transition(t, "respond", "reenable")
  /\ steal_response' = [steal_response EXCEPT ![peer[t]] = t]
  /\ UNCHANGED <<lists, deceased, steal_request, count, peer, exceptions, round>>

(* handle_steal_request(): unblock_steal_requests(id).                     *)
Reenable(t) ==
  /\ Transition(t, "reenable", "execute")
  /\ steal_request' = [steal_request EXCEPT ![t] = NoStealRequest]
  /\ peer' = [peer EXCEPT ![t] = Null]
  /\ UNCHANGED <<lists, deceased, steal_response, count, exceptions, round>>

(* execute_until(threshold) returns; what it computes is in Simulation.    *)
Execute(t) ==
  /\ Transition(t, "execute", "next")
  /\ UNCHANGED <<lists, deceased, steal_request, steal_response, count, peer,
                 exceptions, round>>

(* execute_until(threshold) throws: handle_exception(), report_deceased(). *)
(* exceptions[id] is set here: no one reads it before the phases barrier.  *)
Throw(t) ==
  /\ MayThrow
  /\ Transition(t, "execute", "inactivate")
  /\ deceased' = [deceased EXCEPT ![t] = TRUE]
  /\ exceptions' = [exceptions EXCEPT ![t] = TRUE]
  /\ UNCHANGED <<lists, steal_request, steal_response, count, peer, round>>

(* local_contexts is exhausted: report_deceased(id).                       *)
Exhausted(t) ==
  /\ local[t] = {}
  /\ Transition(t, "next", "inactivate")
  /\ deceased' = [deceased EXCEPT ![t] = TRUE]
  /\ UNCHANGED <<lists, steal_request, steal_response, count, peer,
                 exceptions, round>>

(* td->set_inactive(id)                                                    *)
SetInactive(t) ==
  /\ Transition(t, "inactivate", "block")
  /\ set_inactive
  /\ UNCHANGED <<lists, deceased, steal_request, steal_response, peer,
                 exceptions, round>>

(* What follows block_steal_requests(): look for work, or, from            *)
(* handle_exception(), leave run_simulation() without competing.           *)
AfterBlock(t) == IF exceptions[t] THEN "left" ELSE "steal"

(* block_steal_requests(): the compare&swap succeeds.                      *)
Block(t) ==
  /\ steal_request[t] = NoStealRequest
  /\ Transition(t, "block", AfterBlock(t))
  /\ steal_request' = [steal_request EXCEPT ![t] = t]
  /\ UNCHANGED <<lists, deceased, steal_response, count, peer, exceptions, round>>

(* block_steal_requests(): the compare&swap fails and loads the thief.     *)
BlockFails(t) ==
  /\ steal_request[t] # NoStealRequest
  /\ Transition(t, "block", "refuse")
  /\ peer' = [peer EXCEPT ![t] = steal_request[t]]
  /\ UNCHANGED <<lists, deceased, steal_request, steal_response, count,
                 exceptions, round>>

(* block_steal_requests(): respond with null ...                           *)
Refuse(t) ==
  /\ Transition(t, "refuse", "seal")
  /\ steal_response' = [steal_response EXCEPT ![peer[t]] = Null]
  /\ UNCHANGED <<lists, deceased, steal_request, count, peer, exceptions, round>>

(* ... and block with a plain store.                                       *)
Seal(t) ==
  /\ Transition(t, "seal", AfterBlock(t))
  /\ steal_request' = [steal_request EXCEPT ![t] = t]
  /\ peer' = [peer EXCEPT ![t] = Null]
  /\ UNCHANGED <<lists, deceased, steal_response, count, exceptions, round>>

-----------------------------------------------------------------------------
(* The thief's side.                                                       *)

(* attempt_steal(): choose_victim() and the load of deceased[victim].      *)
ChooseVictim(t) ==
  \E v \in Threads \ {t} :
    \/ /\ deceased[v]
       /\ Transition(t, "steal", "check")
       /\ UNCHANGED <<lists, deceased, steal_request, steal_response, count,
                      peer, exceptions, round>>
    \/ /\ ~deceased[v]
       /\ Transition(t, "steal", "reset")
       /\ peer' = [peer EXCEPT ![t] = v]
       /\ UNCHANGED <<lists, deceased, steal_request, steal_response, count,
                      exceptions, round>>

(* attempt_steal(): cancel out any earlier response.                       *)
ResetResponse(t) ==
  /\ Transition(t, "reset", "declare")
  /\ steal_response' = [steal_response EXCEPT ![t] = NoStealResponse]
  /\ UNCHANGED <<lists, deceased, steal_request, count, peer, exceptions, round>>

(* attempt_steal(): td->set_active(thief).                                 *)
Declare(t) ==
  /\ Transition(t, "declare", "request")
  /\ set_active
  /\ UNCHANGED <<lists, deceased, steal_request, steal_response, peer,
                 exceptions, round>>

(* attempt_steal(): the compare&swap on steal_request[victim].             *)
Request(t) ==
  /\ \/ /\ Transition(t, "request", "wait")
        /\ steal_request[peer[t]] = NoStealRequest
        /\ steal_request' = [steal_request EXCEPT ![peer[t]] = t]
     \/ /\ Transition(t, "request", "withdraw")
        /\ steal_request[peer[t]] # NoStealRequest
        /\ UNCHANGED steal_request
  /\ UNCHANGED <<lists, deceased, steal_response, count, peer, exceptions, round>>

(* wait_steal_response(): the load of steal_response[thief].               *)
LoadResponse(t) ==
  /\ \/ /\ steal_response[t] = NoStealResponse
        /\ Transition(t, "wait", "probe")
     \/ /\ steal_response[t] = Null
        /\ Transition(t, "wait", "withdraw")
     \/ /\ steal_response[t] \in Threads
        /\ Transition(t, "wait", "take")
  /\ UNCHANGED <<lists, deceased, steal_request, steal_response, count, peer,
                 exceptions, round>>

(* wait_steal_response(): the load of deceased[victim].                    *)
ProbeVictim(t) ==
  /\ \/ /\ Transition(t, "probe", "cancel")
        /\ deceased[peer[t]]
     \/ /\ Transition(t, "probe", "wait")
        /\ ~deceased[peer[t]]
  /\ UNCHANGED <<lists, deceased, steal_request, steal_response, count, peer,
                 exceptions, round>>

(* wait_steal_response(): cancel the request if it is still ours.          *)
Cancel(t) ==
  /\ Transition(t, "cancel", "withdraw")
  /\ steal_request' = [steal_request EXCEPT
       ![peer[t]] = IF @ = t THEN NoStealRequest ELSE @]
  /\ UNCHANGED <<lists, deceased, steal_response, count, peer, exceptions, round>>

(* attempt_steal(): a failed attempt, td->set_inactive(thief).             *)
Withdraw(t) ==
  /\ Transition(t, "withdraw", "check")
  /\ set_inactive
  /\ peer' = [peer EXCEPT ![t] = Null]
  /\ UNCHANGED <<lists, deceased, steal_request, steal_response, exceptions, round>>

(* attempt_steal(): load steal_response[thief] again and splice that list. *)
Take(t) ==
  /\ steal_response[t] \in Threads
  /\ Transition(t, "take", "alive")
  /\ local' = [local EXCEPT ![t] = @ \cup steal_free_list[steal_response[t]][t]]
  /\ steal_free_list' = [steal_free_list EXCEPT ![steal_response[t]][t] = {}]
  /\ peer' = [peer EXCEPT ![t] = Null]
  /\ UNCHANGED <<committed, deceased, steal_request, steal_response, count,
                 exceptions, round>>

(* attempt_steal(): the second load returns nullptr, which is dereferenced *)
(* (undefined behaviour: the process dies).                                *)
TakeNull(t) ==
  /\ steal_response[t] = Null
  /\ Transition(t, "take", "crashed")
  /\ UNCHANGED <<lists, deceased, steal_request, steal_response, count, peer,
                 exceptions, round>>

(* After a successful attempt: report_alive(id), unblock_steal_requests(id).*)
ReportAlive(t) ==
  /\ Transition(t, "alive", "unblock")
  /\ deceased' = [deceased EXCEPT ![t] = FALSE]
  /\ UNCHANGED <<lists, steal_request, steal_response, count, peer,
                 exceptions, round>>

Unblock(t) ==
  /\ Transition(t, "unblock", "next")
  /\ steal_request' = [steal_request EXCEPT ![t] = NoStealRequest]
  /\ UNCHANGED <<lists, deceased, steal_response, count, peer, exceptions, round>>

-----------------------------------------------------------------------------
(* The end of the round.                                                   *)

(* td->terminate()                                                         *)
CheckTermination(t) ==
  /\ \/ /\ terminate
        /\ Transition(t, "check", "leave")
     \/ /\ ~terminate
        /\ Transition(t, "check", "steal")
  /\ UNCHANGED <<lists, deceased, steal_request, steal_response, count, peer,
                 exceptions, round>>

(* unblock_steal_requests(id), then compute_threshold(id).                 *)
LeaveRound(t) ==
  /\ Transition(t, "leave", "compete")
  /\ steal_request' = [steal_request EXCEPT ![t] = NoStealRequest]
  /\ UNCHANGED <<lists, deceased, steal_response, count, peer, exceptions, round>>

(* All threads compete: the root's winner resets the counter (td->reset()) *)
(* and everyone gets the threshold, which either starts a round or ends    *)
(* the simulation.  What each thread does next is its own step.            *)
RoundOver ==
  /\ \A t \in Threads : pc[t] = "compete"
  /\ reset
  /\ \/ /\ round < MaxRounds
        /\ round' = round + 1
        /\ pc' = [t \in Threads |-> "start"]
     \/ /\ pc' = [t \in Threads |-> "left"]
        /\ UNCHANGED round
  /\ UNCHANGED <<lists, deceased, steal_request, steal_response, peer, exceptions>>

Crashed == \E t \in Threads : pc[t] = "crashed"

(* The simulation has ended (every thread is at the phases barrier), or    *)
(* the process has died.                                                   *)
Finished ==
  /\ Crashed \/ \A t \in Threads : pc[t] = "left"
  /\ UNCHANGED vars

Owner(t) ==
  \/ StartRound(t) \/ SetActive(t) \/ NextContext(t) \/ TransferNothing(t)
  \/ Transfer(t) \/ Respond(t) \/ Reenable(t) \/ Execute(t) \/ Throw(t)
  \/ Exhausted(t) \/ SetInactive(t) \/ Block(t) \/ BlockFails(t)
  \/ Refuse(t) \/ Seal(t)

Thief(t) ==
  \/ ChooseVictim(t) \/ ResetResponse(t) \/ Declare(t) \/ Request(t)
  \/ LoadResponse(t) \/ ProbeVictim(t) \/ Cancel(t) \/ Withdraw(t)
  \/ Take(t) \/ TakeNull(t) \/ ReportAlive(t) \/ Unblock(t)
  \/ CheckTermination(t) \/ LeaveRound(t)

Step(t) == ~Crashed /\ (Owner(t) \/ Thief(t))

Next == (\E t \in Threads : Step(t)) \/ RoundOver \/ Finished

Spec == Init /\ [][Next]_vars

(* The operating system runs every thread, execute_until() returns.        *)
FairSpec == Spec /\ (\A t \in Threads : WF_vars(Step(t))) /\ WF_vars(RoundOver)

-----------------------------------------------------------------------------
(* Properties.                                                             *)

Labels ==
  {"start", "activate", "next", "transfer", "respond", "reenable", "execute",
   "inactivate", "block", "refuse", "seal", "steal", "reset", "declare",
   "request", "wait", "probe", "cancel", "withdraw", "take", "alive",
   "unblock", "check", "leave", "compete", "left", "crashed"}

(* Every variable has the type of the field or local it stands for.        *)
TypeOK ==
  /\ pc \in [Threads -> Labels]
  /\ local \in [Threads -> SUBSET Contexts]
  /\ committed \in [Threads -> SUBSET Contexts]
  /\ steal_free_list \in [Threads -> [Threads -> SUBSET Contexts]]
  /\ deceased \in [Threads -> BOOLEAN]
  /\ steal_request \in [Threads -> Threads \cup {NoStealRequest}]
  /\ steal_response \in [Threads -> Threads \cup {NoStealResponse, Null}]
  /\ count \in Int
  /\ peer \in [Threads -> Threads \cup {Null}]
  /\ exceptions \in [Threads -> BOOLEAN]
  /\ round \in 1..MaxRounds

(* Between a set_active() and the next set_inactive() of the thread.       *)
ActiveLabels ==
  {"next", "transfer", "respond", "reenable", "execute", "inactivate",
   "request", "wait", "probe", "cancel", "withdraw", "take", "alive",
   "unblock", "crashed"}

InactiveThreads == {t \in Threads : pc[t] \notin ActiveLabels}

(* termination_detection_barrier.hpp:49-50: at any time the counter equals *)
(* the number of inactive threads.  Every path through attempt_steal(),    *)
(* handle_exception() and the round's reset has to keep the calls paired;  *)
(* in particular the unsigned counter never wraps.                         *)
CountIsInactive == count = Cardinality(InactiveThreads)

Apart(f, g) == \A t, u \in Threads : f[t] \cap g[u] = {}

(* A context is at every moment in exactly one intrusive list: a context   *)
(* has a single hook, being in two lists would corrupt both, being in none *)
(* would make it unreachable.                                              *)
OneList ==
  /\ \A c \in Contexts :
       \/ \E t \in Threads : c \in local[t] \/ c \in committed[t]
       \/ \E v, t \in Threads : c \in steal_free_list[v][t]
  /\ \A t, u \in Threads : t # u => local[t] \cap local[u] = {}
  /\ \A t, u \in Threads : t # u => committed[t] \cap committed[u] = {}
  /\ \A v, t, w, u \in Threads : <<v, t>> # <<w, u>> =>
       steal_free_list[v][t] \cap steal_free_list[w][u] = {}
  /\ Apart(local, committed)
  /\ \A v \in Threads : Apart(local, steal_free_list[v])
  /\ \A v \in Threads : Apart(committed, steal_free_list[v])

(* From block_steal_requests() to unblock_steal_requests().                *)
BlockedLabels ==
  {"steal", "reset", "declare", "request", "wait", "probe", "cancel",
   "withdraw", "take", "alive", "unblock", "check", "leave", "crashed"}

(* A thread without work is blocked: no late cancellation by a thief whose *)
(* request was refused re-opens the slot (engine.hpp:777-785), so nobody   *)
(* waits for an answer a thief would never look at its slot to give.       *)
ThiefIsBlocked == \A t \in Threads : pc[t] \in BlockedLabels => steal_request[t] = t

(* While a victim answers a thief, that thief's identity stays in the      *)
(* slot: the plain store that re-enables requests (engine.hpp:862) never   *)
(* wipes out the request of another thread.                                *)
AnswerInPlace ==
  \A t \in Threads : pc[t] \in {"transfer", "respond", "reenable"} =>
    /\ peer[t] \in Threads \ {t}
    /\ steal_request[t] = peer[t]

(* Once its execution has begun a context stays with the thread that runs  *)
(* it until the next round, so no round executes a context twice: the      *)
(* context is out of reach of handle_steal_request() (engine.hpp:626-628). *)
AtMostOncePerRound ==
  [][\A t \in Threads : committed[t] \subseteq committed'[t] \/ pc[t] = "start"]_vars

AllCompete == \A t \in Threads : pc[t] = "compete"

(* Every round ends: the threads do not keep each other active with futile *)
(* steal attempts (engine.hpp:711-717) and no thief waits for ever for a   *)
(* victim that has left (unless the process has died, see TakeNull).       *)
RoundTerminates ==
  (\E t \in Threads : pc[t] = "start") ~> (AllCompete \/ Crashed)

-----------------------------------------------------------------------------
(* What the comments say and the code does not do.                         *)

(* engine.hpp:592-593: run_work_stealing_scheduler() is called "to execute *)
(* all the contexts": when the round is over all of them are committed.    *)
AllContextsExecuted ==
  AllCompete => UNION {committed[t] : t \in Threads} = Contexts

(* engine.hpp:761: wait_steal_response() returns true "if we got a         *)
(* response": the list attempt_steal() then splices from is there.         *)
ResponseStaysValid ==
  \A t \in Threads : pc[t] = "take" => steal_response[t] \in Threads

(* engine.hpp:572-574: after an exception "we need to inform all worker    *)
(* threads"; handle_exception() (965-966) leaves "the notification of the  *)
(* exception that occurred to the tournament tree phase".                  *)
ExceptionEndsSimulation ==
  (\E t \in Threads : exceptions[t]) ~> (\A t \in Threads : pc[t] = "left")
=============================================================================
