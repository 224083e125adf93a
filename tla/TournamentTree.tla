--------------------------- MODULE TournamentTree ---------------------------
(***************************************************************************)
(* concurrent/tournament_tree.hpp: the global reduction between two rounds.*)
(* N participants compete in a tree of N-1 match nodes, numbered 1..N-1;   *)
(* at each node two of them meet.  The winner goes up, the loser waits at  *)
(* the node; from the root the winning value comes down again.             *)
(*                                                                         *)
(* Every load and store is a step of its own, the plain (non-atomic) ones  *)
(* too: DataRaceFree says that those are never concurrent.  The            *)
(* acquire/release orderings then make the interleaving below exact.       *)
(***************************************************************************)
EXTENDS Integers

CONSTANTS
  N,          \* num_participants
  Keys,       \* the values participants compete with
  MaxRounds   \* bound on the calls of compete() per participant

ASSUME TreeAssumption ==
  /\ N \in Nat /\ N >= 2          \* the constructor throws otherwise (446-448)
  /\ Keys \subseteq Int /\ Keys # {}
  /\ MaxRounds \in Nat

Participants == 0..(N - 1)
Nodes == 1..(N - 1)
Root == 1

VARIABLES
  pc,             \* where each participant is in compete()
  level,          \* its level, 1 at the lowest node it takes part in
  key,            \* the argument item
  compete_result, \* what it will return
  calls,          \* how often it has called compete() (bounds the model)
  item,           \* item[node][index], not atomic
  arrived,        \* arrived[node][index]
  winning_value,  \* winning_value[node], not atomic
  done,           \* done[node]
  callbacks       \* how often the exit callback has run

vars == <<pc, level, key, compete_result, calls, item, arrived, winning_value,
          done, callbacks>>

-----------------------------------------------------------------------------
(* compete() starts from the leaf id + num_participants.                   *)
initial_id(p) == p + N

node_id_at_level(p, k) == initial_id(p) \div (2^k)

(* Mutant: the index at every level taken from the leaf (705-714).         *)
IndexOfLeaf(p, k) == initial_id(p) % 2

(* p_id: which side of its match at level k a participant is on.           *)
index_at_level(p, k) == node_id_at_level(p, k - 1) % 2

(* The node participant p is at, its index there and its opponent's.       *)
Node(p)   == node_id_at_level(p, level[p])
Index(p)  == index_at_level(p, level[p])
Other(p)  == 1 - Index(p)

(* Mutant: no index to decide between equal keys (98-99).                  *)
CompareWithoutIndex(a, i, b, j) == a < b \/ ~(b < a)

(* tie_compare: smaller key, the index decides between equals.             *)
tie_compare(a, i, b, j) == a < b \/ (~(b < a) /\ i < j)

Wins(p) == tie_compare(item[Node(p)][Index(p)], Index(p),
                       item[Node(p)][Other(p)], Other(p))

(* What a value never written holds; no one reads it.                      *)
Unset == CHOOSE k \in Keys : TRUE

Init ==
  /\ pc = [p \in Participants |-> "out"]
  /\ level = [p \in Participants |-> 1]
  /\ key = [p \in Participants |-> Unset]
  /\ compete_result = key
  /\ calls = [p \in Participants |-> 0]
  /\ item = [m \in Nodes |-> [i \in {0, 1} |-> Unset]]
  /\ arrived = [m \in Nodes |-> [i \in {0, 1} |-> FALSE]]
  /\ winning_value = [m \in Nodes |-> Unset]
  /\ done = [m \in Nodes |-> FALSE]
  /\ callbacks = 0

Goto(p, from, to) ==
  /\ pc[p] = from
  /\ pc' = [pc EXCEPT ![p] = to]

-----------------------------------------------------------------------------
(* Mutants: the bugs the properties below are there to catch.              *)

(* compete() does not wait for done to become false (173-178).             *)
GateOpen(p) ==
  /\ Goto(p, "gate", "deposit")
  /\ UNCHANGED <<level, key, compete_result, calls, item, arrived,
                 winning_value, done, callbacks>>

(* A winner of the root goes on upwards (646).                             *)
ComparePastRoot(p) ==
  /\ \/ /\ ~Wins(p)
        /\ Goto(p, "compare", "wait")
        /\ UNCHANGED level
     \/ /\ Wins(p)
        /\ Goto(p, "compare", "gate")
        /\ level' = [level EXCEPT ![p] = @ + 1]
  /\ UNCHANGED <<key, compete_result, calls, item, arrived, winning_value,
                 done, callbacks>>

(* done is not atomic and its load is hoisted out of the loop.             *)
WaitHoisted(p) == pc[p] = "wait" /\ UNCHANGED vars

-----------------------------------------------------------------------------
(* Competition phase: match::compete() at each node.                       *)

Enter(p) ==
  /\ calls[p] < MaxRounds
  /\ Goto(p, "out", "gate")
  /\ calls' = [calls EXCEPT ![p] = @ + 1]
  /\ level' = [level EXCEPT ![p] = 1]
  /\ \E k \in Keys : key' = [key EXCEPT ![p] = k]
  /\ UNCHANGED <<compete_result, item, arrived, winning_value, done, callbacks>>

(* Wait for the previous round to end.                                     *)
Gate(p) ==
  /\ Goto(p, "gate", "deposit")
  /\ ~done[Node(p)]
  /\ UNCHANGED <<level, key, compete_result, calls, item, arrived,
                 winning_value, done, callbacks>>

Deposit(p) ==
  /\ Goto(p, "deposit", "announce")
  /\ item' = [item EXCEPT ![Node(p)][Index(p)] = key[p]]
  /\ UNCHANGED <<level, key, compete_result, calls, arrived, winning_value,
                 done, callbacks>>

Announce(p) ==
  /\ Goto(p, "announce", "meet")
  /\ arrived' = [arrived EXCEPT ![Node(p)][Index(p)] = TRUE]
  /\ UNCHANGED <<level, key, compete_result, calls, item, winning_value, done,
                 callbacks>>

(* Wait for the opponent.                                                  *)
Meet(p) ==
  /\ Goto(p, "meet", "compare")
  /\ arrived[Node(p)][Other(p)]
  /\ UNCHANGED <<level, key, compete_result, calls, item, arrived,
                 winning_value, done, callbacks>>

(* A winner goes up, or has won the tournament; a loser waits.             *)
Compare(p) ==
  /\ \/ /\ ~Wins(p)
        /\ Goto(p, "compare", "wait")
        /\ UNCHANGED level
     \/ /\ Wins(p)
        /\ Node(p) = Root
        /\ Goto(p, "compare", "callback")
        /\ UNCHANGED level
     \/ /\ Wins(p)
        /\ Node(p) # Root
        /\ Goto(p, "compare", "gate")
        /\ level' = [level EXCEPT ![p] = @ + 1]
  /\ UNCHANGED <<key, compete_result, calls, item, arrived, winning_value,
                 done, callbacks>>

-----------------------------------------------------------------------------
(* Computation phase.                                                      *)

(* The sole winner: exit_callback(), then winning_value = item.            *)
Callback(p) ==
  /\ Goto(p, "callback", "notify")
  /\ callbacks' = callbacks + 1
  /\ compete_result' = [compete_result EXCEPT ![p] = key[p]]
  /\ winning_value' = [winning_value EXCEPT ![Node(p)] = key[p]]
  /\ UNCHANGED <<level, key, calls, item, arrived, done>>

(* match::wait(): wait for the winner to come back ...                     *)
Wait(p) ==
  /\ Goto(p, "wait", "read")
  /\ done[Node(p)]
  /\ UNCHANGED <<level, key, compete_result, calls, item, arrived,
                 winning_value, done, callbacks>>

(* ... read the winning value ...                                          *)
ReadValue(p) ==
  /\ Goto(p, "read", "reset_own")
  /\ compete_result' = [compete_result EXCEPT ![p] = winning_value[Node(p)]]
  /\ UNCHANGED <<level, key, calls, item, arrived, winning_value, done, callbacks>>

(* ... clean up for both ...                                               *)
ResetOwn(p) ==
  /\ Goto(p, "reset_own", "reset_other")
  /\ arrived' = [arrived EXCEPT ![Node(p)][Index(p)] = FALSE]
  /\ UNCHANGED <<level, key, compete_result, calls, item, winning_value, done,
                 callbacks>>

ResetOther(p) ==
  /\ Goto(p, "reset_other", "reopen")
  /\ arrived' = [arrived EXCEPT ![Node(p)][Other(p)] = FALSE]
  /\ UNCHANGED <<level, key, compete_result, calls, item, winning_value, done,
                 callbacks>>

(* Continue below this node, or return from compete().                     *)
GoDown(p, from) ==
  \/ /\ level[p] > 1
     /\ Goto(p, from, "publish")
     /\ level' = [level EXCEPT ![p] = @ - 1]
  \/ /\ level[p] = 1
     /\ Goto(p, from, "out")
     /\ UNCHANGED level

(* ... and enable the next round.                                          *)
Reopen(p) ==
  /\ GoDown(p, "reopen")
  /\ done' = [done EXCEPT ![Node(p)] = FALSE]
  /\ UNCHANGED <<key, compete_result, calls, item, arrived, winning_value,
                 callbacks>>

-----------------------------------------------------------------------------
(* Distribution phase: set_winning_value() at the nodes below.             *)

Publish(p) ==
  /\ Goto(p, "publish", "notify")
  /\ winning_value' = [winning_value EXCEPT ![Node(p)] = compete_result[p]]
  /\ UNCHANGED <<level, key, compete_result, calls, item, arrived, done, callbacks>>

(* Mutant: the winner resets its own flag when it comes back (180-186).    *)
NotifyResetting(p) ==
  /\ GoDown(p, "notify")
  /\ done' = [done EXCEPT ![Node(p)] = TRUE]
  /\ arrived' = [arrived EXCEPT ![Node(p)][Index(p)] = FALSE]
  /\ UNCHANGED <<key, compete_result, calls, item, winning_value, callbacks>>

Notify(p) ==
  /\ GoDown(p, "notify")
  /\ done' = [done EXCEPT ![Node(p)] = TRUE]
  /\ UNCHANGED <<key, compete_result, calls, item, arrived, winning_value,
                 callbacks>>

(* All participants have made all their calls.                             *)
Finished ==
  /\ \A p \in Participants : pc[p] = "out" /\ calls[p] = MaxRounds
  /\ UNCHANGED vars

Step(p) ==
  \/ Gate(p) \/ Deposit(p) \/ Announce(p) \/ Meet(p) \/ Compare(p)
  \/ Callback(p) \/ Wait(p) \/ ReadValue(p) \/ ResetOwn(p) \/ ResetOther(p)
  \/ Reopen(p) \/ Publish(p) \/ Notify(p)

Next == (\E p \in Participants : Enter(p) \/ Step(p)) \/ Finished

Spec == Init /\ [][Next]_vars

(* The operating system runs every participant that has called compete().  *)
FairSpec == Spec /\ \A p \in Participants : WF_vars(Step(p))

-----------------------------------------------------------------------------
(* Properties.                                                             *)

Labels ==
  {"out", "gate", "deposit", "announce", "meet", "compare", "callback", "wait",
   "read", "reset_own", "reset_other", "reopen", "publish", "notify"}

(* Every participant is at a label of the program and at a match node of   *)
(* the tree: the arithmetic on node ids never leaves the array, however    *)
(* far N is from a power of two.                                           *)
TypeOK ==
  /\ pc \in [Participants -> Labels]
  /\ level \in [Participants -> 1..N]
  /\ \A p \in Participants : Node(p) \in Nodes
  /\ key \in [Participants -> Keys]
  /\ compete_result \in [Participants -> Keys]
  /\ calls \in [Participants -> 0..MaxRounds]
  /\ item \in [Nodes -> [{0, 1} -> Keys]]
  /\ arrived \in [Nodes -> [{0, 1} -> BOOLEAN]]
  /\ winning_value \in [Nodes -> Keys]
  /\ done \in [Nodes -> BOOLEAN]
  /\ callbacks \in 0..MaxRounds

(* The slots <<node, index>> participant p occupies: one per level it has  *)
(* reached and not yet come back through, the next one it waits to enter   *)
(* included.                                                               *)
Occupied(p) ==
  {<<node_id_at_level(p, k), index_at_level(p, k)>> :
     k \in {l \in 1..level[p] : pc[p] # "out"}}

(* No two participants take the same side of a match: the winner's place   *)
(* in the next round may be another participant's (392), but only after    *)
(* this one has gone down past it.                                         *)
OnePerSlot ==
  \A p, q \in Participants : p # q => Occupied(p) \cap Occupied(q) = {}

(* The plain accesses: item[] is written at "deposit" and read at          *)
(* "compare", winning_value is written at "callback" and "publish" and     *)
(* read at "read".                                                         *)
Conflict(a, b) ==
  \/ a = "deposit" /\ b = "compare"
  \/ a \in {"callback", "publish"} /\ b \in {"callback", "publish", "read"}

(* Two participants are never about to make conflicting plain accesses to  *)
(* the same node: the orderings on arrived[] and done suffice (188-265).   *)
DataRaceFree ==
  \A p, q \in Participants :
    p # q /\ Conflict(pc[p], pc[q]) => Node(p) # Node(q)

(* A participant at a loop whose condition nobody has made true yet.       *)
Blocked(p) ==
  \/ pc[p] = "gate" /\ done[Node(p)]
  \/ pc[p] = "meet" /\ ~arrived[Node(p)][Other(p)]
  \/ pc[p] = "wait" /\ ~done[Node(p)]

Pending == {p \in Participants : pc[p] # "out" /\ calls[p] = callbacks}

(* The participants never all wait for each other: when everybody is in    *)
(* compete() somebody is not blocked, and of those whose round has been    *)
(* decided one is not, whether or not the others ever call again: nobody   *)
(* needs the next round to return from this one.                           *)
SomebodyMoves ==
  /\ (\A p \in Participants : pc[p] # "out") => \E p \in Participants : ~Blocked(p)
  /\ Pending # {} => \E p \in Pending : ~Blocked(p)

(* The abstract reduction this implements: a participant is pending when   *)
(* it takes part in the last round whose callback has run.                 *)
Reduction == INSTANCE MinReduction WITH
  state   <- [p \in Participants |-> IF pc[p] = "out" THEN "out" ELSE "in"],
  value   <- [p \in Participants |->
                IF pc[p] = "out" THEN compete_result[p] ELSE key[p]],
  outcome <- winning_value[Root],
  pending <- Pending

(* Every participant gets the minimum over the items of its own round,     *)
(* after all have competed and after the only call of the exit callback.   *)
ComputesMinimum == Reduction!Spec

(* Every call everybody joins returns at every participant.                *)
AlwaysReturns == Reduction!RoundsEnd
=============================================================================
