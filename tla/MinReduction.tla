---------------------------- MODULE MinReduction ----------------------------
(***************************************************************************)
(* What concurrent/tournament_tree.hpp promises to the worker threads that *)
(* call compete(id, item, exit_callback) once per round                    *)
(* (tournament_tree.hpp:499-506, engine.hpp:932-946): everybody gets the   *)
(* smallest of the items of this round, nobody before all have competed,   *)
(* and the exit callback runs once per round, when the winner is known and *)
(* before anyone has been told.                                            *)
(***************************************************************************)
EXTENDS Integers

CONSTANTS
  Participants,
  Keys          \* a nonempty set of integers

VARIABLES
  state,    \* "in" during a call of compete(), "out" otherwise
  value,    \* the item during a call, what the last call returned otherwise
  outcome,  \* the result of the last round that was decided
  pending   \* who has not returned from that round

vars == <<state, value, outcome, pending>>

Init ==
  /\ state = [p \in Participants |-> "out"]
  /\ value \in [Participants -> Keys]
  /\ outcome \in Keys
  /\ pending = {}

Enter(p) ==
  /\ state[p] = "out"
  /\ state' = [state EXCEPT ![p] = "in"]
  /\ \E k \in Keys : value' = [value EXCEPT ![p] = k]
  /\ UNCHANGED <<outcome, pending>>

(* The winner is determined; the exit callback is part of this step.       *)
Decide ==
  /\ pending = {}
  /\ \A p \in Participants : state[p] = "in"
  /\ \E w \in Participants :
       /\ \A p \in Participants : value[w] <= value[p]
       /\ outcome' = value[w]
  /\ pending' = Participants
  /\ UNCHANGED <<state, value>>

Leave(p) ==
  /\ p \in pending
  /\ state' = [state EXCEPT ![p] = "out"]
  /\ value' = [value EXCEPT ![p] = outcome]
  /\ pending' = pending \ {p}
  /\ UNCHANGED outcome

Next == Decide \/ \E p \in Participants : Enter(p) \/ Leave(p)

Spec == Init /\ [][Next]_vars

(* A round everybody takes part in is decided, and everybody returns.      *)
RoundsEnd ==
  pending # {} \/ (\A p \in Participants : state[p] = "in")
    ~> pending = {} /\ \E p \in Participants : state[p] = "out"
=============================================================================
