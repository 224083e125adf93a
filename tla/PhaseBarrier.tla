---------------------------- MODULE PhaseBarrier ----------------------------
(***************************************************************************)
(* What phases_meet_point promises (engine.hpp:326-334): the participants  *)
(* meet again and again, and nobody leaves a meeting before everybody has  *)
(* come to it.  SimpleBarrier implements it.                               *)
(***************************************************************************)
EXTENDS Integers

CONSTANT Participants

VARIABLES
  crossings,  \* how many meetings each participant has left
  inside      \* the participants that have come and not left yet

vars == <<crossings, inside>>

Init ==
  /\ crossings = [p \in Participants |-> 0]
  /\ inside = {}

Come(p) ==
  /\ p \notin inside
  /\ inside' = inside \cup {p}
  /\ UNCHANGED crossings

(* The others are here too, or have been and left.                         *)
Leave(p) ==
  /\ p \in inside
  /\ \A q \in Participants :
       crossings[q] > crossings[p] \/ (crossings[q] = crossings[p] /\ q \in inside)
  /\ inside' = inside \ {p}
  /\ crossings' = [crossings EXCEPT ![p] = @ + 1]

Next == \E p \in Participants : Come(p) \/ Leave(p)

Spec == Init /\ [][Next]_vars
=============================================================================
