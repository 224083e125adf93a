----------------------- MODULE TournamentTree_proofs -----------------------
(***************************************************************************)
(* The tournament tree, for any number of participants, keys and rounds.   *)
(***************************************************************************)
EXTENDS TournamentTree, FiniteSetTheorems, WellFoundedInduction, TLAPS

-----------------------------------------------------------------------------
(* Numbers.                                                                *)

(* The powers of two, as the numbers of subsets.                           *)
LEMMA PowerOfTwo ==
  ASSUME NEW k \in Nat
  PROVE  2^k \in Nat /\ 2^(k + 1) = 2 * 2^k
<1> DEFINE A == SUBSET (1..k)
           F == [T \in A |-> T \cup {k + 1}]
           B == {T \cup {k + 1} : T \in A}
<1>1. /\ IsFiniteSet(1..k) /\ Cardinality(1..k) = k
      /\ IsFiniteSet(1..(k + 1)) /\ Cardinality(1..(k + 1)) = k + 1
  BY FS_Interval
<1>2. IsFiniteSet(A) /\ Cardinality(A) = 2^k
  BY <1>1, FS_SUBSET
<1>3. Cardinality(SUBSET (1..(k + 1))) = 2^(k + 1)
  BY <1>1, FS_SUBSET
<1>4. IsFiniteSet(B) /\ Cardinality(B) = Cardinality(A)
  <2>1. \A T \in A : k + 1 \notin T
    OBVIOUS
  <2>2. F \in [A -> B]
    OBVIOUS
  <2>3. \A S, T \in A : F[S] = F[T] => S = T
    <3> SUFFICES ASSUME NEW S \in A, NEW T \in A, S \cup {k + 1} = T \cup {k + 1}
                 PROVE  S = T
      OBVIOUS
    <3> QED
      BY <2>1
  <2>4. \A U \in B : \E T \in A : F[T] = U
    OBVIOUS
  <2>5. F \in Bijection(A, B)
    <3> HIDE DEF A, B, F
    <3> QED
      BY <2>2, <2>3, <2>4 DEF Bijection, Injection, Surjection, IsInjective
  <2>6. ExistsBijection(A, B)
    BY <2>5 DEF ExistsBijection
  <2> QED
    BY <2>6, <1>2, FS_Bijection
<1>5. SUBSET (1..(k + 1)) = A \cup B
  <2>1. 1..(k + 1) = (1..k) \cup {k + 1}
    OBVIOUS
  <2>2. ASSUME NEW T \in SUBSET (1..(k + 1)) PROVE T \in A \cup B
    <3>1. CASE k + 1 \notin T
      BY <3>1, <2>1
    <3>2. CASE k + 1 \in T
      <4>1. T \ {k + 1} \in A /\ T = (T \ {k + 1}) \cup {k + 1}
        BY <3>2, <2>1
      <4> QED
        BY <4>1
    <3> QED
      BY <3>1, <3>2
  <2>3. ASSUME NEW T \in A \cup B PROVE T \in SUBSET (1..(k + 1))
    BY <2>1
  <2> QED
    BY <2>2, <2>3
<1>6. A \cap B = {}
  OBVIOUS
<1>7. Cardinality(A \cup B) = Cardinality(A) + Cardinality(B)
  <2>1. Cardinality(A \cup B) = Cardinality(A) + Cardinality(B) - Cardinality(A \cap B)
    BY <1>2, <1>4, FS_Union
  <2>2. Cardinality(A \cap B) = 0
    BY <1>6, FS_EmptySet
  <2>3. Cardinality(A) \in Nat /\ Cardinality(B) \in Nat
    BY <1>2, <1>4, FS_CardinalityType
  <2> QED
    BY <2>1, <2>2, <2>3
<1>8. 2^k \in Nat
  BY <1>2, FS_CardinalityType
<1> QED
  <2>1. 2^(k + 1) = 2^k + 2^k
    BY <1>2, <1>3, <1>4, <1>5, <1>7
  <2> HIDE DEF A, F, B
  <2> QED
    BY <2>1, <1>8

(* Shifting once more is halving the quotient.                             *)
LEMMA HalfOfQuotient ==
  ASSUME NEW x \in Nat, NEW d \in Nat, d > 0
  PROVE  x \div (2 * d) = (x \div d) \div 2
<1> DEFINE q == x \div d
           h == q \div 2
<1>1. q \in Nat /\ q * d <= x /\ x < (q + 1) * d
  OBVIOUS
<1>2. h \in Nat /\ 2 * h <= q /\ q + 1 <= 2 * h + 2
  BY <1>1
<1> HIDE DEF q, h
<1>3. h * (2 * d) <= x
  <2>1. (2 * h) * d <= q * d
    BY <1>1, <1>2
  <2> QED
    BY <2>1, <1>1, <1>2
<1>4. x < (h + 1) * (2 * d)
  <2>1. (q + 1) * d <= (2 * h + 2) * d
    BY <1>1, <1>2
  <2> QED
    BY <2>1, <1>1, <1>2
<1>5. x \div (2 * d) = h
  BY <1>2, <1>3, <1>4
<1> QED
  BY <1>5 DEF q, h

LEMMA PowersGrow ==
  ASSUME NEW j \in Nat, NEW k \in Nat, j < k
  PROVE  /\ 2^j \in Nat /\ 2^k \in Nat
         /\ 2^j > 0
         /\ 2 * 2^j <= 2^k
<1>1. /\ IsFiniteSet(1..j) /\ Cardinality(1..j) = j
      /\ IsFiniteSet(1..(j + 1)) /\ Cardinality(1..(j + 1)) = j + 1
      /\ IsFiniteSet(1..k) /\ Cardinality(1..k) = k
  BY FS_Interval
<1>2. /\ IsFiniteSet(SUBSET (1..k)) /\ Cardinality(SUBSET (1..k)) = 2^k
      /\ Cardinality(SUBSET (1..(j + 1))) = 2^(j + 1)
      /\ IsFiniteSet(SUBSET (1..j)) /\ Cardinality(SUBSET (1..j)) = 2^j
  BY <1>1, FS_SUBSET
<1>3. SUBSET (1..(j + 1)) \subseteq SUBSET (1..k)
  <2>1. 1..(j + 1) \subseteq 1..k
    OBVIOUS
  <2> QED
    BY <2>1
<1>4. 2^(j + 1) <= 2^k
  BY <1>2, <1>3, FS_Subset
<1>5. 2^j # 0
  <2>1. SUBSET (1..j) # {}
    OBVIOUS
  <2> QED
    BY <1>2, <2>1, FS_EmptySet
<1> QED
  BY <1>4, <1>5, PowerOfTwo

(* Induction, as the least element of a set of numbers.                    *)
LEMMA LeastNat ==
  ASSUME NEW T, T \subseteq Nat, T # {}
  PROVE  \E x \in T : \A y \in T : ~(y < x)
<1>1. IsWellFoundedOn(OpToRel(<, Nat), Nat)
  BY NatLessThanWellFounded
<1>2. \E x \in T : \A y \in T : ~(<<y, x>> \in OpToRel(<, Nat))
  BY <1>1, WFMin
<1>3. \A x, y \in T : y < x => <<y, x>> \in OpToRel(<, Nat)
  BY DEF OpToRel
<1> QED
  BY <1>2, <1>3

-----------------------------------------------------------------------------
(* The way from a leaf to the root, for any number of participants: it     *)
(* halves the node id, stays in the array and reaches the root.            *)

LEMMA Path ==
  ASSUME NEW p \in Participants
  PROVE  /\ node_id_at_level(p, 0) = p + N
         /\ \A k \in Nat : node_id_at_level(p, k) \in Nat
         /\ \A k \in Nat :
              node_id_at_level(p, k + 1) = node_id_at_level(p, k) \div 2
         /\ \A j, k \in Nat : j < k /\ node_id_at_level(p, k) >= 1
              => node_id_at_level(p, k) < node_id_at_level(p, j)
<1> DEFINE x == p + N
<1>1. x \in Nat
  BY TreeAssumption DEF Participants
<1>2. ASSUME NEW k \in Nat
      PROVE  2^k \in Nat /\ 2^k > 0 /\ 2^(k + 1) = 2 * 2^k
  BY PowersGrow, k < k + 1, PowerOfTwo
<1>3. ASSUME NEW k \in Nat PROVE x \div (2^k) \in Nat
  BY <1>1, <1>2
<1>4. ASSUME NEW k \in Nat PROVE x \div (2^(k + 1)) = (x \div (2^k)) \div 2
  BY <1>1, <1>2, HalfOfQuotient
<1>5. ASSUME NEW j \in Nat, NEW k \in Nat, j < k, x \div (2^k) >= 1
      PROVE  x \div (2^k) < x \div (2^j)
  <2> DEFINE d == 2^j
             e == 2^k
             q == x \div e
             r == x \div d
  <2>1. d \in Nat /\ e \in Nat /\ d > 0 /\ 2 * d <= e
    BY <1>5, PowersGrow
  <2> HIDE DEF d, e
  <2>2. q \in Nat /\ q >= 1 /\ q * e <= x
    BY <1>5, <1>1, <2>1 DEF d, e
  <2>3. r \in Nat /\ x < (r + 1) * d
    BY <1>1, <2>1
  <2> HIDE DEF q, r, x
  <2>4. q * (2 * d) <= q * e
    BY <2>1, <2>2
  <2>5. (2 * q) * d < (r + 1) * d
    BY <2>1, <2>2, <2>3, <2>4, <1>1
  <2>6. 2 * q < r + 1
    BY <2>1, <2>2, <2>3, <2>5
  <2>7. q < r
    BY <2>2, <2>3, <2>6
  <2> QED
    BY <2>7 DEF q, r, d, e
<1>6. x \div (2^0) = x
  BY <1>1
<1> QED
  BY <1>3, <1>4, <1>5, <1>6 DEF node_id_at_level, initial_id

(* Two participants that come to a node from different sides.              *)
LEMMA Sides ==
  ASSUME NEW p \in Participants, NEW k \in Nat \ {0}
  PROVE  /\ index_at_level(p, k) \in {0, 1}
         /\ node_id_at_level(p, k) = node_id_at_level(p, k - 1) \div 2
         /\ index_at_level(p, k) = node_id_at_level(p, k - 1) % 2
         /\ node_id_at_level(p, k - 1) \in Nat
         /\ node_id_at_level(p, k - 1) =
              2 * node_id_at_level(p, k) + index_at_level(p, k)
<1>1. k - 1 \in Nat /\ (k - 1) + 1 = k
  OBVIOUS
<1>2. node_id_at_level(p, k) = node_id_at_level(p, k - 1) \div 2
  BY <1>1, Path
<1>3. node_id_at_level(p, k - 1) \in Nat
  BY <1>1, Path
<1>4. ASSUME NEW x \in Nat
      PROVE  (x % 2 = 0 \/ x % 2 = 1) /\ x = 2 * (x \div 2) + (x % 2)
  OBVIOUS
<1>5. index_at_level(p, k) = node_id_at_level(p, k - 1) % 2
  BY DEF index_at_level
<1> QED
  BY <1>2, <1>3, <1>4, <1>5

(* Above the leaves the ids are those of match nodes.                      *)
LEMMA PathInTree ==
  ASSUME NEW p \in Participants, NEW k \in Nat \ {0}, node_id_at_level(p, k) >= 1
  PROVE  node_id_at_level(p, k) \in Nodes /\ k + node_id_at_level(p, k) <= N
<1> DEFINE at(j) == node_id_at_level(p, j)
           T == {j \in Nat \ {0} : at(j) >= 1 /\ j + at(j) > N}
<1> HIDE DEF at
<1>1. at(0) = p + N /\ \A j \in Nat : at(j) \in Nat /\ at(j + 1) = at(j) \div 2
  BY Path DEF at
<1>2. N \in Nat /\ p \in Nat /\ p + 1 <= N
  BY TreeAssumption DEF Participants
<1>3. T = {}
  <2> SUFFICES ASSUME T # {} PROVE FALSE
    OBVIOUS
  <2>1. PICK j \in T : \A i \in T : ~(i < j)
    BY LeastNat
  <2>2. j \in Nat \ {0} /\ at(j) >= 1 /\ j + at(j) > N
    OBVIOUS
  <2>3. j - 1 \in Nat /\ at(j) = at(j - 1) \div 2 /\ at(j - 1) \in Nat
    BY <1>1, <2>2, (j - 1) + 1 = j
  <2>4. CASE j = 1
    <3>1. at(1) = (p + N) \div 2
      BY <1>1, <2>3, <2>4
    <3> QED
      BY <3>1, <1>2, <2>2, <2>4
  <2>5. CASE j # 1
    <3>1. j - 1 \in Nat \ {0} /\ ~(j - 1 \in T)
      BY <2>1, <2>2, <2>5
    <3>2. at(j - 1) >= 2
      BY <2>2, <2>3
    <3>3. (j - 1) + at(j - 1) <= N
      BY <3>1, <3>2, <2>3, <1>2
    <3> QED
      BY <3>2, <3>3, <2>2, <2>3, <1>2
  <2> QED
    BY <2>4, <2>5
<1>4. at(k) \in Nat /\ at(k) >= 1 /\ k + at(k) <= N
  <2>1. at(k) >= 1
    BY DEF at
  <2>2. ~(k + at(k) > N)
    BY <2>1, <1>3
  <2> QED
    BY <2>1, <2>2, <1>1, <1>2
<1> QED
  BY <1>4, <1>2 DEF at, Nodes

(* Whoever is at a leaf's id is the leaf's participant, before level 1.    *)
LEMMA Leaves ==
  ASSUME NEW p \in Participants, NEW q \in Participants, NEW k \in Nat,
         node_id_at_level(q, k) = p + N
  PROVE  k = 0 /\ q = p
<1>1. N \in Nat /\ p \in Nat /\ q \in Nat /\ N >= 2
  BY TreeAssumption DEF Participants
<1>2. CASE k # 0
  BY <1>1, <1>2, PathInTree DEF Nodes
<1>3. CASE k = 0
  <2>1. node_id_at_level(q, 0) = q + N
    BY Path
  <2> QED
    BY <2>1, <1>1, <1>3
<1> QED
  BY <1>2, <1>3

LEMMA RootOnPath ==
  ASSUME NEW p \in Participants
  PROVE  \E k \in 1..N : node_id_at_level(p, k) = Root
<1> DEFINE at(j) == node_id_at_level(p, j)
           T == {n \in Nat \ {0} : \E k \in Nat \ {0} : at(k) = n}
<1> HIDE DEF at
<1>1. at(0) = p + N /\ \A j \in Nat : at(j) \in Nat /\ at(j + 1) = at(j) \div 2
  BY Path DEF at
<1>2. N \in Nat /\ p \in Nat /\ N >= 2
  BY TreeAssumption DEF Participants
<1>3. at(1) \in T
  <2>1. at(0 + 1) = (p + N) \div 2
    BY <1>1
  <2>2. at(1) \in Nat \ {0}
    BY <2>1, <1>2
  <2> QED
    BY <2>2
<1>4. PICK n \in T : \A m \in T : ~(m < n)
  BY <1>3, LeastNat
<1>5. PICK k \in Nat \ {0} : at(k) = n
  OBVIOUS
<1>6. n = 1
  <2> SUFFICES ASSUME n >= 2 PROVE FALSE
    OBVIOUS
  <2>1. at(k + 1) = n \div 2
    BY <1>1, <1>5
  <2>2. n \div 2 \in Nat \ {0} /\ n \div 2 < n
    OBVIOUS
  <2>3. n \div 2 \in T
    BY <2>1, <2>2
  <2> QED
    BY <1>4, <2>2, <2>3
<1>7. k \in 1..N
  BY <1>5, <1>6, <1>2, PathInTree DEF at
<1> QED
  BY <1>5, <1>6, <1>7 DEF at, Root

-----------------------------------------------------------------------------
(* The matches: an inductive invariant about one round at one node.        *)

(* Where a participant is at the levels it has entered: at the highest one *)
(* at its label; the matches below it has won, and not yet come back to.   *)
Stage(p, k) == IF k = level[p] THEN pc[p] ELSE "above"

Holds(p, k) == pc[p] # "out" /\ k \in 1..level[p]

(* What the winner of a match is at, and its loser on the way out.         *)
Above   == {"above", "callback", "publish", "notify"}
Leaving == {"read", "reset_own", "reset_other", "reopen"}

Beats(n, i) == tie_compare(item[n][i], i, item[n][1 - i], 1 - i)

(* What the match node holds for a participant at each stage.              *)
Seat(p, k) ==
  LET n == node_id_at_level(p, k)
      i == index_at_level(p, k)
      s == Stage(p, k)
  IN
  /\ s = "gate" /\ ~done[n] => ~arrived[n][i]
  /\ s \in {"deposit", "announce"} => ~done[n] /\ ~arrived[n][i]
  /\ s \in Above \cup {"meet", "compare", "wait", "read", "reset_own"}
       => arrived[n][i]
  /\ s \in Above \cup {"compare", "wait", "read", "reset_own", "reset_other"}
       => arrived[n][1 - i]
  /\ s \in {"reset_other", "reopen"} => ~arrived[n][i]
  /\ s = "reopen" => ~arrived[n][1 - i]
  /\ s \in Above => ~done[n] /\ Beats(n, i)
  /\ s \in Leaving => done[n]
  /\ s \in Leaving \cup {"wait"} => ~Beats(n, i)
  /\ s \in {"meet", "compare"} /\ done[n] => arrived[n][1 - i] /\ ~Beats(n, i)
  /\ s \in Above \cup {"announce", "meet", "compare", "wait"} => item[n][i] = key[p]

Seats == \A p \in Participants : \A k \in 1..level[p] : Holds(p, k) => Seat(p, k)

(* Nobody shares a side of a match, not even while waiting at its gate.    *)
OneHolder ==
  \A p, q \in Participants : \A k \in 1..level[p], l \in 1..level[q] :
    p # q /\ Holds(p, k) /\ Holds(q, l)
      /\ node_id_at_level(p, k) = node_id_at_level(q, l)
    => index_at_level(p, k) # index_at_level(q, l)

(* During a round a raised flag has somebody behind it.                    *)
Attended ==
  \A n \in Nodes, i \in {0, 1} : arrived[n][i] /\ ~done[n] =>
    \E p \in Participants : \E k \in 1..level[p] :
       Holds(p, k) /\ node_id_at_level(p, k) = n /\ index_at_level(p, k) = i

(* TypeOK without the bound on callbacks, which needs the rounds.          *)
Typed ==
  /\ pc \in [Participants -> Labels]
  /\ level \in [Participants -> 1..N]
  /\ \A p \in Participants : Node(p) \in Nodes
  /\ key \in [Participants -> Keys]
  /\ compete_result \in [Participants -> Keys]
  /\ calls \in [Participants -> 0..MaxRounds]
  /\ item \in [Nodes -> [{0, 1} -> Keys]]
  /\ arrived \in [Nodes -> [{0, 1} -> BOOLEAN]]
  /\ winning_value \in [Nodes -> Keys]
  /\ done \in [Nodes -> BOOLEAN]
  /\ callbacks \in Nat

MatchInv == Typed /\ Seats /\ OneHolder /\ Attended

-----------------------------------------------------------------------------
(* Facts about one state.                                                  *)

(* tie_compare decides every match.                                        *)
LEMMA OneBeats ==
  ASSUME Typed, NEW n \in Nodes, NEW i \in {0, 1}
  PROVE  Beats(n, i) <=> ~Beats(n, 1 - i)
<1> DEFINE a == item[n][i]
           b == item[n][1 - i]
<1>1. 1 - i \in {0, 1} /\ 1 - (1 - i) = i /\ i \in Int
  OBVIOUS
<1>2. a \in Int /\ b \in Int
  <2>1. a \in Keys /\ b \in Keys
    BY <1>1 DEF Typed
  <2> QED
    BY <2>1, TreeAssumption
<1> HIDE DEF a, b
<1>3. tie_compare(a, i, b, 1 - i) <=> ~tie_compare(b, 1 - i, a, i)
  BY <1>1, <1>2 DEF tie_compare
<1> QED
  BY <1>1, <1>3 DEF Beats, a, b

LEMMA Position ==
  ASSUME Typed, NEW p \in Participants, NEW k \in 1..level[p]
  PROVE  /\ level[p] \in 1..N /\ k \in Nat \ {0} /\ level[p] \in Nat \ {0}
         /\ node_id_at_level(p, k) \in Nodes
         /\ index_at_level(p, k) \in {0, 1}
         /\ 1 - index_at_level(p, k) \in {0, 1}
         /\ 1 - (1 - index_at_level(p, k)) = index_at_level(p, k)
         /\ \A l \in 1..level[p] :
              l # k => node_id_at_level(p, l) # node_id_at_level(p, k)
<1>1. N \in Nat
  BY TreeAssumption
<1>2. level[p] \in 1..N /\ k \in Nat \ {0} /\ level[p] \in Nat \ {0}
  BY <1>1 DEF Typed
<1>3. node_id_at_level(p, level[p]) >= 1
  BY <1>1 DEF Typed, Node, Nodes
<1>4. ASSUME NEW l \in 1..level[p]
      PROVE  node_id_at_level(p, l) \in Nodes /\ node_id_at_level(p, l) >= 1
  <2>1. l \in Nat \ {0} /\ (l = level[p] \/ l < level[p])
    BY <1>2
  <2>2. node_id_at_level(p, l) >= 1
    <3>1. CASE l = level[p]
      BY <3>1, <1>3
    <3>2. CASE l < level[p]
      <4>1. node_id_at_level(p, level[p]) < node_id_at_level(p, l)
        BY <3>2, <2>1, <1>2, <1>3, Path
      <4>2. node_id_at_level(p, level[p]) \in Nat /\ node_id_at_level(p, l) \in Nat
        BY <2>1, <1>2, Path
      <4> QED
        BY <4>1, <4>2, <1>3
    <3> QED
      BY <2>1, <3>1, <3>2
  <2> QED
    BY <2>1, <2>2, PathInTree
<1>5. ASSUME NEW l \in 1..level[p], l # k
      PROVE  node_id_at_level(p, l) # node_id_at_level(p, k)
  <2>1. l \in Nat /\ k \in Nat /\ (l < k \/ k < l)
    BY <1>2, <1>5
  <2>2. /\ node_id_at_level(p, l) \in Nat /\ node_id_at_level(p, l) >= 1
        /\ node_id_at_level(p, k) \in Nat /\ node_id_at_level(p, k) >= 1
    BY <2>1, <1>4, Path
  <2>3. \/ node_id_at_level(p, l) < node_id_at_level(p, k)
        \/ node_id_at_level(p, k) < node_id_at_level(p, l)
    BY <2>1, <2>2, Path
  <2> QED
    BY <2>2, <2>3
<1>6. index_at_level(p, k) \in {0, 1}
  BY <1>2, Sides
<1>7. /\ 1 - index_at_level(p, k) \in {0, 1}
      /\ 1 - (1 - index_at_level(p, k)) = index_at_level(p, k)
  BY <1>6
<1> QED
  BY <1>2, <1>4, <1>5, <1>6, <1>7

(* The two participants at a node: where one is tells where the other is.  *)
LEMMA Rivals ==
  ASSUME MatchInv,
         NEW p \in Participants, NEW k \in 1..level[p], Holds(p, k),
         NEW q \in Participants, NEW l \in 1..level[q], Holds(q, l),
         p # q, node_id_at_level(p, k) = node_id_at_level(q, l)
  PROVE  /\ index_at_level(q, l) = 1 - index_at_level(p, k)
         /\ Stage(p, k) \in Above => Stage(q, l) \in {"meet", "compare", "wait"}
         /\ Stage(p, k) \in Leaving => Stage(q, l) = "gate"
         /\ Stage(p, k) = "wait" /\ done[node_id_at_level(p, k)] => Stage(q, l) = "gate"
         /\ Stage(p, k) = "compare" /\ Beats(node_id_at_level(p, k), index_at_level(p, k))
              => ~done[node_id_at_level(p, k)] /\ Stage(q, l) \in {"meet", "compare", "wait"}
         /\ Stage(p, k) \in {"deposit", "announce"}
              => Stage(q, l) \in {"gate", "deposit", "announce", "meet"}
<1> DEFINE n == node_id_at_level(p, k)
           i == index_at_level(p, k)
           s == Stage(p, k)
           t == Stage(q, l)
<1>1. /\ n \in Nodes /\ i \in {0, 1} /\ 1 - i \in {0, 1} /\ 1 - (1 - i) = i
      /\ index_at_level(q, l) \in {0, 1}
  BY Position DEF MatchInv
<1>2. index_at_level(q, l) = 1 - i
  <2>1. index_at_level(q, l) # i
    BY DEF MatchInv, OneHolder
  <2> QED
    BY <2>1, <1>1
<1>3. Seat(p, k) /\ Seat(q, l)
  BY DEF MatchInv, Seats
<1>4. Beats(n, i) <=> ~Beats(n, 1 - i)
  BY <1>1, OneBeats DEF MatchInv
<1>5. s \in Labels \cup {"above"} /\ t \in Labels \cup {"above"} /\ s # "out" /\ t # "out"
  BY DEF MatchInv, Typed, Stage, Holds
<1>6. node_id_at_level(q, l) = n
  OBVIOUS
<1> HIDE DEF n, i, s, t
<1>7. /\ t = "gate" /\ ~done[n] => ~arrived[n][1 - i]
      /\ t \in {"deposit", "announce"} => ~done[n] /\ ~arrived[n][1 - i]
      /\ t \in Above \cup {"compare", "wait"} => arrived[n][i]
      /\ t \in Above => ~done[n] /\ Beats(n, 1 - i)
      /\ t \in Leaving => done[n]
      /\ t \in Leaving \cup {"wait"} => ~Beats(n, 1 - i)
      /\ t \in {"meet", "compare"} /\ done[n] => ~Beats(n, 1 - i)
  BY <1>1, <1>2, <1>3, <1>6 DEF Seat, t
<1>8. /\ s \in {"deposit", "announce"} => ~done[n] /\ ~arrived[n][i]
      /\ s \in Above \cup {"compare", "wait"} => arrived[n][1 - i]
      /\ s \in Above => ~done[n] /\ Beats(n, i)
      /\ s \in Leaving => done[n]
      /\ s \in Leaving \cup {"wait"} => ~Beats(n, i)
      /\ s \in {"meet", "compare"} /\ done[n] => ~Beats(n, i)
  BY <1>3 DEF Seat, n, i, s
<1>9. /\ s \in Above => t \in {"meet", "compare", "wait"}
      /\ s \in Leaving => t = "gate"
      /\ s = "wait" /\ done[n] => t = "gate"
      /\ s = "compare" /\ Beats(n, i) => ~done[n] /\ t \in {"meet", "compare", "wait"}
      /\ s \in {"deposit", "announce"} => t \in {"gate", "deposit", "announce", "meet"}
  BY <1>4, <1>5, <1>7, <1>8 DEF Labels, Above, Leaving
<1> QED
  BY <1>2, <1>9 DEF n, i, s, t

-----------------------------------------------------------------------------
(* One step: only the participant that makes it moves, and only the match  *)
(* node it is at changes.                                                  *)

Elsewhere(p) ==
  /\ \A q \in Participants \ {p} : pc'[q] = pc[q] /\ level'[q] = level[q]
  /\ key' = key
  /\ \A n \in Nodes \ {Node(p)} :
       done'[n] = done[n] /\ arrived'[n] = arrived[n] /\ item'[n] = item[n]

LEMMA SeatFrame ==
  ASSUME NEW p, NEW k, Seat(p, k), Stage(p, k)' = Stage(p, k), key'[p] = key[p],
         done'[node_id_at_level(p, k)] = done[node_id_at_level(p, k)],
         arrived'[node_id_at_level(p, k)] = arrived[node_id_at_level(p, k)],
         item'[node_id_at_level(p, k)] = item[node_id_at_level(p, k)]
  PROVE  Seat(p, k)'
BY DEF Seat, Beats

LEMMA SeatsStep ==
  ASSUME MatchInv, Typed', NEW p \in Participants, pc[p] # "out", Elsewhere(p),
         level'[p] \in {level[p] - 1, level[p], level[p] + 1},
         pc'[p] # "out" => Seat(p, level[p])',
         level'[p] > level[p] => \A k \in 1..level[p] : k = level[p] => Seat(p, k)',
         \A q \in Participants \ {p} : \A l \in 1..level[q] :
           Holds(q, l) /\ node_id_at_level(q, l) = Node(p) => Seat(q, l)'
  PROVE  Seats'
<1> SUFFICES ASSUME NEW q \in Participants, NEW k \in (1..level[q])', Holds(q, k)'
             PROVE  Seat(q, k)'
  BY DEF Seats
<1>1. /\ level[q] \in Nat \ {0} /\ level'[q] \in Nat \ {0} /\ k \in Nat \ {0}
      /\ k <= level'[q] /\ pc'[q] # "out"
  BY TreeAssumption DEF MatchInv, Typed, Holds
<1>2. CASE q = p
  <2>1. CASE k = level'[p]
    BY <1>1, <1>2, <2>1
  <2>2. CASE k # level'[p] /\ k = level[p]
    BY <1>1, <1>2, <2>2
  <2>3. CASE k # level'[p] /\ k # level[p]
    <3>1. k \in 1..level[p] /\ k # level[p] /\ level[p] \in 1..level[p]
      BY <1>1, <1>2, <2>3
    <3>2. Seat(p, k)
      BY <3>1 DEF MatchInv, Seats, Holds
    <3>3. node_id_at_level(p, k) \in Nodes \ {Node(p)}
      BY <3>1, Position DEF MatchInv, Node
    <3>4. Stage(p, k)' = Stage(p, k)
      BY <2>3 DEF Stage
    <3> QED
      BY <1>2, <3>2, <3>3, <3>4, SeatFrame DEF Elsewhere
  <2> QED
    BY <2>1, <2>2, <2>3
<1>3. CASE q # p
  <2>1. pc[q] # "out" /\ k \in 1..level[q] /\ Holds(q, k) /\ Stage(q, k)' = Stage(q, k)
    BY <1>1, <1>3 DEF Elsewhere, Holds, Stage
  <2>2. CASE node_id_at_level(q, k) = Node(p)
    BY <1>3, <2>1, <2>2
  <2>3. CASE node_id_at_level(q, k) # Node(p)
    <3>1. node_id_at_level(q, k) \in Nodes \ {Node(p)}
      BY <2>1, <2>3, Position DEF MatchInv
    <3>2. Seat(q, k)
      BY <2>1 DEF MatchInv, Seats
    <3> QED
      BY <2>1, <3>1, <3>2, SeatFrame DEF Elsewhere
  <2> QED
    BY <2>2, <2>3
<1> QED
  BY <1>2, <1>3

(* Nobody comes to a new node: nobody new on a side.                       *)
LEMMA OneHolderStep ==
  ASSUME MatchInv, Typed',
         \A q \in Participants : pc'[q] # "out" => pc[q] # "out" /\ level'[q] <= level[q]
  PROVE  OneHolder'
<1> SUFFICES ASSUME NEW p \in Participants, NEW q \in Participants, p # q,
                    NEW k \in (1..level[p])', NEW l \in (1..level[q])',
                    Holds(p, k)', Holds(q, l)',
                    node_id_at_level(p, k) = node_id_at_level(q, l)
             PROVE  index_at_level(p, k) # index_at_level(q, l)
  BY DEF OneHolder
<1>1. level[p] \in Nat /\ level'[p] \in Nat /\ level[q] \in Nat /\ level'[q] \in Nat
  BY TreeAssumption DEF MatchInv, Typed
<1>2. k \in 1..level[p] /\ l \in 1..level[q] /\ Holds(p, k) /\ Holds(q, l)
  BY <1>1 DEF Holds
<1> QED
  BY <1>2 DEF MatchInv, OneHolder

(* Whoever is behind a flag elsewhere still is.                            *)
LEMMA AttendedStep ==
  ASSUME MatchInv, Typed', NEW p \in Participants, Elsewhere(p),
         \A k \in 1..level[p] :
           Holds(p, k) /\ node_id_at_level(p, k) # Node(p) => Holds(p, k)',
         \A i \in {0, 1} : arrived'[Node(p)][i] /\ ~done'[Node(p)] =>
           \E q \in Participants : \E l \in 1..level[q] :
             Holds(q, l)' /\ node_id_at_level(q, l) = Node(p) /\ index_at_level(q, l) = i
  PROVE  Attended'
<1> SUFFICES ASSUME NEW n \in Nodes, NEW i \in {0, 1}, arrived'[n][i], ~done'[n]
             PROVE  \E q \in Participants : \E l \in (1..level[q])' :
                      /\ Holds(q, l)'
                      /\ node_id_at_level(q, l) = n /\ index_at_level(q, l) = i
  BY DEF Attended
<1>1. \E q \in Participants : \E l \in 1..level[q] :
        Holds(q, l)' /\ node_id_at_level(q, l) = n /\ index_at_level(q, l) = i
  <2>1. CASE n = Node(p)
    BY <2>1
  <2>2. CASE n # Node(p)
    <3>1. arrived[n][i] /\ ~done[n]
      BY <2>2 DEF Elsewhere
    <3>2. PICK q \in Participants : \E l \in 1..level[q] :
            Holds(q, l) /\ node_id_at_level(q, l) = n /\ index_at_level(q, l) = i
      BY <3>1 DEF MatchInv, Attended
    <3>3. PICK l \in 1..level[q] :
            Holds(q, l) /\ node_id_at_level(q, l) = n /\ index_at_level(q, l) = i
      BY <3>2
    <3>4. Holds(q, l)'
      BY <2>2, <3>3 DEF Elsewhere, Holds
    <3> QED
      BY <3>3, <3>4
  <2> QED
    BY <2>1, <2>2
<1>2. PICK q \in Participants : \E l \in 1..level[q] :
        Holds(q, l)' /\ node_id_at_level(q, l) = n /\ index_at_level(q, l) = i
  BY <1>1
<1> QED
  BY <1>2 DEF Holds

-----------------------------------------------------------------------------
(* The types.                                                              *)

LEMMA LowestNode ==
  ASSUME NEW p \in Participants
  PROVE  1 \in 1..N /\ node_id_at_level(p, 1) \in Nodes
<1>1. N \in Nat /\ N >= 2 /\ p \in Nat
  BY TreeAssumption DEF Participants
<1>2. node_id_at_level(p, 0 + 1) = (p + N) \div 2
  BY Path
<1>3. node_id_at_level(p, 1) >= 1
  BY <1>1, <1>2
<1> QED
  BY <1>1, <1>3, PathInTree

(* A winner below the root has a node above.                               *)
LEMMA NodeAbove ==
  ASSUME Typed, NEW p \in Participants, Node(p) # Root
  PROVE  level[p] + 1 \in 1..N /\ node_id_at_level(p, level[p] + 1) \in Nodes
<1>1. N \in Nat /\ level[p] \in Nat \ {0} /\ level[p] + 1 \in Nat \ {0}
  BY TreeAssumption DEF Typed
<1>2. Node(p) \in Nat /\ Node(p) >= 2
  BY <1>1 DEF Typed, Nodes, Root
<1>3. node_id_at_level(p, level[p] + 1) = Node(p) \div 2
  BY <1>1, Path DEF Node
<1>4. node_id_at_level(p, level[p] + 1) \in Nat /\ node_id_at_level(p, level[p] + 1) >= 1
  BY <1>2, <1>3
<1>5. /\ node_id_at_level(p, level[p] + 1) \in Nodes
      /\ level[p] + 1 + node_id_at_level(p, level[p] + 1) <= N
  BY <1>1, <1>4, PathInTree
<1> QED
  BY <1>1, <1>4, <1>5

LEMMA TypedUnset == Unset \in Keys
BY TreeAssumption DEF Unset

LEMMA TypedInit == Init => Typed
<1> SUFFICES ASSUME Init PROVE Typed
  OBVIOUS
<1>1. level \in [Participants -> 1..N] /\ \A p \in Participants : Node(p) \in Nodes
  BY LowestNode DEF Init, Node
<1>2. 0 \in 0..MaxRounds
  BY TreeAssumption
<1> QED
  BY <1>1, <1>2, TypedUnset DEF Init, Typed, Labels

LEMMA TypedEnter ==
  ASSUME Typed, NEW p \in Participants, Enter(p)
  PROVE  Typed'
<1>1. level' \in [Participants -> 1..N]
  BY LowestNode DEF Typed, Enter
<1>2. \A q \in Participants : Node(q)' \in Nodes
  BY LowestNode DEF Typed, Enter, Node
<1>3. calls' \in [Participants -> 0..MaxRounds]
  <2>1. calls[p] + 1 \in 0..MaxRounds
    BY TreeAssumption DEF Typed, Enter
  <2> QED
    BY <2>1 DEF Typed, Enter
<1>4. pc' \in [Participants -> Labels]
  BY DEF Typed, Enter, Goto, Labels
<1>5. key' \in [Participants -> Keys]
  BY DEF Typed, Enter
<1> QED
  BY <1>1, <1>2, <1>3, <1>4, <1>5 DEF Typed, Enter

LEMMA TypedDown ==
  ASSUME Typed, NEW p \in Participants, NEW from, GoDown(p, from)
  PROVE  /\ level' \in [Participants -> 1..N]
         /\ \A q \in Participants : Node(q)' \in Nodes
         /\ pc' \in [Participants -> Labels]
<1>1. CASE level[p] > 1 /\ level' = [level EXCEPT ![p] = @ - 1]
  <2>1. level[p] - 1 \in 1..level[p] /\ level[p] - 1 \in 1..N
    BY <1>1, TreeAssumption DEF Typed
  <2>2. node_id_at_level(p, level[p] - 1) \in Nodes
    BY <2>1, Position
  <2> QED
    BY <1>1, <2>1, <2>2 DEF Typed, GoDown, Goto, Labels, Node
<1>2. CASE level' = level
  BY <1>2 DEF Typed, GoDown, Goto, Labels, Node
<1> QED
  BY <1>1, <1>2 DEF GoDown

LEMMA TypedStep ==
  ASSUME Typed, NEW p \in Participants, Step(p)
  PROVE  Typed'
<1>1. /\ Node(p) \in Nodes /\ Index(p) \in {0, 1} /\ Other(p) \in {0, 1}
      /\ level[p] \in 1..level[p]
  BY Position, TreeAssumption DEF Typed, Node, Index, Other
<1>2. CASE Gate(p) \/ Meet(p) \/ Wait(p)
  BY <1>2 DEF Typed, Labels, Gate, Meet, Wait, Goto, Node
<1>3. CASE Deposit(p)
  BY <1>1, <1>3 DEF Typed, Labels, Deposit, Goto, Node
<1>4. CASE Announce(p)
  BY <1>1, <1>4 DEF Typed, Labels, Announce, Goto, Node
<1>5. CASE Compare(p)
  <2>1. CASE UNCHANGED level
    BY <1>5, <2>1 DEF Typed, Labels, Compare, Goto, Node
  <2>2. CASE Node(p) # Root /\ level' = [level EXCEPT ![p] = @ + 1]
    <3>1. level' \in [Participants -> 1..N] /\ \A q \in Participants : Node(q)' \in Nodes
      BY <2>2, NodeAbove DEF Typed, Node
    <3> QED
      BY <1>5, <3>1 DEF Typed, Labels, Compare, Goto
  <2> QED
    BY <1>5, <2>1, <2>2 DEF Compare
<1>6. CASE Callback(p)
  <2>1. callbacks' \in Nat
    BY <1>6 DEF Typed, Callback
  <2> QED
    BY <1>1, <1>6, <2>1 DEF Typed, Labels, Callback, Goto, Node
<1>7. CASE ReadValue(p)
  BY <1>1, <1>7 DEF Typed, Labels, ReadValue, Goto, Node
<1>8. CASE ResetOwn(p) \/ ResetOther(p)
  <2>1. arrived' \in [Nodes -> [{0, 1} -> BOOLEAN]]
    <3>1. CASE ResetOwn(p)
      BY <1>1, <3>1 DEF Typed, ResetOwn
    <3>2. CASE ResetOther(p)
      BY <1>1, <3>2 DEF Typed, ResetOther
    <3> QED
      BY <1>8, <3>1, <3>2
  <2> QED
    BY <1>8, <2>1 DEF Typed, Labels, ResetOwn, ResetOther, Goto, Node
<1>9. CASE Reopen(p)
  <2>1. /\ level' \in [Participants -> 1..N] /\ pc' \in [Participants -> Labels]
        /\ \A q \in Participants : Node(q)' \in Nodes
    BY <1>9, TypedDown DEF Reopen
  <2> QED
    BY <1>1, <1>9, <2>1 DEF Typed, Reopen
<1>10. CASE Publish(p)
  BY <1>1, <1>10 DEF Typed, Labels, Publish, Goto, Node
<1>11. CASE Notify(p)
  <2>1. /\ level' \in [Participants -> 1..N] /\ pc' \in [Participants -> Labels]
        /\ \A q \in Participants : Node(q)' \in Nodes
    BY <1>11, TypedDown DEF Notify
  <2> QED
    BY <1>1, <1>11, <2>1 DEF Typed, Notify
<1> QED
  BY <1>2, <1>3, <1>4, <1>5, <1>6, <1>7, <1>8, <1>9, <1>10, <1>11 DEF Step

-----------------------------------------------------------------------------
(* Each action keeps the match invariant.                                  *)

LEMMA Here ==
  ASSUME MatchInv, NEW p \in Participants, pc[p] # "out"
  PROVE  /\ level[p] \in 1..level[p] /\ Holds(p, level[p])
         /\ Stage(p, level[p]) = pc[p]
         /\ Seat(p, level[p])
         /\ Node(p) = node_id_at_level(p, level[p])
         /\ Index(p) = index_at_level(p, level[p])
         /\ Node(p) \in Nodes /\ Index(p) \in {0, 1} /\ Other(p) \in {0, 1}
         /\ Other(p) # Index(p) /\ Other(p) = 1 - Index(p)
<1>1. level[p] \in 1..level[p] /\ Holds(p, level[p])
  BY TreeAssumption DEF MatchInv, Typed, Holds
<1>2. Index(p) \in {0, 1}
  BY <1>1, Position DEF MatchInv, Index
<1> QED
  BY <1>1, <1>2 DEF MatchInv, Typed, Seats, Stage, Node, Index, Other

(* Where the opponent is, if there is one.                                 *)
LEMMA There ==
  ASSUME MatchInv, NEW p \in Participants, pc[p] # "out",
         NEW q \in Participants \ {p}, NEW l \in 1..level[q], Holds(q, l),
         node_id_at_level(q, l) = Node(p)
  PROVE  /\ Seat(q, l)
         /\ index_at_level(q, l) = Other(p)
         /\ 1 - index_at_level(q, l) = Index(p)
         /\ Stage(q, l) \in (Labels \cup {"above"}) \ {"out"}
         /\ pc[p] \in Above => Stage(q, l) \in {"meet", "compare", "wait"}
         /\ pc[p] \in Leaving => Stage(q, l) = "gate"
         /\ pc[p] = "wait" /\ done[Node(p)] => Stage(q, l) = "gate"
         /\ pc[p] = "compare" /\ Wins(p)
              => ~done[Node(p)] /\ Stage(q, l) \in {"meet", "compare", "wait"}
         /\ pc[p] \in {"deposit", "announce"}
              => Stage(q, l) \in {"gate", "deposit", "announce", "meet"}
<1>1. Wins(p) <=> Beats(Node(p), Index(p))
  BY DEF Wins, Beats, Other
<1>2. Index(p) \in {0, 1} /\ Other(p) = 1 - Index(p)
  BY Here
<1>3. Seat(q, l)
  BY DEF MatchInv, Seats
<1>4. Stage(q, l) \in (Labels \cup {"above"}) \ {"out"}
  BY DEF MatchInv, Typed, Stage, Holds
<1> QED
  BY <1>1, <1>2, <1>3, <1>4, Here, Rivals

LEMMA StayStep ==
  ASSUME MatchInv, Typed', NEW p \in Participants, pc[p] # "out", pc'[p] # "out",
         level' = level, Elsewhere(p), Seat(p, level[p])',
         \A q \in Participants \ {p} : \A l \in 1..level[q] :
           Holds(q, l) /\ node_id_at_level(q, l) = Node(p) => Seat(q, l)',
         \A i \in {0, 1} : arrived'[Node(p)][i] /\ ~done'[Node(p)] =>
           (arrived[Node(p)][i] /\ ~done[Node(p)]) \/ i = Index(p)
  PROVE  MatchInv'
<1>1. Seats'
  <2>1. level[p] \in Nat
    BY Here
  <2>2. level'[p] \in {level[p] - 1, level[p], level[p] + 1} /\ ~(level'[p] > level[p])
    BY <2>1
  <2> QED
    BY <2>2, SeatsStep
<1>2. \A q \in Participants : pc'[q] # "out" <=> pc[q] # "out"
  BY DEF Elsewhere
<1>3. OneHolder'
  <2>1. \A q \in Participants : level[q] \in Nat
    BY TreeAssumption DEF MatchInv, Typed
  <2> QED
    BY <1>2, <2>1, OneHolderStep
<1>4. \A q \in Participants : \A k : Holds(q, k)' <=> Holds(q, k)
  BY <1>2 DEF Holds
<1>5. Attended'
  <2>1. ASSUME NEW i \in {0, 1}, arrived'[Node(p)][i], ~done'[Node(p)]
        PROVE  \E q \in Participants : \E l \in 1..level[q] :
                 Holds(q, l)' /\ node_id_at_level(q, l) = Node(p) /\ index_at_level(q, l) = i
    <3>1. CASE i = Index(p)
      BY <3>1, <1>4, Here
    <3>2. CASE arrived[Node(p)][i] /\ ~done[Node(p)]
      BY <3>2, <1>4, Here DEF MatchInv, Attended
    <3> QED
      BY <2>1, <3>1, <3>2
  <2> QED
    BY <2>1, <1>4, AttendedStep
<1> QED
  BY <1>1, <1>3, <1>5 DEF MatchInv

LEMMA MatchGate ==
  ASSUME MatchInv, NEW p \in Participants, Gate(p)
  PROVE  MatchInv'
<1>1. pc[p] = "gate" /\ pc'[p] = "deposit" /\ level' = level /\ ~done[Node(p)]
  BY DEF Gate, Goto, MatchInv, Typed
<1>2. Typed'
  BY TypedStep DEF MatchInv, Step
<1>3. Elsewhere(p)
  BY DEF Elsewhere, Gate, Goto, MatchInv, Typed
<1>4. Seat(p, level[p])'
  BY <1>1, Here DEF Gate, Seat, Stage, Above, Leaving
<1>5. \A q \in Participants \ {p} : \A l \in 1..level[q] :
        Holds(q, l) /\ node_id_at_level(q, l) = Node(p) => Seat(q, l)'
  BY <1>1, <1>3, There, SeatFrame DEF Elsewhere, Gate, Stage
<1> QED
  BY <1>1, <1>2, <1>3, <1>4, <1>5, StayStep DEF Gate

LEMMA MatchDeposit ==
  ASSUME MatchInv, NEW p \in Participants, Deposit(p)
  PROVE  MatchInv'
<1>1. pc[p] = "deposit" /\ pc'[p] = "announce" /\ level' = level
  BY DEF Deposit, Goto, MatchInv, Typed
<1>2. Typed'
  BY TypedStep DEF MatchInv, Step
<1>3. Elsewhere(p)
  BY DEF Elsewhere, Deposit, Goto, MatchInv, Typed
<1>4. Seat(p, level[p])'
  <2>1. item'[Node(p)][Index(p)] = key[p]
    BY Here, <1>1 DEF Deposit, MatchInv, Typed
  <2>2. Seat(p, level[p]) /\ Stage(p, level[p]) = "deposit"
        /\ Stage(p, level[p])' = "announce"
    BY <1>1, Here DEF Stage
  <2> QED
    BY <1>1, <2>1, <2>2, Here DEF Deposit, Seat, Above, Leaving
<1>5. ASSUME NEW q \in Participants \ {p}, NEW l \in 1..level[q],
             Holds(q, l), node_id_at_level(q, l) = Node(p)
      PROVE  Seat(q, l)'
  <2>1. /\ Seat(q, l) /\ index_at_level(q, l) = Other(p)
        /\ Stage(q, l) \in {"gate", "deposit", "announce", "meet"}
    BY <1>1, <1>5, There
  <2>2. Stage(q, l)' = Stage(q, l)
    BY <1>3 DEF Stage, Elsewhere
  <2>3. item'[Node(p)][Other(p)] = item[Node(p)][Other(p)]
    BY <1>1, Here DEF Deposit, MatchInv, Typed
  <2>4. ~done[Node(p)]
    BY <1>1, Here DEF Seat
  <2> QED
    BY <1>5, <2>1, <2>2, <2>3, <2>4 DEF Deposit, Seat, Above, Leaving
<1> QED
  BY <1>1, <1>2, <1>3, <1>4, <1>5, StayStep DEF Deposit

LEMMA MatchAnnounce ==
  ASSUME MatchInv, NEW p \in Participants, Announce(p)
  PROVE  MatchInv'
<1>1. pc[p] = "announce" /\ pc'[p] = "meet" /\ level' = level
  BY DEF Announce, Goto, MatchInv, Typed
<1>2. Typed'
  BY TypedStep DEF MatchInv, Step
<1>3. Elsewhere(p)
  BY DEF Elsewhere, Announce, Goto, MatchInv, Typed
<1>4. /\ arrived'[Node(p)][Index(p)] = TRUE
      /\ arrived'[Node(p)][Other(p)] = arrived[Node(p)][Other(p)]
  BY Here, <1>1 DEF Announce, MatchInv, Typed
<1>5. ~done[Node(p)]
  BY <1>1, Here DEF Seat
<1>6. Seat(p, level[p])'
  <2>1. Seat(p, level[p]) /\ Stage(p, level[p]) = "announce"
        /\ Stage(p, level[p])' = "meet"
    BY <1>1, Here DEF Stage
  <2> QED
    BY <1>1, <1>4, <1>5, <2>1, Here DEF Announce, Seat, Above, Leaving
<1>7. ASSUME NEW q \in Participants \ {p}, NEW l \in 1..level[q],
             Holds(q, l), node_id_at_level(q, l) = Node(p)
      PROVE  Seat(q, l)'
  <2>1. /\ Seat(q, l) /\ index_at_level(q, l) = Other(p)
        /\ 1 - index_at_level(q, l) = Index(p)
        /\ Stage(q, l) \in {"gate", "deposit", "announce", "meet"}
    BY <1>1, <1>7, There
  <2>2. Stage(q, l)' = Stage(q, l)
    BY <1>3 DEF Stage, Elsewhere
  <2> QED
    BY <1>4, <1>5, <1>7, <2>1, <2>2 DEF Announce, Seat, Above, Leaving
<1>8. \A i \in {0, 1} : i = Index(p) \/ i = Other(p)
  BY <1>1, Here
<1> QED
  BY <1>1, <1>2, <1>3, <1>4, <1>6, <1>7, <1>8, StayStep DEF Announce

LEMMA MatchMeet ==
  ASSUME MatchInv, NEW p \in Participants, Meet(p)
  PROVE  MatchInv'
<1>1. /\ pc[p] = "meet" /\ pc'[p] = "compare" /\ level' = level
      /\ arrived[Node(p)][Other(p)]
  BY DEF Meet, Goto, MatchInv, Typed
<1>2. Typed'
  BY TypedStep DEF MatchInv, Step
<1>3. Elsewhere(p)
  BY DEF Elsewhere, Meet, Goto, MatchInv, Typed
<1>4. Seat(p, level[p])'
  BY <1>1, Here DEF Meet, Seat, Stage, Beats, Above, Leaving
<1>5. \A q \in Participants \ {p} : \A l \in 1..level[q] :
        Holds(q, l) /\ node_id_at_level(q, l) = Node(p) => Seat(q, l)'
  BY <1>1, <1>3, There, SeatFrame DEF Elsewhere, Meet, Stage
<1> QED
  BY <1>1, <1>2, <1>3, <1>4, <1>5, StayStep DEF Meet

LEMMA MatchCallback ==
  ASSUME MatchInv, NEW p \in Participants, Callback(p)
  PROVE  MatchInv'
<1>1. pc[p] = "callback" /\ pc'[p] = "notify" /\ level' = level
  BY DEF Callback, Goto, MatchInv, Typed
<1>2. Typed'
  BY TypedStep DEF MatchInv, Step
<1>3. Elsewhere(p)
  BY DEF Elsewhere, Callback, Goto, MatchInv, Typed
<1>4. Seat(p, level[p])'
  BY <1>1, Here DEF Callback, Seat, Stage, Beats, Above, Leaving
<1>5. \A q \in Participants \ {p} : \A l \in 1..level[q] :
        Holds(q, l) /\ node_id_at_level(q, l) = Node(p) => Seat(q, l)'
  BY <1>1, <1>3, There, SeatFrame DEF Elsewhere, Callback, Stage
<1> QED
  BY <1>1, <1>2, <1>3, <1>4, <1>5, StayStep DEF Callback

LEMMA MatchWait ==
  ASSUME MatchInv, NEW p \in Participants, Wait(p)
  PROVE  MatchInv'
<1>1. pc[p] = "wait" /\ pc'[p] = "read" /\ level' = level /\ done[Node(p)]
  BY DEF Wait, Goto, MatchInv, Typed
<1>2. Typed'
  BY TypedStep DEF MatchInv, Step
<1>3. Elsewhere(p)
  BY DEF Elsewhere, Wait, Goto, MatchInv, Typed
<1>4. Seat(p, level[p])'
  BY <1>1, Here DEF Wait, Seat, Stage, Beats, Above, Leaving
<1>5. \A q \in Participants \ {p} : \A l \in 1..level[q] :
        Holds(q, l) /\ node_id_at_level(q, l) = Node(p) => Seat(q, l)'
  BY <1>1, <1>3, There, SeatFrame DEF Elsewhere, Wait, Stage
<1> QED
  BY <1>1, <1>2, <1>3, <1>4, <1>5, StayStep DEF Wait

LEMMA MatchReadValue ==
  ASSUME MatchInv, NEW p \in Participants, ReadValue(p)
  PROVE  MatchInv'
<1>1. pc[p] = "read" /\ pc'[p] = "reset_own" /\ level' = level
  BY DEF ReadValue, Goto, MatchInv, Typed
<1>2. Typed'
  BY TypedStep DEF MatchInv, Step
<1>3. Elsewhere(p)
  BY DEF Elsewhere, ReadValue, Goto, MatchInv, Typed
<1>4. Seat(p, level[p])'
  BY <1>1, Here DEF ReadValue, Seat, Stage, Beats, Above, Leaving
<1>5. \A q \in Participants \ {p} : \A l \in 1..level[q] :
        Holds(q, l) /\ node_id_at_level(q, l) = Node(p) => Seat(q, l)'
  BY <1>1, <1>3, There, SeatFrame DEF Elsewhere, ReadValue, Stage
<1> QED
  BY <1>1, <1>2, <1>3, <1>4, <1>5, StayStep DEF ReadValue

LEMMA MatchResetOwn ==
  ASSUME MatchInv, NEW p \in Participants, ResetOwn(p)
  PROVE  MatchInv'
<1>1. pc[p] = "reset_own" /\ pc'[p] = "reset_other" /\ level' = level
  BY DEF ResetOwn, Goto, MatchInv, Typed
<1>2. Typed'
  BY TypedStep DEF MatchInv, Step
<1>3. Elsewhere(p)
  BY DEF Elsewhere, ResetOwn, Goto, MatchInv, Typed
<1>4. /\ arrived'[Node(p)][Index(p)] = FALSE
      /\ arrived'[Node(p)][Other(p)] = arrived[Node(p)][Other(p)]
  BY Here, <1>1 DEF ResetOwn, MatchInv, Typed
<1>5. done[Node(p)]
  BY <1>1, Here DEF Seat, Leaving
<1>6. Seat(p, level[p])'
  <2>1. Seat(p, level[p]) /\ Stage(p, level[p]) = "reset_own"
        /\ Stage(p, level[p])' = "reset_other"
    BY <1>1, Here DEF Stage
  <2> QED
    BY <1>1, <1>4, <1>5, <2>1, Here DEF ResetOwn, Seat, Beats, Above, Leaving
<1>7. ASSUME NEW q \in Participants \ {p}, NEW l \in 1..level[q],
             Holds(q, l), node_id_at_level(q, l) = Node(p)
      PROVE  Seat(q, l)'
  <2>1. Stage(q, l) = "gate"
    BY <1>1, <1>7, There DEF Leaving
  <2>2. Stage(q, l)' = Stage(q, l)
    BY <1>3 DEF Stage, Elsewhere
  <2> QED
    BY <1>5, <1>7, <2>1, <2>2 DEF ResetOwn, Seat, Above, Leaving
<1> QED
  BY <1>1, <1>2, <1>3, <1>5, <1>6, <1>7, StayStep DEF ResetOwn

LEMMA MatchResetOther ==
  ASSUME MatchInv, NEW p \in Participants, ResetOther(p)
  PROVE  MatchInv'
<1>1. pc[p] = "reset_other" /\ pc'[p] = "reopen" /\ level' = level
  BY DEF ResetOther, Goto, MatchInv, Typed
<1>2. Typed'
  BY TypedStep DEF MatchInv, Step
<1>3. Elsewhere(p)
  BY DEF Elsewhere, ResetOther, Goto, MatchInv, Typed
<1>4. /\ arrived'[Node(p)][Index(p)] = arrived[Node(p)][Index(p)]
      /\ arrived'[Node(p)][Other(p)] = FALSE
  BY Here, <1>1 DEF ResetOther, MatchInv, Typed
<1>5. done[Node(p)]
  BY <1>1, Here DEF Seat, Leaving
<1>6. Seat(p, level[p])'
  <2>1. Seat(p, level[p]) /\ Stage(p, level[p]) = "reset_other"
        /\ Stage(p, level[p])' = "reopen"
    BY <1>1, Here DEF Stage
  <2> QED
    BY <1>1, <1>4, <1>5, <2>1, Here DEF ResetOther, Seat, Beats, Above, Leaving
<1>7. ASSUME NEW q \in Participants \ {p}, NEW l \in 1..level[q],
             Holds(q, l), node_id_at_level(q, l) = Node(p)
      PROVE  Seat(q, l)'
  <2>1. Stage(q, l) = "gate"
    BY <1>1, <1>7, There DEF Leaving
  <2>2. Stage(q, l)' = Stage(q, l)
    BY <1>3 DEF Stage, Elsewhere
  <2> QED
    BY <1>5, <1>7, <2>1, <2>2 DEF ResetOther, Seat, Above, Leaving
<1> QED
  BY <1>1, <1>2, <1>3, <1>5, <1>6, <1>7, StayStep DEF ResetOther

LEMMA MatchPublish ==
  ASSUME MatchInv, NEW p \in Participants, Publish(p)
  PROVE  MatchInv'
<1>1. pc[p] = "publish" /\ pc'[p] = "notify" /\ level' = level
  BY DEF Publish, Goto, MatchInv, Typed
<1>2. Typed'
  BY TypedStep DEF MatchInv, Step
<1>3. Elsewhere(p)
  BY DEF Elsewhere, Publish, Goto, MatchInv, Typed
<1>4. Seat(p, level[p])'
  BY <1>1, Here DEF Publish, Seat, Stage, Beats, Above, Leaving
<1>5. \A q \in Participants \ {p} : \A l \in 1..level[q] :
        Holds(q, l) /\ node_id_at_level(q, l) = Node(p) => Seat(q, l)'
  BY <1>1, <1>3, There, SeatFrame DEF Elsewhere, Publish, Stage
<1> QED
  BY <1>1, <1>2, <1>3, <1>4, <1>5, StayStep DEF Publish

(* A new place: nobody is behind its flag yet, so the flag is down.        *)
LEMMA FreshSeat ==
  ASSUME MatchInv, NEW n \in Nodes, NEW i \in {0, 1},
         \A q \in Participants : \A l \in 1..level[q] :
           ~(Holds(q, l) /\ node_id_at_level(q, l) = n /\ index_at_level(q, l) = i)
  PROVE  ~arrived[n][i] \/ done[n]
BY DEF MatchInv, Attended

LEMMA MatchEnter ==
  ASSUME MatchInv, NEW p \in Participants, Enter(p)
  PROVE  MatchInv'
<1> DEFINE n == node_id_at_level(p, 1)
           i == index_at_level(p, 1)
<1>1. /\ pc[p] = "out" /\ pc'[p] = "gate" /\ level'[p] = 1
      /\ \A q \in Participants \ {p} :
           pc'[q] = pc[q] /\ level'[q] = level[q] /\ key'[q] = key[q]
  BY DEF Enter, Goto, MatchInv, Typed
<1>2. Typed'
  BY TypedEnter DEF MatchInv
<1>3. n \in Nodes /\ i \in {0, 1}
  BY LowestNode, Sides
<1>4. \A q \in Participants \ {p}, l \in Nat \ {0} :
        ~(node_id_at_level(q, l) = n /\ index_at_level(q, l) = i)
  <2> SUFFICES ASSUME NEW q \in Participants \ {p}, NEW l \in Nat \ {0},
                      node_id_at_level(q, l) = n, index_at_level(q, l) = i
               PROVE  FALSE
    OBVIOUS
  <2>1. node_id_at_level(q, l - 1) = node_id_at_level(p, 1 - 1)
    BY Sides
  <2>2. node_id_at_level(q, l - 1) = p + N
    BY <2>1, Path
  <2>3. l - 1 \in Nat
    OBVIOUS
  <2> QED
    BY <2>2, <2>3, Leaves
<1>5. \A q \in Participants : \A l : Holds(q, l) => q # p /\ l \in Nat \ {0}
  BY <1>1, TreeAssumption DEF Holds, MatchInv, Typed
<1>6. \A q \in Participants : \A l :
        Holds(q, l)' <=> Holds(q, l) \/ (q = p /\ l = 1)
  BY <1>1 DEF Holds
<1>7. ~arrived[n][i] \/ done[n]
  BY <1>3, <1>4, <1>5, FreshSeat
<1> HIDE DEF n, i
<1>8. Seats'
  <2> SUFFICES ASSUME NEW q \in Participants, NEW l \in (1..level[q])', Holds(q, l)'
               PROVE  Seat(q, l)'
    BY DEF Seats
  <2>1. CASE q = p
    <3>1. l = 1 /\ Stage(p, 1)' = "gate"
      BY <1>1, <1>5, <1>6, <2>1 DEF Stage
    <3> QED
      BY <1>7, <2>1, <3>1 DEF Enter, Seat, Above, Leaving, n, i
  <2>2. CASE q # p
    <3>1. Seat(q, l)
      BY <1>6, <2>2 DEF MatchInv, Seats, Holds
    <3> QED
      BY <1>1, <2>2, <3>1, SeatFrame DEF Enter, Stage
  <2> QED
    BY <2>1, <2>2
<1>9. OneHolder'
  <2> SUFFICES ASSUME NEW q \in Participants, NEW r \in Participants, q # r,
                      NEW k \in (1..level[q])', NEW l \in (1..level[r])',
                      Holds(q, k)', Holds(r, l)',
                      node_id_at_level(q, k) = node_id_at_level(r, l)
               PROVE  index_at_level(q, k) # index_at_level(r, l)
    BY DEF OneHolder
  <2>1. CASE q = p
    BY <1>4, <1>5, <1>6, <2>1 DEF n, i
  <2>2. CASE r = p
    BY <1>4, <1>5, <1>6, <2>2 DEF n, i
  <2>3. CASE q # p /\ r # p
    BY <1>6, <2>3 DEF MatchInv, OneHolder, Holds
  <2> QED
    BY <2>1, <2>2, <2>3
<1>10. Attended'
  <2> SUFFICES ASSUME NEW m \in Nodes, NEW j \in {0, 1}, arrived[m][j], ~done[m]
               PROVE  \E q \in Participants : \E l \in (1..level[q])' :
                        /\ Holds(q, l)'
                        /\ node_id_at_level(q, l) = m /\ index_at_level(q, l) = j
    BY DEF Enter, Attended
  <2>1. PICK q \in Participants : \E l \in 1..level[q] :
          Holds(q, l) /\ node_id_at_level(q, l) = m /\ index_at_level(q, l) = j
    BY DEF MatchInv, Attended
  <2> QED
    BY <1>1, <1>5, <1>6, <2>1
<1> QED
  BY <1>2, <1>8, <1>9, <1>10 DEF MatchInv

LEMMA MatchCompare ==
  ASSUME MatchInv, NEW p \in Participants, Compare(p)
  PROVE  MatchInv'
<1>1. pc[p] = "compare" /\ Seat(p, level[p]) /\ (Wins(p) <=> Beats(Node(p), Index(p)))
  BY Here DEF Compare, Goto, Wins, Beats, Other
<1>2. Typed'
  BY TypedStep DEF MatchInv, Step
<1>3. Elsewhere(p)
  BY DEF Elsewhere, Compare, Goto, MatchInv, Typed
<1>4. \A q \in Participants \ {p} : \A l \in 1..level[q] :
        Holds(q, l) /\ node_id_at_level(q, l) = Node(p) => Seat(q, l)'
  BY <1>1, <1>3, There, SeatFrame DEF Elsewhere, Compare, Stage
<1>5. Wins(p) => ~done[Node(p)]
  BY <1>1, Here DEF Seat
<1>6. CASE level' = level
  <2>1. \/ pc'[p] = "wait" /\ ~Wins(p)
        \/ pc'[p] = "callback" /\ Wins(p)
    <3>1. level[p] \in Nat
      BY TreeAssumption DEF MatchInv, Typed
    <3>2. level' # [level EXCEPT ![p] = @ + 1]
      BY <1>6, <3>1 DEF MatchInv, Typed
    <3> QED
      BY <3>2 DEF Compare, Goto, MatchInv, Typed
  <2>2. Seat(p, level[p])'
    <3>1. CASE pc'[p] = "wait" /\ ~Wins(p)
      BY <1>1, <1>6, <3>1, Here DEF Compare, Seat, Stage, Beats, Above, Leaving
    <3>2. CASE pc'[p] = "callback" /\ Wins(p)
      BY <1>1, <1>5, <1>6, <3>2, Here DEF Compare, Seat, Stage, Beats, Above, Leaving
    <3> QED
      BY <2>1, <3>1, <3>2
  <2> QED
    BY <1>1, <1>2, <1>3, <1>4, <1>6, <2>1, <2>2, StayStep DEF Compare
<1>7. CASE level' # level
  <2>1. /\ Wins(p) /\ Node(p) # Root /\ pc'[p] = "gate"
        /\ level' = [level EXCEPT ![p] = @ + 1] /\ level'[p] = level[p] + 1
    BY <1>7 DEF Compare, Goto, MatchInv, Typed
  <2>0. PICK top \in Nat \ {0} : top = level[p]
    BY TreeAssumption DEF MatchInv, Typed
  <2> DEFINE m == top + 1
             n == node_id_at_level(p, m)
             i == index_at_level(p, m)
  <2>2. /\ m \in Nat \ {0} /\ n \in Nodes /\ i \in {0, 1} /\ m - 1 = level[p]
        /\ level'[p] = m /\ top \in 1..level[p]
    BY <2>0, <2>1, NodeAbove, Sides DEF MatchInv
  <2>3. \A q \in Participants : \A l \in 1..level[q] :
          ~(Holds(q, l) /\ node_id_at_level(q, l) = n /\ index_at_level(q, l) = i)
    <3> SUFFICES ASSUME NEW q \in Participants, NEW l \in 1..level[q], Holds(q, l),
                        node_id_at_level(q, l) = n, index_at_level(q, l) = i
                 PROVE  FALSE
      OBVIOUS
    <3>1. l \in Nat \ {0} /\ l - 1 \in Nat
      BY Position DEF MatchInv
    <3>2. node_id_at_level(q, l - 1) = node_id_at_level(p, m - 1)
      BY <2>2, <3>1, Sides
    <3>3. node_id_at_level(q, l - 1) = Node(p)
      BY <2>2, <3>2 DEF Node
    <3>4. CASE l = 1
      <4>1. node_id_at_level(q, 0) = q + N
        BY Path
      <4>2. Node(p) = q + N /\ Node(p) \in Nodes
        BY <3>3, <3>4, <4>1, Here, <1>1
      <4> QED
        BY <4>2, TreeAssumption DEF Nodes, Participants
    <3>5. CASE l # 1 /\ q # p
      <4>1. l - 1 \in 1..level[q] /\ Holds(q, l - 1) /\ Stage(q, l - 1) = "above"
        BY <3>1, <3>5, Position DEF Holds, Stage, MatchInv
      <4> QED
        BY <1>1, <2>1, <3>3, <3>5, <4>1, There DEF Above
    <3>6. CASE l # 1 /\ q = p
      <4>1. l - 1 \in 1..level[p] /\ l - 1 # level[p] /\ level[p] \in 1..level[p]
        BY <3>1, <3>6, Position DEF MatchInv
      <4> QED
        BY <3>3, <3>6, <4>1, Position DEF MatchInv, Node
    <3> QED
      BY <3>4, <3>5, <3>6
  <2>4. ~arrived[n][i] \/ done[n]
    BY <2>2, <2>3, FreshSeat
  <2>5. \A q \in Participants : \A l :
          Holds(q, l)' <=> Holds(q, l) \/ (q = p /\ l = m)
    BY <1>1, <1>3, <2>1, <2>2 DEF Holds, Elsewhere
  <2>6. Seats'
    <3>1. Seat(p, m)'
      <4>1. Stage(p, m)' = "gate"
        BY <2>1, <2>2 DEF Stage
      <4> HIDE DEF m
      <4> QED
        BY <2>4, <4>1 DEF Compare, Seat, Above, Leaving
    <3>2. Seat(p, top)'
      <4>1. Stage(p, top)' = "above"
        BY <2>1, <2>2 DEF Stage
      <4> QED
        BY <1>1, <1>5, <2>0, <2>1, <4>1, Here DEF Compare, Seat, Beats, Above, Leaving
    <3>3. Seat(p, level[p])'
      BY <2>2, <3>1
    <3>4. \A k \in 1..level[p] : k = level[p] => Seat(p, k)'
      BY <2>0, <3>2
    <3>5. level'[p] \in {level[p] - 1, level[p], level[p] + 1}
      BY <2>1
    <3> QED
      BY <1>1, <1>2, <1>3, <1>4, <3>3, <3>4, <3>5, SeatsStep
  <2>7. OneHolder'
    <3> SUFFICES ASSUME NEW q \in Participants, NEW r \in Participants, q # r,
                        NEW k \in (1..level[q])', NEW l \in (1..level[r])',
                        Holds(q, k)', Holds(r, l)',
                        node_id_at_level(q, k) = node_id_at_level(r, l)
                 PROVE  index_at_level(q, k) # index_at_level(r, l)
      BY DEF OneHolder
    <3> HIDE DEF m, n, i
    <3>1. CASE q = p /\ k = m
      BY <2>3, <2>5, <3>1 DEF n, i, Holds
    <3>2. CASE r = p /\ l = m
      BY <2>3, <2>5, <3>2 DEF n, i, Holds
    <3>3. CASE Holds(q, k) /\ Holds(r, l)
      BY <3>3 DEF MatchInv, OneHolder, Holds
    <3> QED
      BY <2>5, <3>1, <3>2, <3>3
  <2>8. Attended'
    <3> SUFFICES ASSUME NEW o \in Nodes, NEW j \in {0, 1}, arrived[o][j], ~done[o]
                 PROVE  \E q \in Participants : \E l \in (1..level[q])' :
                          /\ Holds(q, l)'
                          /\ node_id_at_level(q, l) = o /\ index_at_level(q, l) = j
      BY DEF Compare, Attended
    <3>1. PICK q \in Participants : \E l \in 1..level[q] :
            Holds(q, l) /\ node_id_at_level(q, l) = o /\ index_at_level(q, l) = j
      BY DEF MatchInv, Attended
    <3>2. PICK l \in 1..level[q] :
            Holds(q, l) /\ node_id_at_level(q, l) = o /\ index_at_level(q, l) = j
      BY <3>1
    <3>3. Holds(q, l)' /\ l \in (1..level[q])'
      BY <2>5, <3>2 DEF Holds
    <3> QED
      BY <3>2, <3>3
  <2> QED
    BY <1>2, <2>6, <2>7, <2>8 DEF MatchInv
<1> QED
  BY <1>6, <1>7

(* Below a node p won there is another, different one.                     *)
LEMMA NodeBelow ==
  ASSUME MatchInv, NEW p \in Participants, pc[p] # "out", level[p] > 1
  PROVE  /\ level[p] - 1 \in 1..level[p] /\ level[p] - 1 # level[p]
         /\ node_id_at_level(p, level[p] - 1) \in Nodes \ {Node(p), Root}
         /\ Seat(p, level[p] - 1) /\ Stage(p, level[p] - 1) = "above"
<1>1. level[p] \in Nat \ {0}
  BY TreeAssumption DEF MatchInv, Typed
<1>2. level[p] - 1 \in 1..level[p] /\ level[p] - 1 # level[p] /\ level[p] \in 1..level[p]
  BY <1>1
<1>3. node_id_at_level(p, level[p] - 1) \in Nodes \ {Node(p)}
  BY <1>2, Position DEF MatchInv, Node
<1>4. node_id_at_level(p, level[p] - 1) # Root
  <2>1. Node(p) < node_id_at_level(p, level[p] - 1) /\ Node(p) >= 1
    <3>1. Node(p) >= 1
      BY TreeAssumption DEF MatchInv, Typed, Nodes
    <3> QED
      BY <1>1, <1>2, <3>1, Path DEF Node
  <2> QED
    BY <2>1, <1>3, TreeAssumption DEF MatchInv, Typed, Nodes, Root
<1> QED
  BY <1>2, <1>3, <1>4 DEF MatchInv, Seats, Holds, Stage

(* Going down: what is left to show is that the match node p leaves is     *)
(* right for its opponent, and that no flag there is up in an open round.  *)
LEMMA DownStep ==
  ASSUME MatchInv, Typed', NEW p \in Participants, NEW from \in Labels \ {"out"},
         GoDown(p, from), Elsewhere(p),
         \A q \in Participants \ {p} : \A l \in 1..level[q] :
           Holds(q, l) /\ node_id_at_level(q, l) = Node(p) => Seat(q, l)',
         \A i \in {0, 1} : ~arrived'[Node(p)][i] \/ done'[Node(p)]
  PROVE  MatchInv'
<1>1. level[p] \in Nat \ {0} /\ pc[p] = from /\ pc[p] # "out"
  BY TreeAssumption DEF MatchInv, Typed, GoDown, Goto
<1>2. \/ level[p] > 1 /\ pc'[p] = "publish" /\ level'[p] = level[p] - 1
      \/ level[p] = 1 /\ pc'[p] = "out" /\ level' = level
  BY DEF GoDown, Goto, MatchInv, Typed
<1>3. level'[p] \in {level[p] - 1, level[p], level[p] + 1} /\ ~(level'[p] > level[p])
  BY <1>1, <1>2
<1>4. pc'[p] # "out" => Seat(p, level[p])'
  <2> SUFFICES ASSUME level[p] > 1, pc'[p] = "publish", level'[p] = level[p] - 1
               PROVE  Seat(p, level[p])'
    BY <1>2
  <2>1. PICK top \in Nat \ {0} : top = level[p] - 1
    BY <1>1
  <2>2. /\ Seat(p, top) /\ Stage(p, top) = "above"
        /\ node_id_at_level(p, top) \in Nodes \ {Node(p)}
    BY <1>1, <2>1, NodeBelow
  <2>3. Stage(p, top)' = "publish"
    BY <2>1 DEF Stage
  <2>4. Seat(p, top)'
    BY <2>2, <2>3 DEF Elsewhere, Seat, Beats, Above, Leaving
  <2> QED
    BY <2>1, <2>4
<1>5. Seats'
  BY <1>1, <1>3, <1>4, SeatsStep
<1>6. OneHolder'
  <2>1. \A q \in Participants : level[q] \in Nat
    BY TreeAssumption DEF MatchInv, Typed
  <2>2. level'[p] <= level[p]
    BY <1>1, <1>2
  <2>3. \A q \in Participants : pc'[q] # "out" => pc[q] # "out" /\ level'[q] <= level[q]
    BY <1>1, <2>1, <2>2 DEF Elsewhere
  <2> QED
    BY <2>3, OneHolderStep
<1>7. Attended'
  <2>1. ASSUME NEW k \in 1..level[p], Holds(p, k), node_id_at_level(p, k) # Node(p)
        PROVE  Holds(p, k)'
    <3>1. k # level[p] /\ k \in Nat \ {0} /\ k <= level[p]
      BY <1>1, <2>1 DEF Node
    <3> QED
      BY <1>1, <1>2, <3>1 DEF Holds
  <2> QED
    BY <2>1, AttendedStep
<1> QED
  BY <1>5, <1>6, <1>7 DEF MatchInv

LEMMA MatchReopen ==
  ASSUME MatchInv, NEW p \in Participants, Reopen(p)
  PROVE  MatchInv'
<1>1. pc[p] = "reopen" /\ done'[Node(p)] = FALSE
  BY DEF Reopen, GoDown, Goto, MatchInv, Typed
<1>2. Typed'
  BY TypedStep DEF MatchInv, Step
<1>3. Elsewhere(p)
  BY DEF Elsewhere, Reopen, GoDown, Goto, MatchInv, Typed
<1>4. ~arrived[Node(p)][Index(p)] /\ ~arrived[Node(p)][Other(p)]
  BY <1>1, Here DEF Seat
<1>5. \A i \in {0, 1} : i = Index(p) \/ i = Other(p)
  BY <1>1, Here
<1>6. ASSUME NEW q \in Participants \ {p}, NEW l \in 1..level[q],
             Holds(q, l), node_id_at_level(q, l) = Node(p)
      PROVE  Seat(q, l)'
  <2>1. Stage(q, l) = "gate" /\ index_at_level(q, l) = Other(p)
    BY <1>1, <1>6, There DEF Leaving
  <2>2. Stage(q, l)' = Stage(q, l)
    BY <1>3 DEF Stage, Elsewhere
  <2> QED
    BY <1>4, <1>6, <2>1, <2>2 DEF Reopen, Seat, Above, Leaving
<1>7. "reopen" \in Labels \ {"out"}
  BY DEF Labels
<1>8. \A i \in {0, 1} : ~arrived'[Node(p)][i]
  BY <1>4, <1>5 DEF Reopen
<1> QED
  BY <1>2, <1>3, <1>6, <1>7, <1>8, DownStep DEF Reopen

LEMMA MatchNotify ==
  ASSUME MatchInv, NEW p \in Participants, Notify(p)
  PROVE  MatchInv'
<1>1. pc[p] = "notify" /\ done'[Node(p)] = TRUE
  BY DEF Notify, GoDown, Goto, MatchInv, Typed, Here
<1>2. Typed'
  BY TypedStep DEF MatchInv, Step
<1>3. Elsewhere(p)
  BY DEF Elsewhere, Notify, GoDown, Goto, MatchInv, Typed
<1>4. arrived[Node(p)][Index(p)] /\ Beats(Node(p), Index(p))
  BY <1>1, Here DEF Seat, Above
<1>5. ~Beats(Node(p), Other(p))
  BY <1>1, <1>4, Here, OneBeats DEF MatchInv
<1>6. ASSUME NEW q \in Participants \ {p}, NEW l \in 1..level[q],
             Holds(q, l), node_id_at_level(q, l) = Node(p)
      PROVE  Seat(q, l)'
  <2>1. /\ Stage(q, l) \in {"meet", "compare", "wait"} /\ index_at_level(q, l) = Other(p)
        /\ 1 - index_at_level(q, l) = Index(p) /\ Seat(q, l)
    BY <1>1, <1>6, There DEF Above
  <2>2. Stage(q, l)' = Stage(q, l)
    BY <1>3 DEF Stage, Elsewhere
  <2> QED
    BY <1>1, <1>4, <1>5, <1>6, <2>1, <2>2 DEF Notify, Seat, Beats, Above, Leaving
<1>7. "notify" \in Labels \ {"out"}
  BY DEF Labels
<1> QED
  BY <1>1, <1>2, <1>3, <1>6, <1>7, DownStep DEF Notify

-----------------------------------------------------------------------------
(* The match invariant, and what follows from it.                          *)

LEMMA MatchInit == Init => MatchInv
<1> SUFFICES ASSUME Init PROVE MatchInv
  OBVIOUS
<1>1. Typed
  BY TypedInit
<1>2. Seats /\ OneHolder
  BY DEF Init, Seats, OneHolder, Holds
<1>3. Attended
  BY DEF Init, Attended
<1> QED
  BY <1>1, <1>2, <1>3 DEF MatchInv

LEMMA MatchStutter == MatchInv /\ UNCHANGED vars => MatchInv'
BY DEF vars, MatchInv, Typed, Node, Seats, OneHolder, Attended, Seat, Stage, Holds, Beats

LEMMA MatchNext == MatchInv /\ [Next]_vars => MatchInv'
<1> SUFFICES ASSUME MatchInv, [Next]_vars PROVE MatchInv'
  OBVIOUS
<1>1. ASSUME NEW p \in Participants, Enter(p) PROVE MatchInv'
  BY <1>1, MatchEnter
<1>2. ASSUME NEW p \in Participants, Step(p) PROVE MatchInv'
  BY <1>2, MatchGate, MatchDeposit, MatchAnnounce, MatchMeet, MatchCompare,
     MatchCallback, MatchWait, MatchReadValue, MatchResetOwn, MatchResetOther,
     MatchReopen, MatchPublish, MatchNotify DEF Step
<1>3. CASE UNCHANGED vars
  BY <1>3, MatchStutter
<1>4. CASE Finished
  BY <1>4, MatchStutter DEF Finished
<1> QED
  BY <1>1, <1>2, <1>3, <1>4 DEF Next

(* Every step of compete() keeps what a node and its participants know of  *)
(* each other.                                                             *)
THEOREM MatchInvariant == Spec => []MatchInv
BY MatchInit, MatchNext, PTL DEF Spec

(* No two participants ever take the same side of a match, however uneven  *)
(* the tree and whoever won the rounds before.                             *)
THEOREM SidesAreOnePerSlot == Spec => []OnePerSlot
<1>1. MatchInv => OnePerSlot
  <2> SUFFICES ASSUME MatchInv, NEW p \in Participants, NEW q \in Participants, p # q,
                      NEW s \in Occupied(p), s \in Occupied(q)
               PROVE  FALSE
    BY DEF OnePerSlot
  <2>1. PICK k \in 1..level[p] :
          pc[p] # "out" /\ s = <<node_id_at_level(p, k), index_at_level(p, k)>>
    BY DEF Occupied
  <2>2. PICK l \in 1..level[q] :
          pc[q] # "out" /\ s = <<node_id_at_level(q, l), index_at_level(q, l)>>
    BY DEF Occupied
  <2>3. /\ node_id_at_level(p, k) = node_id_at_level(q, l)
        /\ index_at_level(p, k) = index_at_level(q, l)
    BY <2>1, <2>2
  <2> QED
    BY <2>1, <2>2, <2>3 DEF MatchInv, OneHolder, Holds
<1> QED
  BY <1>1, MatchInvariant, PTL

(* The plain reads and writes of the items and of the winning values are   *)
(* ordered by the flags alone.                                             *)
THEOREM PlainAccessesAreRaceFree == Spec => []DataRaceFree
<1>1. MatchInv => DataRaceFree
  <2> SUFFICES ASSUME MatchInv, NEW p \in Participants, NEW q \in Participants, p # q,
                      Conflict(pc[p], pc[q]), Node(p) = Node(q)
               PROVE  FALSE
    BY DEF DataRaceFree
  <2>1. pc[p] # "out" /\ pc[q] # "out"
    BY DEF Conflict
  <2>2. /\ level[q] \in 1..level[q] /\ Holds(q, level[q]) /\ Stage(q, level[q]) = pc[q]
        /\ node_id_at_level(q, level[q]) = Node(p)
    BY <2>1, Here
  <2>3. CASE pc[p] = "deposit" /\ pc[q] = "compare"
    <3>1. pc[q] \in {"gate", "deposit", "announce", "meet"}
      BY <2>1, <2>2, <2>3, There
    <3> QED
      BY <2>3, <3>1
  <2>4. CASE pc[p] \in {"callback", "publish"} /\ pc[q] \in {"callback", "publish", "read"}
    <3>1. pc[q] \in {"meet", "compare", "wait"}
      BY <2>1, <2>2, <2>4, There DEF Above
    <3> QED
      BY <2>4, <3>1
  <2> QED
    BY <2>3, <2>4 DEF Conflict
<1> QED
  BY <1>1, MatchInvariant, PTL

-----------------------------------------------------------------------------
(* The rounds: an inductive invariant about the whole tree.                *)

Under(q, n) == \E j \in 1..N : node_id_at_level(q, j) = n

(* Whoever has met its opponent, lost, and may not have noticed yet.       *)
Lost(p) ==
  /\ pc[p] \in {"meet", "compare", "wait"}
  /\ arrived[Node(p)][Other(p)]
  /\ ~Wins(p)

(* A participant is in the last round whose callback has run, or in the    *)
(* next; callbacks tells which.                                            *)
RoundOf(p) ==
  /\ calls[p] \in {callbacks, callbacks + 1}
  /\ pc[p] \in Leaving \cup {"out", "publish", "notify"} => calls[p] = callbacks
  /\ pc[p] \in {"gate", "deposit", "announce", "callback"} => calls[p] = callbacks + 1
  /\ pc[p] \in {"meet", "compare", "wait"} /\ calls[p] = callbacks => Lost(p)
  /\ pc[p] \in {"meet", "compare", "wait"} /\ done[Node(p)] => calls[p] = callbacks
  /\ pc[p] = "callback" => Node(p) = Root
  /\ pc[p] = "publish" => Node(p) # Root

(* What is passed down is the value at the root.                           *)
Answer(p) ==
  /\ pc[p] \in {"publish", "notify", "reset_own", "reset_other", "reopen"}
       => compete_result[p] = winning_value[Root]
  /\ pc[p] = "notify" => winning_value[Node(p)] = winning_value[Root]
  /\ pc[p] \in {"meet", "compare", "wait", "read"} /\ done[Node(p)]
       => winning_value[Node(p)] = winning_value[Root]

(* Those who meet at a node are in the same round.                         *)
SameRound ==
  \A p, q \in Participants : \A k \in 1..level[p], l \in 1..level[q] :
    /\ Holds(p, k) /\ Holds(q, l)
    /\ node_id_at_level(p, k) = node_id_at_level(q, l)
    /\ ~done[node_id_at_level(p, k)]
    => calls[p] = calls[q]

(* q is in the round to be decided, has lost, and not against a smaller    *)
(* item than p's.                                                          *)
Conquered(p, q) ==
  /\ Lost(q)
  /\ calls[q] = callbacks + 1
  /\ ~done[Node(q)]
  /\ key[p] <= key[q]

(* Whoever has won a match of that round has won against everybody below.  *)
Champion ==
  \A p, q \in Participants : \A k \in 1..level[p] :
    /\ p # q
    /\ Holds(p, k)
    /\ Stage(p, k) \in Above
    /\ calls[p] = callbacks + 1
    /\ Under(q, node_id_at_level(p, k))
    => Conquered(p, q)

RoundInv ==
  /\ \A p \in Participants : RoundOf(p) /\ Answer(p)
  /\ SameRound
  /\ Champion

-----------------------------------------------------------------------------

(* Everybody below a node comes to it from one of its two sides.           *)
LEMMA UnderSide ==
  ASSUME Typed, NEW p \in Participants, NEW k \in 1..level[p],
         NEW q \in Participants \ {p}, NEW j \in 1..N,
         node_id_at_level(q, j) = node_id_at_level(p, k),
         index_at_level(q, j) = index_at_level(p, k)
  PROVE  /\ k > 1 /\ k - 1 \in 1..level[p] /\ k - 1 # level[p]
         /\ Under(q, node_id_at_level(p, k - 1))
<1>1. /\ N \in Nat /\ j \in Nat \ {0} /\ k \in Nat \ {0} /\ level[p] \in Nat \ {0}
      /\ j - 1 \in Nat /\ k - 1 \in Nat
  BY TreeAssumption, Position
<1>2. node_id_at_level(q, j - 1) = node_id_at_level(p, k - 1)
  BY <1>1, Sides
<1>3. k # 1
  <2> SUFFICES ASSUME k = 1 PROVE FALSE
    OBVIOUS
  <2>1. node_id_at_level(p, 0) = p + N
    BY Path
  <2>2. node_id_at_level(q, j - 1) = p + N
    BY <1>2, <2>1
  <2> QED
    BY <1>1, <2>2, Leaves
<1>4. k - 1 \in 1..level[p] /\ k - 1 # level[p] /\ k > 1
  BY <1>1, <1>3
<1>5. node_id_at_level(p, k - 1) \in Nodes
  BY <1>4, Position
<1>6. j - 1 # 0
  <2> SUFFICES ASSUME j - 1 = 0 PROVE FALSE
    OBVIOUS
  <2>1. node_id_at_level(q, 0) = q + N
    BY Path
  <2> QED
    BY <1>2, <1>5, <2>1, TreeAssumption DEF Nodes, Participants
<1>7. j - 1 \in 1..N
  BY <1>1, <1>6
<1> QED
  BY <1>2, <1>4, <1>7 DEF Under

(* The winner of a match beats everybody below the node.                   *)
LEMMA WinnerTakesAll ==
  ASSUME MatchInv, RoundInv, NEW p \in Participants, pc[p] = "compare", Wins(p)
  PROVE  /\ calls[p] = callbacks + 1
         /\ \A q \in Participants \ {p} : Under(q, Node(p)) => Conquered(p, q)
<1>1. calls[p] = callbacks + 1
  BY DEF RoundInv, RoundOf, Lost
<1>2. /\ Beats(Node(p), Index(p)) /\ Seat(p, level[p]) /\ Stage(p, level[p]) = "compare"
      /\ Holds(p, level[p]) /\ level[p] \in 1..level[p]
      /\ Node(p) = node_id_at_level(p, level[p]) /\ Node(p) \in Nodes
      /\ Index(p) = index_at_level(p, level[p])
      /\ Index(p) \in {0, 1} /\ Other(p) \in {0, 1} /\ Other(p) # Index(p)
      /\ Other(p) = 1 - Index(p)
  BY Here DEF Wins, Beats, Other
<1>3. /\ ~done[Node(p)] /\ arrived[Node(p)][Index(p)] /\ arrived[Node(p)][Other(p)]
      /\ item[Node(p)][Index(p)] = key[p]
  BY <1>2 DEF Seat
<1>4. PICK s \in Participants : \E l \in 1..level[s] :
        Holds(s, l) /\ node_id_at_level(s, l) = Node(p) /\ index_at_level(s, l) = Other(p)
  BY <1>2, <1>3 DEF MatchInv, Attended
<1>5. PICK l \in 1..level[s] :
        Holds(s, l) /\ node_id_at_level(s, l) = Node(p) /\ index_at_level(s, l) = Other(p)
  BY <1>4
<1>6. s # p
  <2> SUFFICES ASSUME s = p PROVE FALSE
    OBVIOUS
  <2>1. l = level[p]
    BY <1>2, <1>5, Position DEF MatchInv
  <2> QED
    BY <1>2, <1>5, <2>1
<1>7. Stage(s, l) \in {"meet", "compare", "wait"} /\ Seat(s, l)
  BY <1>2, <1>5, <1>6, There
<1>8. l = level[s] /\ pc[s] \in {"meet", "compare", "wait"}
  BY <1>7 DEF Stage
<1>9. Node(s) = Node(p) /\ Index(s) = Other(p) /\ Other(s) = Index(p)
  BY <1>2, <1>5, <1>8 DEF Node, Index, Other
<1>10. calls[s] = callbacks + 1
  BY <1>1, <1>2, <1>3, <1>5 DEF RoundInv, SameRound
<1>11. item[Node(p)][Other(p)] = key[s]
  BY <1>5, <1>7 DEF Seat
<1>12. ~Wins(s)
  <2>1. ~Beats(Node(p), Other(p))
    BY <1>2, OneBeats DEF MatchInv
  <2>2. 1 - Other(p) = Index(p)
    BY <1>2
  <2> QED
    BY <1>9, <2>1, <2>2 DEF Wins, Beats
<1>13. key[p] \in Int /\ key[s] \in Int
  BY TreeAssumption DEF MatchInv, Typed
<1>14. key[p] <= key[s]
  BY <1>3, <1>11, <1>13 DEF Wins, tie_compare
<1>15. Conquered(p, s)
  BY <1>3, <1>8, <1>9, <1>10, <1>12, <1>14 DEF Conquered, Lost
<1>16. ASSUME NEW q \in Participants \ {p}, Under(q, Node(p))
       PROVE  Conquered(p, q)
  <2>1. PICK j \in 1..N : node_id_at_level(q, j) = Node(p)
    BY <1>16 DEF Under
  <2>2. index_at_level(q, j) \in {0, 1}
    BY TreeAssumption, Sides
  <2>3. CASE index_at_level(q, j) = Index(p)
    <3>1. /\ level[p] - 1 \in 1..level[p] /\ level[p] - 1 # level[p]
          /\ Under(q, node_id_at_level(p, level[p] - 1))
      BY <1>2, <2>1, <2>3, UnderSide DEF MatchInv
    <3>2. Holds(p, level[p] - 1) /\ Stage(p, level[p] - 1) \in Above
      BY <3>1 DEF Holds, Stage, Above
    <3> QED
      BY <1>1, <3>1, <3>2 DEF RoundInv, Champion
  <2>4. CASE index_at_level(q, j) = Other(p) /\ q = s
    BY <1>15, <2>4
  <2>5. CASE index_at_level(q, j) = Other(p) /\ q # s
    <3>1. /\ l - 1 \in 1..level[s] /\ l - 1 # level[s]
          /\ Under(q, node_id_at_level(s, l - 1))
      BY <1>5, <2>1, <2>5, UnderSide DEF MatchInv
    <3>2. Holds(s, l - 1) /\ Stage(s, l - 1) \in Above
      BY <1>5, <3>1 DEF Holds, Stage, Above
    <3>3. Conquered(s, q)
      BY <1>10, <2>5, <3>1, <3>2 DEF RoundInv, Champion
    <3>4. key[q] \in Int
      BY TreeAssumption DEF MatchInv, Typed
    <3>5. key[s] <= key[q]
      BY <3>3 DEF Conquered
    <3>6. key[p] <= key[q]
      BY <1>13, <1>14, <3>4, <3>5
    <3> QED
      BY <3>3, <3>6 DEF Conquered
  <2> QED
    BY <1>2, <2>2, <2>3, <2>4, <2>5
<1> QED
  BY <1>1, <1>16

(* Whoever comes to a free side of a match that is open meets somebody of  *)
(* the round to be decided.                                                *)
LEMMA NewcomerRound ==
  ASSUME MatchInv, RoundInv, NEW n \in Nodes, NEW i \in {0, 1}, ~arrived[n][i],
         ~done[n],
         NEW q \in Participants, NEW l \in 1..level[q], Holds(q, l),
         node_id_at_level(q, l) = n, index_at_level(q, l) # i
  PROVE  calls[q] = callbacks + 1
<1>1. index_at_level(q, l) \in {0, 1}
  BY Position DEF MatchInv
<1>2. 1 - index_at_level(q, l) = i
  BY <1>1
<1>3. Seat(q, l)
  BY DEF MatchInv, Seats
<1>4. /\ Stage(q, l) \notin Above \cup {"compare", "wait", "read", "reset_own", "reset_other"}
      /\ Stage(q, l) \notin Leaving
  BY <1>2, <1>3 DEF Seat
<1>5. l = level[q]
  BY <1>4 DEF Stage, Above
<1>6. pc[q] \in Labels /\ Stage(q, l) = pc[q] /\ pc[q] # "out"
  BY <1>5 DEF MatchInv, Typed, Stage, Holds
<1>7. pc[q] \in {"gate", "deposit", "announce", "meet"}
  BY <1>4, <1>6 DEF Above, Leaving, Labels
<1>8. pc[q] = "meet" => ~Lost(q)
  BY <1>2, <1>5 DEF Lost, Node, Other, Index
<1> QED
  BY <1>7, <1>8 DEF RoundInv, RoundOf

(* What a step other than the callback leaves alone.                       *)
Quiet(p) ==
  /\ calls' = calls /\ callbacks' = callbacks /\ key' = key
  /\ winning_value'[Root] = winning_value[Root]
  /\ \A q \in Participants \ {p} :
       /\ pc'[q] = pc[q] /\ level'[q] = level[q]
       /\ compete_result'[q] = compete_result[q]
  /\ \A n \in Nodes \ {Node(p)} :
       /\ done'[n] = done[n] /\ winning_value'[n] = winning_value[n]
       /\ arrived'[n] = arrived[n] /\ item'[n] = item[n]
  /\ done'[Node(p)] /\ ~done[Node(p)] => pc[p] = "notify"
  /\ ~done'[Node(p)] /\ done[Node(p)] => pc[p] = "reopen"
  /\ winning_value'[Node(p)] # winning_value[Node(p)] => pc[p] = "publish"
  /\ item'[Node(p)] # item[Node(p)] => pc[p] = "deposit"
  /\ arrived'[Node(p)] # arrived[Node(p)] =>
       pc[p] \in {"announce", "reset_own", "reset_other"}

LEMMA StepIsQuiet ==
  ASSUME MatchInv, RoundInv, NEW p \in Participants, Step(p), ~Callback(p)
  PROVE  Quiet(p) /\ pc[p] # "out"
<1>1. CASE Gate(p) \/ Deposit(p) \/ Announce(p) \/ Meet(p)
  BY <1>1 DEF Gate, Deposit, Announce, Meet, Goto, Quiet, MatchInv, Typed
<1>2. CASE Compare(p)
  BY <1>2 DEF Compare, Goto, Quiet, MatchInv, Typed
<1>3. CASE Wait(p) \/ ReadValue(p) \/ ResetOwn(p) \/ ResetOther(p)
  BY <1>3 DEF Wait, ReadValue, ResetOwn, ResetOther, Goto, Quiet, MatchInv, Typed
<1>4. CASE Reopen(p) \/ Notify(p)
  BY <1>4 DEF Reopen, Notify, GoDown, Goto, Quiet, MatchInv, Typed
<1>5. CASE Publish(p)
  <2>1. Node(p) # Root
    BY <1>5 DEF Publish, Goto, RoundInv, RoundOf
  <2> QED
    BY <1>5, <2>1 DEF Publish, Goto, Quiet, MatchInv, Typed
<1> QED
  BY <1>1, <1>2, <1>3, <1>4, <1>5 DEF Step

(* A loser's match does not change behind its back.                        *)
LEMMA LostStays ==
  ASSUME MatchInv, NEW p \in Participants, pc[p] # "out", Quiet(p),
         NEW q \in Participants \ {p}, Lost(q)
  PROVE  Lost(q)'
<1>1. /\ pc[q] # "out" /\ Node(q) = node_id_at_level(q, level[q]) /\ Node(q) \in Nodes
      /\ level[q] \in 1..level[q] /\ Holds(q, level[q]) /\ Stage(q, level[q]) = pc[q]
      /\ Index(q) = index_at_level(q, level[q]) /\ Other(q) = 1 - Index(q)
  BY Here DEF Lost
<1>2. Node(q)' = Node(q) /\ Index(q)' = Index(q) /\ Other(q)' = Other(q) /\ pc'[q] = pc[q]
  BY DEF Quiet, Node, Index, Other
<1>3. arrived'[Node(q)] = arrived[Node(q)] /\ item'[Node(q)] = item[Node(q)]
  <2>1. CASE Node(q) # Node(p)
    BY <1>1, <2>1 DEF Quiet
  <2>2. CASE Node(q) = Node(p)
    <3>1. Other(q) = Index(p)
      BY <1>1, <2>2, There
    <3>2. arrived[Node(p)][Index(p)]
      BY <2>2, <3>1 DEF Lost
    <3>3. pc[p] \notin {"deposit", "announce"}
      BY <3>2, Here DEF Seat
    <3>4. pc[p] \notin {"reset_own", "reset_other"}
      <4> SUFFICES ASSUME pc[p] \in Leaving PROVE FALSE
        BY DEF Leaving
      <4>1. Stage(q, level[q]) = "gate"
        BY <1>1, <2>2, There
      <4> QED
        BY <1>1, <4>1 DEF Lost
    <3> QED
      BY <2>2, <3>3, <3>4 DEF Quiet
  <2> QED
    BY <2>1, <2>2
<1> QED
  BY <1>2, <1>3 DEF Lost, Wins

LEMMA ConqueredStays ==
  ASSUME MatchInv, RoundInv, NEW p \in Participants, pc[p] # "out", Quiet(p),
         NEW r \in Participants, NEW q \in Participants \ {p}, Conquered(r, q)
  PROVE  Conquered(r, q)'
<1>1. Lost(q)'
  BY LostStays DEF Conquered
<1>2. ~done'[Node(q)]
  <2>1. /\ level[q] \in 1..level[q] /\ Holds(q, level[q]) /\ Node(q) \in Nodes
        /\ Node(q) = node_id_at_level(q, level[q])
    BY Here DEF Conquered, Lost
  <2>2. /\ level[p] \in 1..level[p] /\ Holds(p, level[p])
        /\ Node(p) = node_id_at_level(p, level[p])
    BY Here
  <2>3. CASE Node(q) # Node(p)
    BY <2>1, <2>3 DEF Quiet, Conquered
  <2>4. CASE Node(q) = Node(p)
    <3>1. calls[p] = calls[q]
      BY <2>1, <2>2, <2>4 DEF Conquered, RoundInv, SameRound
    <3>2. calls[q] # callbacks
      BY DEF Conquered, MatchInv, Typed
    <3>3. pc[p] # "notify"
      BY <3>1, <3>2 DEF RoundInv, RoundOf
    <3> QED
      BY <2>4, <3>3 DEF Quiet, Conquered
  <2> QED
    BY <2>3, <2>4
<1>3. Node(q)' = Node(q)
  BY DEF Quiet, Node
<1> QED
  BY <1>1, <1>2, <1>3 DEF Quiet, Conquered

(* The other participants, when p makes a step.                            *)
LEMMA OthersStep ==
  ASSUME MatchInv, RoundInv, NEW p \in Participants, Step(p), ~Callback(p),
         NEW q \in Participants \ {p}
  PROVE  RoundOf(q)' /\ Answer(q)'
<1>1. Quiet(p) /\ pc[p] # "out"
  BY StepIsQuiet
<1>2. CASE pc[q] = "out"
  BY <1>1, <1>2 DEF RoundInv, RoundOf, Answer, Quiet, Leaving
<1>3. CASE pc[q] # "out"
  <2>1. /\ level[q] \in 1..level[q] /\ Holds(q, level[q]) /\ Node(q) \in Nodes
        /\ Stage(q, level[q]) = pc[q]
        /\ Node(q) = node_id_at_level(q, level[q])
    BY <1>3, Here
  <2>2. /\ level[p] \in 1..level[p] /\ Holds(p, level[p])
        /\ Node(p) = node_id_at_level(p, level[p])
        /\ Seat(p, level[p]) /\ Stage(p, level[p]) = pc[p]
    BY <1>1, Here
  <2>3. Node(q)' = Node(q) /\ pc'[q] = pc[q]
    BY <1>1 DEF Quiet, Node
  <2>4. Lost(q) => Lost(q)'
    BY <1>1, LostStays
  <2>5. CASE Node(q) # Node(p)
    <3>1. done'[Node(q)] = done[Node(q)] /\ winning_value'[Node(q)] = winning_value[Node(q)]
      BY <1>1, <2>1, <2>5 DEF Quiet
    <3>2. RoundOf(q)'
      BY <1>1, <2>3, <2>4, <3>1 DEF RoundInv, RoundOf, Quiet
    <3>3. Answer(q)'
      BY <1>1, <2>3, <3>1 DEF RoundInv, Answer, Quiet
    <3> QED
      BY <3>2, <3>3
  <2>6. CASE Node(q) = Node(p)
    <3>1. pc[p] \in Above => pc[q] \in {"meet", "compare", "wait"} /\ ~done[Node(p)]
      <4>1. pc[p] \in Above => ~done[Node(p)]
        BY <2>2 DEF Seat
      <4>2. pc[p] \in Above => pc[q] \in {"meet", "compare", "wait"}
        BY <1>1, <2>1, <2>6, There
      <4> QED
        BY <4>1, <4>2
    <3>2. pc[p] = "notify" => calls[q] = callbacks
      <4>1. pc[p] = "notify" => calls[p] = callbacks
        BY DEF RoundInv, RoundOf
      <4>2. ~done[Node(p)] => calls[p] = calls[q]
        BY <2>1, <2>2, <2>6 DEF RoundInv, SameRound
      <4> QED
        BY <3>1, <4>1, <4>2 DEF Above
    <3>3. RoundOf(q)'
      <4>1. done'[Node(q)] => done[Node(q)] \/ pc[p] = "notify"
        BY <1>1, <2>6 DEF Quiet
      <4> QED
        BY <1>1, <2>3, <2>4, <3>2, <4>1 DEF RoundInv, RoundOf, Quiet
    <3>4. Answer(q)'
      <4>1. CASE pc[p] = "publish"
        <5>1. ~done'[Node(q)] /\ pc[q] \in {"meet", "compare", "wait"}
          BY <1>1, <2>6, <3>1, <4>1 DEF Quiet, Above
        <5> QED
          BY <2>3, <5>1 DEF Answer
      <4>2. CASE pc[p] = "notify"
        <5>1. winning_value[Node(q)] = winning_value[Root]
          BY <2>6, <4>2 DEF RoundInv, Answer
        <5>2. pc[q] \in {"meet", "compare", "wait"}
          BY <3>1, <4>2 DEF Above
        <5>3. winning_value'[Node(q)] = winning_value'[Root]
          BY <1>1, <2>6, <4>2, <5>1 DEF Quiet
        <5> QED
          BY <2>3, <5>2, <5>3 DEF Answer
      <4>3. CASE pc[p] \notin {"publish", "notify"}
        <5>1. done'[Node(q)] => done[Node(q)]
          BY <1>1, <2>6, <4>3 DEF Quiet
        <5>2. winning_value'[Node(q)] = winning_value[Node(q)]
          BY <1>1, <2>6, <4>3 DEF Quiet
        <5> QED
          BY <1>1, <2>3, <5>1, <5>2 DEF RoundInv, Answer, Quiet
      <4> QED
        BY <4>1, <4>2, <4>3
    <3> QED
      BY <3>3, <3>4
  <2> QED
    BY <2>5, <2>6
<1> QED
  BY <1>2, <1>3

(* The participant that makes the step.                                    *)
LEMMA OwnStep ==
  ASSUME MatchInv, RoundInv, NEW p \in Participants, Step(p), ~Callback(p)
  PROVE  RoundOf(p)' /\ Answer(p)'
<1>1. Quiet(p) /\ pc[p] # "out"
  BY StepIsQuiet
<1>2. RoundOf(p) /\ Answer(p) /\ Seat(p, level[p]) /\ Stage(p, level[p]) = pc[p]
      /\ Node(p) = node_id_at_level(p, level[p]) /\ Index(p) = index_at_level(p, level[p])
      /\ Node(p) \in Nodes
  BY <1>1, Here DEF RoundInv
<1>3. CASE Gate(p) \/ Deposit(p)
  <2>1. /\ pc'[p] \in {"deposit", "announce"} /\ calls[p] = callbacks + 1
    BY <1>2, <1>3 DEF Gate, Deposit, Goto, RoundOf, MatchInv, Typed
  <2> QED
    BY <1>1, <1>2, <2>1 DEF Quiet, RoundOf, Answer, Leaving
<1>4. CASE Announce(p)
  <2>1. pc[p] = "announce" /\ pc'[p] = "meet" /\ Node(p)' = Node(p) /\ done' = done
    BY <1>4 DEF Announce, Goto, Node, MatchInv, Typed
  <2>2. ~done[Node(p)] /\ calls[p] = callbacks + 1
    BY <1>2, <2>1 DEF Seat, RoundOf
  <2>3. calls[p] # callbacks
    BY <2>2 DEF MatchInv, Typed
  <2> QED
    BY <1>1, <2>1, <2>2, <2>3 DEF Quiet, RoundOf, Answer, Leaving
<1>5. CASE Meet(p)
  <2>1. /\ pc[p] = "meet" /\ pc'[p] = "compare" /\ Node(p)' = Node(p) /\ done' = done
        /\ winning_value' = winning_value
    BY <1>5 DEF Meet, Goto, Node, MatchInv, Typed
  <2>2. Lost(p) => Lost(p)'
    BY <1>5, <2>1 DEF Meet, Lost, Wins, Node, Other, Index
  <2> QED
    BY <1>1, <1>2, <2>1, <2>2 DEF Quiet, RoundOf, Answer, Leaving
<1>6. CASE Compare(p) /\ ~Wins(p)
  <2>1. /\ pc[p] = "compare" /\ pc'[p] = "wait" /\ Node(p)' = Node(p) /\ done' = done
        /\ winning_value' = winning_value
    BY <1>6 DEF Compare, Goto, Node, MatchInv, Typed
  <2>2. Lost(p) => Lost(p)'
    BY <1>6, <2>1 DEF Compare, Lost, Wins, Node, Other, Index
  <2> QED
    BY <1>1, <1>2, <2>1, <2>2 DEF Quiet, RoundOf, Answer, Leaving
<1>7. CASE Compare(p) /\ Wins(p)
  <2>1. calls[p] = callbacks + 1
    BY <1>7, WinnerTakesAll DEF Compare, Goto
  <2>2. \/ pc'[p] = "gate"
        \/ pc'[p] = "callback" /\ Node(p)' = Root
    BY <1>7 DEF Compare, Goto, Node, MatchInv, Typed
  <2> QED
    BY <1>1, <2>1, <2>2 DEF Quiet, RoundOf, Answer, Leaving
<1>8. CASE Wait(p)
  <2>1. /\ pc[p] = "wait" /\ pc'[p] = "read" /\ Node(p)' = Node(p) /\ done' = done
        /\ winning_value' = winning_value /\ done[Node(p)]
    BY <1>8 DEF Wait, Goto, Node, MatchInv, Typed
  <2> QED
    BY <1>1, <1>2, <2>1 DEF Quiet, RoundOf, Answer, Leaving
<1>9. CASE ReadValue(p)
  <2>1. /\ pc[p] = "read" /\ pc'[p] = "reset_own"
        /\ compete_result'[p] = winning_value[Node(p)]
    BY <1>9 DEF ReadValue, Goto, MatchInv, Typed
  <2>2. winning_value[Node(p)] = winning_value[Root]
    BY <1>2, <2>1 DEF Seat, Leaving, Answer
  <2> QED
    BY <1>1, <1>2, <2>1, <2>2 DEF Quiet, RoundOf, Answer, Leaving
<1>10. CASE ResetOwn(p) \/ ResetOther(p)
  <2>1. /\ pc[p] \in {"reset_own", "reset_other"} /\ pc'[p] \in {"reset_other", "reopen"}
        /\ compete_result' = compete_result
    BY <1>10 DEF ResetOwn, ResetOther, Goto, MatchInv, Typed
  <2> QED
    BY <1>1, <1>2, <2>1 DEF Quiet, RoundOf, Answer, Leaving
<1>11. CASE Reopen(p) \/ Notify(p)
  <2>1. /\ pc[p] \in {"reopen", "notify"} /\ compete_result' = compete_result
        /\ \/ pc'[p] = "out"
           \/ pc'[p] = "publish" /\ Node(p)' # Root
    <3>1. pc[p] \in {"reopen", "notify"} /\ compete_result' = compete_result
      BY <1>11 DEF Reopen, Notify, GoDown, Goto
    <3>2. CASE level[p] > 1 /\ pc'[p] = "publish" /\ level'[p] = level[p] - 1
      BY <1>1, <3>1, <3>2, NodeBelow DEF Node
    <3>3. CASE pc'[p] = "out"
      BY <3>1, <3>3
    <3> QED
      BY <1>11, <3>2, <3>3 DEF Reopen, Notify, GoDown, Goto, MatchInv, Typed
  <2> QED
    BY <1>1, <1>2, <2>1 DEF Quiet, RoundOf, Answer, Leaving
<1>12. CASE Publish(p)
  <2>1. /\ pc[p] = "publish" /\ pc'[p] = "notify" /\ Node(p)' = Node(p)
        /\ compete_result' = compete_result
        /\ winning_value'[Node(p)] = compete_result[p]
    BY <1>2, <1>12 DEF Publish, Goto, Node, MatchInv, Typed
  <2> QED
    BY <1>1, <1>2, <2>1 DEF Quiet, RoundOf, Answer, Leaving
<1> QED
  BY <1>3, <1>4, <1>5, <1>6, <1>7, <1>8, <1>9, <1>10, <1>11, <1>12 DEF Step

(* The only new place a step takes is the one a winner climbs to.          *)
LEMMA PlacesStep ==
  ASSUME MatchInv, NEW p \in Participants, Step(p), NEW k, Holds(p, k)'
  PROVE  \/ Holds(p, k) /\ (k = level[p] /\ pc[p] # "compare" => level'[p] = level[p])
         \/ Compare(p) /\ Wins(p) /\ k = level[p] + 1 /\ level'[p] = k /\ pc'[p] = "gate"
<1>1. level[p] \in Nat \ {0} /\ pc[p] # "out"
  <2>1. pc[p] # "out"
    BY DEF Step, Gate, Deposit, Announce, Meet, Compare, Callback, Wait, ReadValue,
           ResetOwn, ResetOther, Reopen, Publish, Notify, GoDown, Goto
  <2> QED
    BY <2>1, TreeAssumption DEF MatchInv, Typed
<1>2. CASE level' = level
  BY <1>1, <1>2 DEF Holds
<1>3. CASE level[p] > 1 /\ level' = [level EXCEPT ![p] = @ - 1]
  <2>1. level'[p] = level[p] - 1
    BY <1>3 DEF MatchInv, Typed
  <2>2. k \in 1..level[p] /\ k # level[p]
    BY <1>1, <2>1 DEF Holds
  <2> QED
    BY <1>1, <2>2 DEF Holds
<1>4. CASE Compare(p) /\ Wins(p) /\ level' = [level EXCEPT ![p] = @ + 1]
  <2>1. level'[p] = level[p] + 1 /\ level' # level
    BY <1>1, <1>4 DEF MatchInv, Typed
  <2>2. pc'[p] = "gate" /\ pc[p] = "compare"
    BY <1>4, <2>1 DEF Compare, Goto, MatchInv, Typed
  <2>3. k \in 1..level[p] \/ k = level[p] + 1
    BY <1>1, <2>1 DEF Holds
  <2> QED
    BY <1>1, <1>4, <2>1, <2>2, <2>3 DEF Holds
<1> QED
  BY <1>2, <1>3, <1>4 DEF Step, Gate, Deposit, Announce, Meet, Compare, Callback, Wait,
     ReadValue, ResetOwn, ResetOther, Reopen, Publish, Notify, GoDown

LEMMA ClimberRound ==
  ASSUME MatchInv, RoundInv, MatchInv', NEW p \in Participants, Compare(p), Wins(p),
         NEW k \in (1..level[p])', Holds(p, k)', level'[p] = k, pc'[p] = "gate",
         NEW q \in Participants \ {p}, NEW l \in 1..level[q], Holds(q, l), Holds(q, l)',
         node_id_at_level(q, l) = node_id_at_level(p, k),
         ~done[node_id_at_level(p, k)]
  PROVE  calls[p] = calls[q]
<1>1. calls[p] = callbacks + 1
  BY WinnerTakesAll DEF Compare, Goto
<1>2. node_id_at_level(p, k) \in Nodes /\ index_at_level(p, k) \in {0, 1}
  <2>1. k \in Nat \ {0}
    BY TreeAssumption DEF MatchInv, Typed
  <2> QED
    BY <2>1, Sides, Position DEF MatchInv
<1>3. ~arrived[node_id_at_level(p, k)][index_at_level(p, k)]
  <2>1. Seat(p, k)' /\ Stage(p, k)' = "gate"
    BY DEF MatchInv, Seats, Stage
  <2> QED
    BY <2>1 DEF Seat, Compare
<1>4. index_at_level(q, l) # index_at_level(p, k)
  BY DEF MatchInv, OneHolder, Holds
<1>5. calls[q] = callbacks + 1
  BY <1>2, <1>3, <1>4, NewcomerRound
<1> QED
  BY <1>1, <1>5

LEMMA SameRoundStep ==
  ASSUME MatchInv, RoundInv, MatchInv', NEW p \in Participants, Step(p), ~Callback(p)
  PROVE  SameRound'
<1> SUFFICES ASSUME NEW r \in Participants, NEW q \in Participants, r # q,
                    NEW k \in (1..level[r])', NEW l \in (1..level[q])',
                    Holds(r, k)', Holds(q, l)',
                    node_id_at_level(r, k) = node_id_at_level(q, l),
                    ~done'[node_id_at_level(r, k)]
             PROVE  calls'[r] = calls'[q]
  BY DEF SameRound
<1> DEFINE n == node_id_at_level(r, k)
<1>1. Quiet(p) /\ pc[p] # "out" /\ calls' = calls
  BY StepIsQuiet DEF Quiet
<1>2. /\ \A o \in Participants \ {p} : \A j : Holds(o, j)' <=> Holds(o, j)
  BY <1>1 DEF Quiet, Holds
<1>3. n \in Nodes
  <2>1. CASE Holds(r, k)
    BY <2>1, Position DEF MatchInv, Holds
  <2>2. CASE ~Holds(r, k)
    <3>1. r = p /\ level'[p] = k
      BY <1>2, <2>2, PlacesStep
    <3> QED
      BY <3>1 DEF MatchInv, Typed, Node
  <2> QED
    BY <2>1, <2>2
<1>4. CASE Holds(r, k) /\ Holds(q, l) /\ ~done[n]
  BY <1>1, <1>4 DEF RoundInv, SameRound, Holds
<1>5. CASE Holds(r, k) /\ Holds(q, l) /\ done[n]
  <2>1. n = Node(p) /\ pc[p] = "reopen"
    BY <1>1, <1>3, <1>5 DEF Quiet
  <2>2. ASSUME NEW j \in 1..level[p], node_id_at_level(p, j) = n, Holds(p, j)'
        PROVE  FALSE
    <3>1. j = level[p] /\ level[p] \in Nat
      BY <1>1, <2>1, <2>2, Position, Here DEF MatchInv
    <3>2. Reopen(p)
      BY <2>1 DEF Step, Gate, Deposit, Announce, Meet, Compare, Callback, Wait,
         ReadValue, ResetOwn, ResetOther, Publish, Notify, GoDown, Goto
    <3>3. pc'[p] = "out" \/ level'[p] = level[p] - 1
      BY <3>2 DEF Reopen, GoDown, Goto, MatchInv, Typed
    <3> QED
      BY <2>2, <3>1, <3>3 DEF Holds
  <2>3. r # p /\ q # p
    BY <1>5, <2>2 DEF Holds
  <2>4. index_at_level(r, k) = Other(p) /\ index_at_level(q, l) = Other(p)
    BY <1>1, <1>5, <2>1, <2>3, There DEF Holds
  <2> QED
    BY <1>5, <2>4 DEF MatchInv, OneHolder, Holds
<1>6. CASE ~Holds(r, k)
  <2>1. r = p
    BY <1>2, <1>6
  <2>2. Compare(p) /\ Wins(p) /\ level'[p] = k /\ pc'[p] = "gate"
    BY <1>6, <2>1, PlacesStep
  <2>3. Holds(q, l) /\ l \in 1..level[q] /\ ~done[n]
    BY <1>2, <2>1, <2>2 DEF Holds, Compare
  <2> QED
    BY <1>1, <2>1, <2>2, <2>3, ClimberRound
<1>7. CASE ~Holds(q, l)
  <2>1. q = p
    BY <1>2, <1>7
  <2>2. Compare(p) /\ Wins(p) /\ level'[p] = l /\ pc'[p] = "gate"
    BY <1>7, <2>1, PlacesStep
  <2>3. Holds(r, k) /\ k \in 1..level[r] /\ ~done[n]
    BY <1>2, <2>1, <2>2 DEF Holds, Compare
  <2> QED
    BY <1>1, <2>1, <2>2, <2>3, ClimberRound
<1> QED
  BY <1>4, <1>5, <1>6, <1>7

LEMMA ChampionStep ==
  ASSUME MatchInv, RoundInv, MatchInv', NEW p \in Participants, Step(p), ~Callback(p)
  PROVE  Champion'
<1> SUFFICES ASSUME NEW r \in Participants, NEW q \in Participants, r # q,
                    NEW k \in (1..level[r])', Holds(r, k)', Stage(r, k)' \in Above,
                    calls'[r] = callbacks' + 1,
                    Under(q, node_id_at_level(r, k))
             PROVE  Conquered(r, q)'
  BY DEF Champion, Under
<1>1. Quiet(p) /\ pc[p] # "out" /\ calls'[r] = calls[r] /\ callbacks' = callbacks
      /\ key' = key
  BY StepIsQuiet DEF Quiet
<1>2. callbacks \in Nat /\ calls[r] = callbacks + 1 /\ calls[r] # callbacks
  BY <1>1 DEF MatchInv, Typed
(* r had won that match already, or wins it now.                           *)
<1>3. Conquered(r, q)
  <2>1. CASE r # p
    <3>1. Holds(r, k) /\ Stage(r, k) \in Above
      BY <1>1, <2>1 DEF Quiet, Holds, Stage
    <3> QED
      BY <1>1, <1>2, <3>1 DEF RoundInv, Champion, Holds
  <2>2. CASE r = p /\ Compare(p) /\ Wins(p) /\ k = level[p]
    BY <2>2, WinnerTakesAll DEF Compare, Goto, Node
  <2>3. CASE r = p /\ ~(Compare(p) /\ Wins(p) /\ k = level[p])
    <3>1. Holds(p, k) /\ Stage(p, k) \in Above
      <4>1. CASE ~Holds(p, k)
        <5>1. level'[p] = k /\ pc'[p] = "gate"
          BY <2>3, <4>1, PlacesStep
        <5> QED
          BY <2>3, <5>1 DEF Stage, Above
      <4>2. CASE Holds(p, k) /\ k # level[p]
        BY <4>2 DEF Stage, Above
      <4>3. CASE Holds(p, k) /\ k = level[p]
        <5>1. RoundOf(p)'
          BY OwnStep
        <5>2. pc'[p] \notin {"publish", "notify"}
          BY <1>1, <1>2, <2>3, <5>1 DEF RoundOf
        <5>3. level'[p] = level[p]
          <6>1. CASE pc[p] = "compare"
            <7>1. Compare(p)
              BY <6>1 DEF Step, Gate, Deposit, Announce, Meet, Callback, Wait, ReadValue,
                 ResetOwn, ResetOther, Reopen, Publish, Notify, GoDown, Goto
            <7>2. ~Wins(p)
              BY <2>3, <4>3, <7>1
            <7> QED
              BY <7>1, <7>2 DEF Compare
          <6>2. CASE pc[p] # "compare"
            BY <2>3, <4>3, <6>2, PlacesStep
          <6> QED
            BY <6>1, <6>2
        <5>4. pc'[p] \in Above
          BY <2>3, <4>3, <5>3 DEF Stage
        <5>5. pc'[p] = "callback"
          <6>1. pc'[p] \in Labels
            BY DEF MatchInv, Typed
          <6> QED
            BY <5>2, <5>4, <6>1 DEF Above, Labels
        <5>6. Compare(p) /\ Wins(p)
          BY <5>5 DEF Step, Gate, Deposit, Announce, Meet, Compare, Callback, Wait,
             ReadValue, ResetOwn, ResetOther, Reopen, Publish, Notify, GoDown, Goto,
             MatchInv, Typed
        <5> QED
          BY <2>3, <4>3, <5>6
      <4> QED
        BY <4>1, <4>2, <4>3
    <3> QED
      BY <1>1, <1>2, <2>3, <3>1 DEF RoundInv, Champion, Holds
  <2> QED
    BY <2>1, <2>2, <2>3
<1>4. CASE q # p
  BY <1>1, <1>3, <1>4, ConqueredStays
(* The conquered one can only find out that it has lost.                   *)
<1>5. CASE q = p
  <2>1. /\ pc[p] \in {"meet", "compare", "wait"} /\ ~done[Node(p)] /\ ~Wins(p)
        /\ arrived[Node(p)][Other(p)]
    BY <1>3, <1>5 DEF Conquered, Lost
  <2>2. Meet(p) \/ Compare(p)
    BY <2>1 DEF Step, Gate, Deposit, Announce, Wait, Callback, ReadValue, ResetOwn,
       ResetOther, Reopen, Publish, Notify, GoDown, Goto
  <2>3. /\ level' = level /\ done' = done /\ arrived' = arrived /\ item' = item
        /\ pc'[p] \in {"compare", "wait"}
    BY <2>1, <2>2 DEF Meet, Compare, Goto, MatchInv, Typed
  <2>4. Lost(p)' /\ Node(p)' = Node(p)
    BY <2>1, <2>3 DEF Lost, Wins, Node, Other, Index
  <2> QED
    BY <1>1, <1>3, <1>5, <2>1, <2>3, <2>4 DEF Conquered, Quiet
<1> QED
  BY <1>4, <1>5

(* The callback: everybody has lost to the winner of the root, and the     *)
(* round they are in becomes the last one decided.                         *)
LEMMA CallbackDecides ==
  ASSUME MatchInv, RoundInv, NEW p \in Participants, pc[p] = "callback"
  PROVE  /\ Node(p) = Root
         /\ calls[p] = callbacks + 1
         /\ \A q \in Participants \ {p} : Conquered(p, q)
<1>1. Node(p) = Root /\ calls[p] = callbacks + 1
  BY DEF RoundInv, RoundOf
<1>2. Holds(p, level[p]) /\ Stage(p, level[p]) \in Above /\ level[p] \in 1..level[p]
  BY Here DEF Above
<1>3. \A q \in Participants : Under(q, Root)
  BY RootOnPath DEF Under
<1> QED
  BY <1>1, <1>2, <1>3 DEF RoundInv, Champion, Node

LEMMA RoundCallback ==
  ASSUME MatchInv, RoundInv, MatchInv', NEW p \in Participants, Callback(p)
  PROVE  RoundInv'
<1>1. /\ pc[p] = "callback" /\ pc'[p] = "notify" /\ callbacks' = callbacks + 1
      /\ compete_result'[p] = key[p] /\ winning_value'[Node(p)] = key[p]
      /\ Node(p)' = Node(p) /\ level' = level /\ calls' = calls /\ done' = done
      /\ \A q \in Participants \ {p} : pc'[q] = pc[q]
      /\ arrived' = arrived /\ item' = item
  BY DEF Callback, Goto, Node, MatchInv, Typed
<1>2. /\ Node(p) = Root /\ calls[p] = callbacks + 1
      /\ \A q \in Participants \ {p} : Conquered(p, q)
  BY <1>1, CallbackDecides
<1>3. callbacks \in Nat /\ callbacks + 1 # callbacks /\ callbacks' + 1 # callbacks'
  BY <1>1 DEF MatchInv, Typed
<1>4. \A q \in Participants : calls'[q] = callbacks'
  BY <1>1, <1>2 DEF Conquered
<1>5. ASSUME NEW q \in Participants PROVE RoundOf(q)' /\ Answer(q)'
  <2>1. CASE q = p
    BY <1>1, <1>2, <1>4, <2>1 DEF RoundOf, Answer, Leaving
  <2>2. CASE q # p
    <3>1. Conquered(p, q)
      BY <1>2, <2>2
    <3>2. Lost(q)' /\ Node(q)' = Node(q)
      BY <1>1, <2>2, <3>1 DEF Conquered, Lost, Wins, Node, Other, Index
    <3>3. pc'[q] \in {"meet", "compare", "wait"} /\ ~done'[Node(q)']
      BY <1>1, <2>2, <3>1, <3>2 DEF Conquered, Lost
    <3> QED
      BY <1>4, <3>2, <3>3 DEF RoundOf, Answer, Leaving
  <2> QED
    BY <2>1, <2>2
<1>6. SameRound'
  BY <1>4 DEF SameRound
<1>7. Champion'
  BY <1>3, <1>4 DEF Champion
<1> QED
  BY <1>5, <1>6, <1>7 DEF RoundInv

LEMMA RoundEnter ==
  ASSUME MatchInv, RoundInv, MatchInv', NEW p \in Participants, Enter(p)
  PROVE  RoundInv'
<1>1. /\ pc[p] = "out" /\ pc'[p] = "gate" /\ level'[p] = 1 /\ calls'[p] = calls[p] + 1
      /\ calls[p] = callbacks /\ callbacks' = callbacks
      /\ \A q \in Participants \ {p} :
           /\ pc'[q] = pc[q] /\ level'[q] = level[q] /\ key'[q] = key[q]
           /\ calls'[q] = calls[q]
      /\ done' = done /\ arrived' = arrived /\ item' = item
      /\ winning_value' = winning_value /\ compete_result' = compete_result
  BY DEF Enter, Goto, MatchInv, Typed, RoundInv, RoundOf
<1>2. \A q \in Participants \ {p} : Node(q)' = Node(q) /\ (Lost(q) => Lost(q)')
  BY <1>1 DEF Lost, Wins, Node, Other, Index
<1>3. ASSUME NEW q \in Participants PROVE RoundOf(q)' /\ Answer(q)'
  <2>1. CASE q = p
    BY <1>1, <2>1 DEF RoundOf, Answer, Leaving
  <2>2. CASE q # p
    <3>1. RoundOf(q)'
      BY <1>1, <1>2, <2>2 DEF RoundInv, RoundOf
    <3>2. Answer(q)'
      BY <1>1, <1>2, <2>2 DEF RoundInv, Answer
    <3> QED
      BY <3>1, <3>2
  <2> QED
    BY <2>1, <2>2
<1>4. \A q \in Participants \ {p} : \A l : Holds(q, l)' <=> Holds(q, l)
  BY <1>1 DEF Holds
<1>5. \A k : Holds(p, k)' => k = 1
  BY <1>1 DEF Holds
<1>6. ASSUME NEW q \in Participants \ {p}, NEW l \in 1..level[q], Holds(q, l),
             node_id_at_level(q, l) = node_id_at_level(p, 1),
             ~done[node_id_at_level(p, 1)]
      PROVE  calls'[q] = calls'[p]
  <2>1. node_id_at_level(p, 1) \in Nodes /\ index_at_level(p, 1) \in {0, 1}
    BY LowestNode, Sides
  <2>2. Holds(p, 1)' /\ 1 \in (1..level[p])' /\ Stage(p, 1)' = "gate"
    BY <1>1 DEF Holds, Stage
  <2>3. ~arrived[node_id_at_level(p, 1)][index_at_level(p, 1)]
    <3>1. Seat(p, 1)'
      BY <2>2 DEF MatchInv, Seats
    <3> QED
      BY <1>1, <1>6, <2>2, <3>1 DEF Seat
  <2>4. Holds(q, l)' /\ l \in (1..level[q])'
    BY <1>1, <1>4, <1>6
  <2>5. index_at_level(q, l) # index_at_level(p, 1)
    BY <1>6, <2>2, <2>4 DEF MatchInv, OneHolder
  <2>6. calls[q] = callbacks + 1
    BY <1>6, <2>1, <2>3, <2>5, NewcomerRound
  <2> QED
    BY <1>1, <2>6
<1>7. SameRound'
  <2> SUFFICES ASSUME NEW r \in Participants, NEW q \in Participants, r # q,
                      NEW k \in (1..level[r])', NEW l \in (1..level[q])',
                      Holds(r, k)', Holds(q, l)',
                      node_id_at_level(r, k) = node_id_at_level(q, l),
                      ~done[node_id_at_level(r, k)]
               PROVE  calls'[r] = calls'[q]
    BY <1>1 DEF SameRound
  <2>1. CASE r = p
    BY <1>4, <1>5, <1>6, <2>1 DEF Holds
  <2>2. CASE q = p
    BY <1>4, <1>5, <1>6, <2>2 DEF Holds
  <2>3. CASE r # p /\ q # p
    BY <1>1, <1>4, <2>3 DEF RoundInv, SameRound, Holds
  <2> QED
    BY <2>1, <2>2, <2>3
<1>8. Champion'
  <2> SUFFICES ASSUME NEW r \in Participants, NEW q \in Participants, r # q,
                      NEW k \in (1..level[r])', Holds(r, k)', Stage(r, k)' \in Above,
                      calls'[r] = callbacks' + 1,
                      Under(q, node_id_at_level(r, k))
               PROVE  Conquered(r, q)'
    BY DEF Champion, Under
  <2>1. r # p
    BY <1>1, <1>5 DEF Stage, Above
  <2>2. Holds(r, k) /\ k \in 1..level[r] /\ Stage(r, k) \in Above
    BY <1>1, <1>4, <2>1 DEF Stage
  <2>3. Conquered(r, q)
    BY <1>1, <2>1, <2>2 DEF RoundInv, Champion
  <2>4. q # p
    BY <1>1, <2>3 DEF Conquered, Lost
  <2> QED
    BY <1>1, <1>2, <2>1, <2>3, <2>4 DEF Conquered
<1> QED
  BY <1>3, <1>7, <1>8 DEF RoundInv

LEMMA RoundInit == Init => RoundInv
<1> SUFFICES ASSUME Init PROVE RoundInv
  OBVIOUS
<1>1. \A p \in Participants : RoundOf(p) /\ Answer(p)
  BY DEF Init, RoundOf, Answer, Leaving
<1> QED
  BY <1>1 DEF Init, RoundInv, SameRound, Champion, Holds

LEMMA RoundStutter == RoundInv /\ UNCHANGED vars => RoundInv'
BY DEF vars, RoundInv, RoundOf, Answer, SameRound, Champion, Conquered, Lost, Wins,
   Under, Holds, Stage, Node, Other, Index

LEMMA RoundNext == MatchInv /\ MatchInv' /\ RoundInv /\ [Next]_vars => RoundInv'
<1> SUFFICES ASSUME MatchInv, MatchInv', RoundInv, [Next]_vars PROVE RoundInv'
  OBVIOUS
<1>1. ASSUME NEW p \in Participants, Enter(p) PROVE RoundInv'
  BY <1>1, RoundEnter
<1>2. ASSUME NEW p \in Participants, Callback(p) PROVE RoundInv'
  BY <1>2, RoundCallback
<1>3. ASSUME NEW p \in Participants, Step(p), ~Callback(p) PROVE RoundInv'
  <2>1. \A q \in Participants : RoundOf(q)' /\ Answer(q)'
    BY <1>3, OwnStep, OthersStep
  <2> QED
    BY <1>3, <2>1, SameRoundStep, ChampionStep DEF RoundInv
<1>4. CASE UNCHANGED vars
  BY <1>4, RoundStutter
<1>5. CASE Finished
  BY <1>5, RoundStutter DEF Finished
<1> QED
  BY <1>1, <1>2, <1>3, <1>4, <1>5 DEF Next

(* Every step keeps the rounds apart and the winners ahead.                *)
THEOREM RoundInvariant == Spec => []RoundInv
<1>1. Init => RoundInv
  BY RoundInit
<1>2. MatchInv /\ MatchInv' /\ RoundInv /\ [Next]_vars => RoundInv'
  BY RoundNext
<1> QED
  BY <1>1, <1>2, MatchInvariant, PTL DEF Spec

(* Whatever is at a label of compete() and wherever it climbs to, it stays *)
(* in the tree; and a round's callback has run for calls that were made.   *)
THEOREM TreeTypeCorrect == Spec => []TypeOK
<1>1. MatchInv /\ RoundInv => TypeOK
  <2> SUFFICES ASSUME MatchInv, RoundInv PROVE TypeOK
    OBVIOUS
  <2>1. 0 \in Participants /\ MaxRounds \in Nat
    BY TreeAssumption DEF Participants
  <2>2. calls[0] \in {callbacks, callbacks + 1} /\ calls[0] \in 0..MaxRounds
    BY <2>1 DEF RoundInv, RoundOf, MatchInv, Typed
  <2>3. callbacks \in 0..MaxRounds
    BY <2>1, <2>2 DEF MatchInv, Typed
  <2> QED
    BY <2>3 DEF MatchInv, Typed, TypeOK
<1> QED
  BY <1>1, MatchInvariant, RoundInvariant, PTL

-----------------------------------------------------------------------------
(* The refinement.                                                         *)

LEMMA RefinesInit == Init => Reduction!Init
<1> SUFFICES ASSUME Init PROVE Reduction!Init
  OBVIOUS
<1>1. Root \in Nodes
  BY TreeAssumption DEF Root, Nodes
<1> QED
  BY <1>1, TypedUnset DEF Init, Reduction!Init, Pending

(* Entering is the abstract Enter.                                         *)
LEMMA RefinesEnter ==
  ASSUME MatchInv, RoundInv, NEW p \in Participants, Enter(p)
  PROVE  Reduction!Enter(p)
<1>1. /\ pc[p] = "out" /\ pc'[p] = "gate" /\ calls'[p] = callbacks + 1
      /\ callbacks' = callbacks
      /\ winning_value' = winning_value /\ compete_result' = compete_result
      /\ callbacks \in Nat
      /\ \A q \in Participants \ {p} :
           pc'[q] = pc[q] /\ calls'[q] = calls[q] /\ key'[q] = key[q]
  BY DEF Enter, Goto, MatchInv, Typed, RoundInv, RoundOf
<1>2. PICK k \in Keys : key' = [key EXCEPT ![p] = k]
  BY DEF Enter
<1>3. key'[p] = k
  BY <1>2 DEF MatchInv, Typed
<1> DEFINE state == [q \in Participants |-> IF pc[q] = "out" THEN "out" ELSE "in"]
           value == [q \in Participants |->
                       IF pc[q] = "out" THEN compete_result[q] ELSE key[q]]
           pending == {q \in Participants : pc[q] # "out" /\ calls[q] = callbacks}
<1>4. state[p] = "out" /\ state' = [state EXCEPT ![p] = "in"]
  BY <1>1
<1>5. value' = [value EXCEPT ![p] = k]
  BY <1>1, <1>3
<1>6. pending' = pending
  <2>1. p \notin pending /\ p \notin pending'
    BY <1>1
  <2>2. \A q \in Participants \ {p} : q \in pending' <=> q \in pending
    BY <1>1
  <2> QED
    BY <2>1, <2>2
<1>7. winning_value'[Root] = winning_value[Root]
  BY <1>1
<1> QED
  BY <1>4, <1>5, <1>6, <1>7 DEF Reduction!Enter, Pending

(* The callback is the abstract decision.                                  *)
LEMMA RefinesCallback ==
  ASSUME MatchInv, RoundInv, NEW p \in Participants, Callback(p)
  PROVE  Reduction!Decide
<1>1. /\ pc[p] = "callback" /\ callbacks' = callbacks + 1 /\ calls' = calls /\ key' = key
      /\ winning_value'[Node(p)] = key[p] /\ pc'[p] = "notify"
      /\ \A q \in Participants \ {p} : pc'[q] = pc[q]
      /\ callbacks \in Nat
  BY DEF Callback, Goto, MatchInv, Typed
<1>2. /\ Node(p) = Root /\ calls[p] = callbacks + 1
      /\ \A q \in Participants \ {p} : Conquered(p, q)
  BY <1>1, CallbackDecides
<1>3. \A q \in Participants :
        /\ pc[q] # "out" /\ pc'[q] # "out"
        /\ calls[q] = callbacks + 1
        /\ key[p] <= key[q]
  <2>1. key[p] \in Int
    BY TreeAssumption DEF MatchInv, Typed
  <2> QED
    BY <1>1, <1>2, <2>1 DEF Conquered, Lost
<1>4. \A q \in Participants : calls[q] # callbacks
  BY <1>1, <1>3
<1>5. {q \in Participants : pc[q] # "out" /\ calls[q] = callbacks} = {}
  BY <1>4
<1>6. {q \in Participants : pc'[q] # "out" /\ calls'[q] = callbacks'} = Participants
  BY <1>1, <1>3
<1>7. winning_value'[Root] = key[p]
  BY <1>1, <1>2
<1> QED
  BY <1>1, <1>3, <1>5, <1>6, <1>7 DEF Reduction!Decide, Pending

(* The last step of a call is the abstract Leave.                          *)
LEMMA RefinesReturn ==
  ASSUME MatchInv, RoundInv, NEW p \in Participants, Step(p), ~Callback(p),
         pc'[p] = "out"
  PROVE  Reduction!Leave(p)
<1>1. Quiet(p) /\ pc[p] # "out"
  BY StepIsQuiet
<1>2. pc[p] \in {"reopen", "notify"} /\ compete_result' = compete_result
  BY DEF Step, Gate, Deposit, Announce, Meet, Compare, Callback, Wait, ReadValue,
     ResetOwn, ResetOther, Reopen, Publish, Notify, GoDown, Goto, MatchInv, Typed
<1>3. calls[p] = callbacks /\ compete_result[p] = winning_value[Root]
  BY <1>2 DEF RoundInv, RoundOf, Answer, Leaving
<1> DEFINE state == [q \in Participants |-> IF pc[q] = "out" THEN "out" ELSE "in"]
           value == [q \in Participants |->
                       IF pc[q] = "out" THEN compete_result[q] ELSE key[q]]
           pending == {q \in Participants : pc[q] # "out" /\ calls[q] = callbacks}
<1>4. p \in pending
  BY <1>1, <1>3
<1>5. state' = [state EXCEPT ![p] = "out"]
  BY <1>1 DEF Quiet
<1>6. value' = [value EXCEPT ![p] = winning_value[Root]]
  BY <1>1, <1>2, <1>3 DEF Quiet
<1>7. pending' = pending \ {p}
  BY <1>1 DEF Quiet
<1>8. winning_value'[Root] = winning_value[Root]
  BY <1>1 DEF Quiet
<1> QED
  BY <1>4, <1>5, <1>6, <1>7, <1>8 DEF Reduction!Leave, Pending

(* Everything else is invisible.                                           *)
LEMMA RefinesInside ==
  ASSUME MatchInv, RoundInv, NEW p \in Participants, Step(p), ~Callback(p),
         pc'[p] # "out"
  PROVE  UNCHANGED Reduction!vars
<1>1. Quiet(p) /\ pc[p] # "out"
  BY StepIsQuiet
<1> DEFINE state == [q \in Participants |-> IF pc[q] = "out" THEN "out" ELSE "in"]
           value == [q \in Participants |->
                       IF pc[q] = "out" THEN compete_result[q] ELSE key[q]]
           pending == {q \in Participants : pc[q] # "out" /\ calls[q] = callbacks}
<1>2. \A q \in Participants : pc'[q] = "out" <=> pc[q] = "out"
  BY <1>1 DEF Quiet
<1>3. \A q \in Participants : pc[q] = "out" => compete_result'[q] = compete_result[q]
  BY <1>1 DEF Quiet
<1>4. state' = state
  BY <1>2
<1>5. value' = value
  BY <1>1, <1>2, <1>3 DEF Quiet
<1>6. pending' = pending
  BY <1>1, <1>2 DEF Quiet
<1>7. winning_value'[Root] = winning_value[Root]
  BY <1>1 DEF Quiet
<1> QED
  BY <1>4, <1>5, <1>6, <1>7 DEF Reduction!vars, Pending

LEMMA RefinesNext ==
  MatchInv /\ RoundInv /\ [Next]_vars => [Reduction!Next]_(Reduction!vars)
<1> SUFFICES ASSUME MatchInv, RoundInv, [Next]_vars
             PROVE  [Reduction!Next]_(Reduction!vars)
  OBVIOUS
<1>1. ASSUME NEW p \in Participants, Enter(p) PROVE Reduction!Next
  BY <1>1, RefinesEnter DEF Reduction!Next
<1>2. ASSUME NEW p \in Participants, Callback(p) PROVE Reduction!Next
  BY <1>2, RefinesCallback DEF Reduction!Next
<1>3. ASSUME NEW p \in Participants, Step(p), ~Callback(p)
      PROVE  [Reduction!Next]_(Reduction!vars)
  BY <1>3, RefinesReturn, RefinesInside DEF Reduction!Next
<1>4. CASE UNCHANGED vars
  BY <1>4 DEF vars, Reduction!vars, Pending
<1>5. CASE Finished
  BY <1>5 DEF Finished, vars, Reduction!vars, Pending
<1> QED
  BY <1>1, <1>2, <1>3, <1>4, <1>5 DEF Next

(* The tournament is the reduction its callers were promised: everybody    *)
(* gets the smallest item of its own round, after all have competed and    *)
(* after the only call of the exit callback.                               *)
THEOREM TournamentComputesMinimum == Spec => ComputesMinimum
<1>1. Init => Reduction!Init
  BY RefinesInit
<1>2. MatchInv /\ RoundInv /\ [Next]_vars => [Reduction!Next]_(Reduction!vars)
  BY RefinesNext
<1> QED
  BY <1>1, <1>2, MatchInvariant, RoundInvariant, PTL
     DEF Spec, ComputesMinimum, Reduction!Spec

-----------------------------------------------------------------------------
(* Nobody waits in vain: the participants never all wait for each other.   *)

(* A closed match has its loser still at it, who will open it again.       *)
Waited ==
  \A n \in Nodes : done[n] =>
    \E p \in Participants :
      /\ Node(p) = n
      /\ pc[p] \in Leaving \cup {"meet", "compare", "wait"}

LEMMA WaitedStep ==
  ASSUME MatchInv, Waited, NEW p \in Participants, Step(p)
  PROVE  Waited'
<1> SUFFICES ASSUME NEW n \in Nodes, done'[n]
             PROVE  \E q \in Participants :
                      /\ Node(q)' = n
                      /\ pc'[q] \in Leaving \cup {"meet", "compare", "wait"}
  BY DEF Waited
<1>1. /\ pc[p] # "out" /\ level[p] \in 1..level[p] /\ Holds(p, level[p])
      /\ Stage(p, level[p]) = pc[p] /\ Seat(p, level[p])
      /\ Node(p) = node_id_at_level(p, level[p]) /\ Index(p) = index_at_level(p, level[p])
      /\ Node(p) \in Nodes /\ Index(p) \in {0, 1} /\ Other(p) \in {0, 1}
      /\ Other(p) # Index(p) /\ Other(p) = 1 - Index(p)
  <2>1. pc[p] # "out"
    BY DEF Step, Gate, Deposit, Announce, Meet, Compare, Callback, Wait, ReadValue,
       ResetOwn, ResetOther, Reopen, Publish, Notify, GoDown, Goto
  <2> QED
    BY <2>1, Here
<1>2. \A q \in Participants \ {p} : pc'[q] = pc[q] /\ Node(q)' = Node(q)
  BY DEF Step, Gate, Deposit, Announce, Meet, Compare, Callback, Wait, ReadValue,
     ResetOwn, ResetOther, Reopen, Publish, Notify, GoDown, Goto, Node, MatchInv, Typed
<1>3. CASE Notify(p) /\ n = Node(p)
  <2>1. ~done[n] /\ arrived[n][Other(p)] /\ pc[p] = "notify"
    BY <1>1, <1>3 DEF Notify, GoDown, Goto, Seat, Above
  <2>2. PICK q \in Participants : \E l \in 1..level[q] :
          Holds(q, l) /\ node_id_at_level(q, l) = n /\ index_at_level(q, l) = Other(p)
    BY <1>1, <2>1 DEF MatchInv, Attended
  <2>3. PICK l \in 1..level[q] :
          Holds(q, l) /\ node_id_at_level(q, l) = n /\ index_at_level(q, l) = Other(p)
    BY <2>2
  <2>4. q # p
    <3> SUFFICES ASSUME q = p PROVE FALSE
      OBVIOUS
    <3>1. l = level[p]
      BY <1>1, <1>3, <2>3, Position DEF MatchInv
    <3> QED
      BY <1>1, <2>3, <3>1
  <2>5. Stage(q, l) \in {"meet", "compare", "wait"}
    BY <1>1, <1>3, <2>1, <2>3, <2>4, There DEF Above
  <2>6. l = level[q] /\ pc[q] \in {"meet", "compare", "wait"}
    BY <2>5 DEF Stage
  <2>7. Node(q) = n
    BY <2>3, <2>6 DEF Node
  <2> QED
    BY <1>2, <2>4, <2>6, <2>7
<1>4. CASE ~(Notify(p) /\ n = Node(p))
  <2>1. done[n]
    BY <1>4 DEF Step, Gate, Deposit, Announce, Meet, Compare, Callback, Wait, ReadValue,
       ResetOwn, ResetOther, Reopen, Publish, Notify, MatchInv, Typed
  <2>2. PICK q \in Participants :
          Node(q) = n /\ pc[q] \in Leaving \cup {"meet", "compare", "wait"}
    BY <2>1 DEF Waited
  <2>3. CASE q # p
    BY <1>2, <2>2, <2>3
  <2>4. CASE q = p
    <3>1. ~(pc[p] = "compare" /\ Wins(p))
      BY <1>1, <2>1, <2>2, <2>4 DEF Seat, Wins, Beats
    <3>2. ~Reopen(p)
      BY <2>2, <2>4 DEF Reopen, MatchInv, Typed
    <3>3. /\ level' = level
          /\ pc'[p] \in Leaving \cup {"meet", "compare", "wait"}
      BY <2>2, <2>4, <3>1, <3>2
         DEF Step, Gate, Deposit, Announce, Meet, Compare, Callback, Wait, ReadValue,
             ResetOwn, ResetOther, Publish, Notify, GoDown, Goto, Leaving, MatchInv, Typed
    <3> QED
      BY <2>2, <2>4, <3>3 DEF Node
  <2> QED
    BY <2>3, <2>4
<1> QED
  BY <1>3, <1>4

LEMMA WaitedNext == MatchInv /\ Waited /\ [Next]_vars => Waited'
<1> SUFFICES ASSUME MatchInv, Waited, [Next]_vars PROVE Waited'
  OBVIOUS
<1>1. ASSUME NEW p \in Participants, Enter(p) PROVE Waited'
  <2> SUFFICES ASSUME NEW n \in Nodes, done[n]
               PROVE  \E q \in Participants :
                        /\ Node(q)' = n
                        /\ pc'[q] \in Leaving \cup {"meet", "compare", "wait"}
    BY <1>1 DEF Enter, Waited
  <2>1. PICK q \in Participants :
          Node(q) = n /\ pc[q] \in Leaving \cup {"meet", "compare", "wait"}
    BY DEF Waited
  <2>2. q # p
    BY <1>1, <2>1 DEF Enter, Goto, Leaving
  <2>3. pc'[q] = pc[q] /\ Node(q)' = Node(q)
    BY <1>1, <2>2 DEF Enter, Goto, Node, MatchInv, Typed
  <2> QED
    BY <2>1, <2>3
<1>2. ASSUME NEW p \in Participants, Step(p) PROVE Waited'
  BY <1>2, WaitedStep
<1>3. CASE UNCHANGED vars
  BY <1>3 DEF vars, Waited, Node
<1>4. CASE Finished
  BY <1>4 DEF Finished, vars, Waited, Node
<1> QED
  BY <1>1, <1>2, <1>3, <1>4 DEF Next

(* The winner that closes a match leaves its loser there.                   *)
THEOREM WaitedInvariant == Spec => []Waited
<1>1. Init => Waited
  BY DEF Init, Waited
<1>2. MatchInv /\ Waited /\ [Next]_vars => Waited'
  BY WaitedNext
<1> QED
  BY <1>1, <1>2, MatchInvariant, PTL DEF Spec

(* Whoever waits for its winner waits for somebody that is not blocked, or *)
(* nearer to the root.                                                     *)
LEMMA AheadOfWaiter ==
  ASSUME MatchInv, NEW p \in Participants, pc[p] = "wait", ~done[Node(p)]
  PROVE  \E q \in Participants : \E l \in 1..level[q] :
           /\ Holds(q, l) /\ node_id_at_level(q, l) = Node(p)
           /\ ~Blocked(q) \/ Node(q) < Node(p)
<1>1. /\ level[p] \in 1..level[p] /\ Holds(p, level[p])
      /\ Stage(p, level[p]) = pc[p] /\ Seat(p, level[p])
      /\ Node(p) = node_id_at_level(p, level[p]) /\ Index(p) = index_at_level(p, level[p])
      /\ Node(p) \in Nodes /\ Index(p) \in {0, 1} /\ Other(p) \in {0, 1}
      /\ Other(p) # Index(p) /\ Other(p) = 1 - Index(p)
  BY Here
<1>2. /\ arrived[Node(p)][Index(p)] /\ arrived[Node(p)][Other(p)]
      /\ ~Beats(Node(p), Index(p))
  BY <1>1 DEF Seat
<1>3. PICK q \in Participants : \E l \in 1..level[q] :
        /\ Holds(q, l) /\ node_id_at_level(q, l) = Node(p)
        /\ index_at_level(q, l) = Other(p)
  BY <1>1, <1>2 DEF MatchInv, Attended
<1>4. PICK l \in 1..level[q] :
        /\ Holds(q, l) /\ node_id_at_level(q, l) = Node(p)
        /\ index_at_level(q, l) = Other(p)
  BY <1>3
<1>5. q # p
  <2> SUFFICES ASSUME q = p PROVE FALSE
    OBVIOUS
  <2>1. l = level[p]
    BY <1>1, <1>4, Position DEF MatchInv
  <2> QED
    BY <1>1, <1>4, <2>1
<1>6. /\ Seat(q, l) /\ 1 - index_at_level(q, l) = Index(p)
      /\ Stage(q, l) \in (Labels \cup {"above"}) \ {"out"}
  BY <1>1, <1>4, <1>5, There
<1>7. Beats(Node(p), Other(p))
  BY <1>1, <1>2, OneBeats DEF MatchInv
<1>8. Stage(q, l) \in {"meet", "compare"} \cup Above
  <2> DEFINE s == Stage(q, l)
             n == Node(p)
             j == Other(p)
  <2>1. /\ s = "gate" /\ ~done[n] => ~arrived[n][j]
        /\ s \in {"deposit", "announce"} => ~arrived[n][j]
        /\ s \in Leaving => done[n]
        /\ s \in Leaving \cup {"wait"} => ~Beats(n, j)
    BY <1>4, <1>6 DEF Seat
  <2>2. ~done[n] /\ arrived[n][j] /\ Beats(n, j)
    BY <1>2, <1>7
  <2>3. s \in (Labels \cup {"above"}) \ {"out"}
    BY <1>6
  <2> HIDE DEF s, n, j
  <2>4. s \in {"meet", "compare"} \cup Above
    BY <2>1, <2>2, <2>3 DEF Labels, Above, Leaving
  <2> QED
    BY <2>4 DEF s
<1>9. CASE l = level[q]
  <2>1. Node(q) = Node(p) /\ 1 - Index(q) = Index(p) /\ Other(q) = Index(p)
    BY <1>4, <1>6, <1>9 DEF Node, Index, Other
  <2>2. pc[q] \in {"meet", "compare", "callback", "publish", "notify", "above"}
    BY <1>8, <1>9 DEF Stage, Above
  <2>3. ~Blocked(q)
    BY <1>2, <2>1, <2>2 DEF Blocked
  <2> QED
    BY <1>4, <2>3
<1>10. CASE l # level[q]
  <2>1. /\ level[q] \in Nat \ {0} /\ l \in Nat \ {0} /\ l < level[q]
    BY <1>10, TreeAssumption, Position DEF MatchInv
  <2>2. Node(q) \in Nodes
    BY DEF MatchInv, Typed
  <2>3. node_id_at_level(q, level[q]) >= 1
    BY <2>2, TreeAssumption DEF Node, Nodes
  <2>4. node_id_at_level(q, level[q]) < node_id_at_level(q, l)
    BY <2>1, <2>3, Path
  <2> QED
    BY <1>4, <2>4 DEF Node
<1> QED
  BY <1>9, <1>10

(* Of those in a set, one is at a node nearest to the root.                *)
LEMMA Foremost ==
  ASSUME MatchInv, NEW S, S \subseteq Participants, S # {}
  PROVE  \E p \in S : \A q \in S : ~(Node(q) < Node(p))
<1> DEFINE T == {Node(p) : p \in S}
<1>1. T \subseteq Nat /\ T # {}
  BY TreeAssumption DEF MatchInv, Typed, Nodes
<1>2. PICK n \in T : \A m \in T : ~(m < n)
  <2> HIDE DEF T
  <2> QED
    BY <1>1, LeastNat
<1> QED
  BY <1>2

(* Those whose round has been decided need nobody else to return.          *)
LEMMA PendingMove ==
  ASSUME MatchInv, RoundInv, Pending # {}
  PROVE  \E p \in Pending : ~Blocked(p)
<1> SUFFICES ASSUME \A p \in Pending : Blocked(p) PROVE FALSE
  OBVIOUS
<1>1. Pending \subseteq Participants
  BY DEF Pending
<1>2. PICK p \in Pending : \A q \in Pending : ~(Node(q) < Node(p))
  BY <1>1, Foremost
<1>3. p \in Participants /\ pc[p] # "out" /\ calls[p] = callbacks /\ Blocked(p)
  BY DEF Pending
<1>4. callbacks \in Nat /\ RoundOf(p)
  BY <1>3 DEF MatchInv, Typed, RoundInv
<1>5. pc[p] = "wait" /\ ~done[Node(p)]
  <2>1. calls[p] # callbacks + 1
    BY <1>3, <1>4
  <2>2. pc[p] # "gate"
    BY <1>4, <2>1 DEF RoundOf
  <2>3. ~(pc[p] = "meet" /\ ~arrived[Node(p)][Other(p)])
    BY <1>3, <1>4 DEF RoundOf, Lost
  <2> QED
    BY <1>3, <2>2, <2>3 DEF Blocked
<1>6. PICK q \in Participants : \E l \in 1..level[q] :
        /\ Holds(q, l) /\ node_id_at_level(q, l) = Node(p)
        /\ ~Blocked(q) \/ Node(q) < Node(p)
  BY <1>3, <1>5, AheadOfWaiter
<1>7. calls[q] = callbacks
  <2>1. /\ level[p] \in 1..level[p] /\ Holds(p, level[p])
        /\ Node(p) = node_id_at_level(p, level[p])
    BY <1>3, Here
  <2> QED
    BY <1>3, <1>5, <1>6, <2>1 DEF RoundInv, SameRound
<1>8. q \in Pending
  BY <1>6, <1>7 DEF Pending, Holds
<1> QED
  BY <1>2, <1>6, <1>8

(* A blocked participant is at the loop of a match in progress.            *)
LEMMA WhereBlocked ==
  ASSUME MatchInv, Waited, \A p \in Participants : pc[p] # "out" /\ Blocked(p),
         NEW p \in Participants
  PROVE  \/ pc[p] = "meet" /\ ~arrived[Node(p)][Other(p)]
         \/ pc[p] = "wait" /\ ~done[Node(p)]
<1> SUFFICES ASSUME pc[p] = "gate", done[Node(p)] PROVE FALSE
  BY DEF Blocked
<1>1. Node(p) \in Nodes
  BY DEF MatchInv, Typed
<1>2. PICK q \in Participants :
        Node(q) = Node(p) /\ pc[q] \in Leaving \cup {"meet", "compare", "wait"}
  BY <1>1 DEF Waited
<1>3. pc[q] = "meet" /\ ~arrived[Node(q)][Other(q)]
  BY <1>2 DEF Blocked, Leaving
<1>4. pc[q] = "meet" /\ done[Node(q)] => arrived[Node(q)][Other(q)]
  <2>1. /\ Stage(q, level[q]) = pc[q] /\ Seat(q, level[q])
        /\ Node(q) = node_id_at_level(q, level[q])
        /\ Index(q) = index_at_level(q, level[q]) /\ Other(q) = 1 - Index(q)
    BY <1>3, Here
  <2> QED
    BY <2>1 DEF Seat
<1> QED
  BY <1>2, <1>3, <1>4

(* The id by which somebody came to the node of a match: a leaf, or a node *)
(* whose winner has gone up and not come back.                             *)
Held(c) ==
  \E q \in Participants : \E l \in 1..level[q] :
    Holds(q, l) /\ node_id_at_level(q, l - 1) = c

(* If everybody is in and nobody can move, every match below the root has  *)
(* a winner: with both opponents there one of them moves.                  *)
LEMMA EverybodyClimbs ==
  ASSUME MatchInv, Waited, \A p \in Participants : pc[p] # "out" /\ Blocked(p),
         NEW c \in 2..(2 * N - 1)
  PROVE  Held(c)
<1> DEFINE T == {x \in Nat : \E d \in 2..(2 * N - 1) : ~Held(d) /\ x = 2 * N - 1 - d}
<1>1. N \in Nat /\ N >= 2
  BY TreeAssumption
<1> SUFFICES ASSUME ~Held(c) PROVE FALSE
  OBVIOUS
<1>2. T \subseteq Nat /\ T # {}
  <2>1. 2 * N - 1 - c \in Nat
    BY <1>1
  <2>2. 2 * N - 1 - c \in T
    BY <2>1
  <2> QED
    BY <2>2
<1>3. PICK x \in T : \A y \in T : ~(y < x)
  <2> HIDE DEF T
  <2> QED
    BY <1>2, LeastNat
<1>4. PICK d \in 2..(2 * N - 1) : ~Held(d) /\ x = 2 * N - 1 - d
  BY <1>3
<1>5. ASSUME NEW e \in 2..(2 * N - 1), d < e PROVE Held(e)
  <2> SUFFICES ASSUME ~Held(e) PROVE FALSE
    OBVIOUS
  <2>1. 2 * N - 1 - e \in Nat /\ 2 * N - 1 - e < x
    BY <1>1, <1>4, <1>5
  <2>2. 2 * N - 1 - e \in T
    BY <2>1
  <2> QED
    BY <1>3, <2>1, <2>2
<1>6. CASE d >= N
  <2>1. d - N \in Participants /\ (d - N) + N = d
    BY <1>1, <1>4, <1>6 DEF Participants
  <2>2. node_id_at_level(d - N, 0) = d
    BY <2>1, Path
  <2>3. level[d - N] \in Nat \ {0}
    BY <1>1, <2>1 DEF MatchInv, Typed
  <2>4. 1 \in 1..level[d - N] /\ 1 - 1 = 0
    BY <2>3
  <2>5. Holds(d - N, 1)
    BY <2>1, <2>4 DEF Holds
  <2>6. Held(d)
    BY <2>1, <2>2, <2>4, <2>5 DEF Held
  <2> QED
    BY <1>4, <2>6
<1>7. CASE d < N
  <2>1. ASSUME NEW i \in {0, 1}
        PROVE  \E q \in Participants : Node(q) = d /\ Index(q) = i
    <3>1. 2 * d + i \in 2..(2 * N - 1) /\ d < 2 * d + i
      BY <1>1, <1>4, <1>7
    <3>2. PICK q \in Participants : \E l \in 1..level[q] :
            Holds(q, l) /\ node_id_at_level(q, l - 1) = 2 * d + i
      BY <3>1, <1>5 DEF Held
    <3> PICK l \in 1..level[q] :
          Holds(q, l) /\ node_id_at_level(q, l - 1) = 2 * d + i
      BY <3>2
    <3>3. l \in Nat \ {0} /\ level[q] \in Nat \ {0} /\ l <= level[q]
      BY <1>1 DEF MatchInv, Typed
    <3>4. node_id_at_level(q, l) = d /\ index_at_level(q, l) = i
      <4>1. /\ node_id_at_level(q, l) = (2 * d + i) \div 2
            /\ index_at_level(q, l) = (2 * d + i) % 2
        BY <3>3, Sides
      <4>2. (2 * d + i) \div 2 = d /\ (2 * d + i) % 2 = i
        BY <1>4
      <4> QED
        BY <4>1, <4>2
    <3>5. l = level[q]
      <4> SUFFICES ASSUME l # level[q] PROVE FALSE
        OBVIOUS
      <4>1. l + 1 \in 1..level[q] /\ (l + 1) - 1 = l
        BY <3>3
      <4>2. Holds(q, l + 1)
        BY <4>1 DEF Holds
      <4>3. Held(d)
        BY <3>4, <4>1, <4>2 DEF Held
      <4> QED
        BY <1>4, <4>3
    <3> QED
      BY <3>4, <3>5 DEF Node, Index
  <2>2. 0 \in {0, 1} /\ 1 \in {0, 1}
    OBVIOUS
  <2>3. PICK q \in Participants : Node(q) = d /\ Index(q) = 0
    BY <2>1, <2>2
  <2>4. PICK r \in Participants : Node(r) = d /\ Index(r) = 1
    BY <2>1, <2>2
  <2>5. Other(q) = 1 /\ Other(r) = 0
    BY <2>3, <2>4 DEF Other
  <2>6. arrived[d][0] /\ arrived[d][1]
    <3>1. arrived[Node(q)][Index(q)]
      BY WhereBlocked, Here DEF Seat
    <3>2. arrived[Node(r)][Index(r)]
      BY WhereBlocked, Here DEF Seat
    <3> QED
      BY <2>3, <2>4, <3>1, <3>2
  <2>7. pc[q] = "wait" /\ pc[r] = "wait"
    BY <2>3, <2>4, <2>5, <2>6, WhereBlocked
  <2>8. ~Beats(d, 0)
    BY <2>3, <2>7, Here DEF Seat
  <2>9. ~Beats(d, 1)
    BY <2>4, <2>7, Here DEF Seat
  <2>10. d \in Nodes
    BY <1>1, <1>4, <1>7 DEF Nodes
  <2>11. Beats(d, 0) <=> ~Beats(d, 1 - 0)
    BY <2>2, <2>10, OneBeats DEF MatchInv
  <2> QED
    BY <2>8, <2>9, <2>11
<1> QED
  BY <1>1, <1>4, <1>6, <1>7

(* With everybody in compete() somebody moves.                             *)
LEMMA EverybodyIn ==
  ASSUME MatchInv, Waited, \A p \in Participants : pc[p] # "out"
  PROVE  \E p \in Participants : ~Blocked(p)
<1> SUFFICES ASSUME \A p \in Participants : Blocked(p) PROVE FALSE
  OBVIOUS
<1>1. N \in Nat /\ N >= 2 /\ Participants # {}
  BY TreeAssumption DEF Participants
<1>2. PICK p \in Participants : \A q \in Participants : ~(Node(q) < Node(p))
  BY <1>1, Foremost
<1>3. pc[p] = "meet" /\ ~arrived[Node(p)][Other(p)]
  <2>1. ~(pc[p] = "wait" /\ ~done[Node(p)])
    BY <1>2, AheadOfWaiter
  <2> QED
    BY <2>1, WhereBlocked
<1>4. Node(p) \in Nodes /\ Other(p) \in {0, 1}
  BY <1>3, Here
<1> DEFINE c == 2 * Node(p) + Other(p)
<1>5. c \in 2..(2 * N - 1)
  BY <1>1, <1>4 DEF Nodes
<1>6. PICK q \in Participants : \E l \in 1..level[q] :
        Holds(q, l) /\ node_id_at_level(q, l - 1) = c
  BY <1>5, EverybodyClimbs DEF Held
<1> PICK l \in 1..level[q] : Holds(q, l) /\ node_id_at_level(q, l - 1) = c
  BY <1>6
<1>7. node_id_at_level(q, l) = Node(p) /\ index_at_level(q, l) = Other(p)
  <2>1. l \in Nat \ {0}
    BY <1>1 DEF MatchInv, Typed
  <2>2. node_id_at_level(q, l) = c \div 2 /\ index_at_level(q, l) = c % 2
    BY <2>1, Sides
  <2>3. Node(p) \in Nat
    BY <1>1, <1>4 DEF Nodes
  <2>4. c \div 2 = Node(p) /\ c % 2 = Other(p)
    BY <2>3, <1>4
  <2> QED
    BY <2>2, <2>4
<1>8. Seat(q, l)
  BY <1>6 DEF MatchInv, Seats
<1>9. Stage(q, l) \in {"meet", "wait", "above"}
  BY WhereBlocked DEF Stage
<1>10. arrived[Node(p)][Other(p)]
  BY <1>7, <1>8, <1>9 DEF Seat, Above
<1> QED
  BY <1>3, <1>10

(* The participants never all wait for each other, however many there are  *)
(* and however uneven the tree: the match nearest to the root that somebody*)
(* waits at has an opponent on the way, and those whose round is decided   *)
(* return without anybody's next call.                                     *)
THEOREM NobodyWaitsInVain == Spec => []SomebodyMoves
<1>1. MatchInv /\ RoundInv /\ Waited => SomebodyMoves
  BY EverybodyIn, PendingMove DEF SomebodyMoves
<1> QED
  BY <1>1, MatchInvariant, RoundInvariant, WaitedInvariant, PTL
=============================================================================
