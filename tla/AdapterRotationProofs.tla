----------------------- MODULE AdapterRotationProofs -----------------------
(***************************************************************************)
(* Proofs about AdapterRotation, for every number of adapters and every    *)
(* bound on the changes of what is in range.                               *)
(***************************************************************************)
EXTENDS AdapterRotation, FiniteSetTheorems, WellFoundedInduction, TLAPS

-----------------------------------------------------------------------------
(* The n-th adapter of a set.                                              *)

\* Every nonempty set of natural numbers has a least element.
LEMMA LeastNumber ==
    ASSUME NEW T \in SUBSET Nat, T # {}
    PROVE  \E m \in T : \A k \in T : m <= k
  <1> DEFINE R == OpToRel(<, Nat)
  <1>1. IsWellFoundedOn(R, Nat)
    BY NatLessThanWellFounded
  <1>2. PICK m \in T : \A k \in T : ~(<<k, m>> \in R)
    <2> HIDE DEF R
    <2> QED BY <1>1, WFMin
  <1>3. \A k \in T : ~(k < m)
    BY <1>2 DEF OpToRel
  <1> HIDE DEF R
  <1> QED
    BY <1>3

Below(S, m) == {b \in S : b < m}

LEMMA InBelow ==
    ASSUME NEW S \in SUBSET Adapter, NEW m \in Nat
    PROVE  /\ Adapters \in Nat
           /\ \A b \in S : b \in Nat /\ 0 < b /\ b <= Adapters
           /\ \A b : b \in Below(S, m) <=> b \in S /\ b < m
  BY AdaptersAssumption DEF Below, Adapter

LEMMA Counts ==
    ASSUME NEW S \in SUBSET Adapter, NEW m
    PROVE  /\ IsFiniteSet(S) /\ Cardinality(S) \in 0 .. Adapters
           /\ IsFiniteSet(Below(S, m)) /\ Cardinality(Below(S, m)) \in Nat
           /\ Cardinality(Below(S, m)) <= Cardinality(S)
           /\ S # {} => Cardinality(S) \in Adapter
  <1>1. IsFiniteSet(Adapter) /\ Cardinality(Adapter) = Adapters
    BY FS_Interval, AdaptersAssumption DEF Adapter
  <1>2. /\ IsFiniteSet(S) /\ Cardinality(S) <= Cardinality(Adapter)
        /\ Cardinality(S) \in Nat
    BY <1>1, FS_Subset, FS_CardinalityType
  <1>3. Below(S, m) \in SUBSET S
    BY DEF Below
  <1>4. /\ IsFiniteSet(Below(S, m))
        /\ Cardinality(Below(S, m)) <= Cardinality(S)
        /\ Cardinality(Below(S, m)) \in Nat
    BY <1>2, <1>3, FS_Subset, FS_CardinalityType
  <1>5. S # {} => Cardinality(S) # 0
    BY <1>2, FS_EmptySet
  <1> QED
    BY <1>1, <1>2, <1>4, <1>5, AdaptersAssumption DEF Adapter

\* One more adapter below the next number, if it is in the set.
LEMMA BelowNext ==
    ASSUME NEW S \in SUBSET Adapter, NEW m \in Nat
    PROVE  Cardinality(Below(S, m + 1)) =
             IF m \in S THEN Cardinality(Below(S, m)) + 1
             ELSE Cardinality(Below(S, m))
  <1>1. /\ \A b \in S : b \in Nat
        /\ \A b : b \in Below(S, m) <=> b \in S /\ b < m
        /\ \A b : b \in Below(S, m + 1) <=> b \in S /\ b < m + 1
    BY InBelow
  <1>2. IsFiniteSet(Below(S, m)) /\ m \notin Below(S, m)
    BY <1>1, Counts
  <1>3. CASE m \in S
    <2>1. Below(S, m + 1) = Below(S, m) \cup {m}
      <3>1. \A b \in S : b < m + 1 <=> b < m \/ b = m
        BY <1>1
      <3>2. \A b : b \in Below(S, m + 1) <=> b \in Below(S, m) \/ b = m
        BY <1>1, <1>3, <3>1, Zenon
      <3> QED BY <3>2, Zenon
    <2> QED
      BY <1>2, <1>3, <2>1, FS_AddElement
  <1>4. CASE m \notin S
    <2>1. Below(S, m + 1) = Below(S, m)
      <3>1. \A b \in S : b < m + 1 <=> b < m
        BY <1>1, <1>4
      <3>2. \A b : b \in Below(S, m + 1) <=> b \in Below(S, m)
        BY <1>1, <3>1, Zenon
      <3> QED BY <3>2, Zenon
    <2> QED
      BY <1>4, <2>1
  <1> QED
    BY <1>3, <1>4

\* There is an n-th adapter in a set of more than n.
LEMMA NthExists ==
    ASSUME NEW S \in SUBSET Adapter, NEW n \in Nat, n < Cardinality(S)
    PROVE  \E a \in S : Cardinality(Below(S, a)) = n
  <1> DEFINE T == {m \in Nat : n < Cardinality(Below(S, m))}
  <1>1. Below(S, Adapters + 1) = S
    <2>1. \A b \in S : b < Adapters + 1
      BY InBelow
    <2>2. Below(S, Adapters + 1) \subseteq S
      BY DEF Below
    <2>3. S \subseteq Below(S, Adapters + 1)
      BY <2>1, Zenon DEF Below
    <2> QED BY <2>2, <2>3, Zenon
  <1>2. Adapters + 1 \in T
    BY <1>1, AdaptersAssumption
  <1>3. PICK m \in T : \A k \in T : m <= k
    <2>1. T \in SUBSET Nat /\ T # {}
      BY <1>2
    <2> HIDE DEF T
    <2> QED BY <2>1, LeastNumber
  <1>4. m # 0
    <2>1. Below(S, 0) = {}
      <3>1. \A b \in S : ~(b < 0)
        BY InBelow
      <3> QED BY <3>1, Zenon DEF Below
    <2>2. Cardinality(Below(S, 0)) = 0
      BY <2>1, FS_EmptySet
    <2> QED BY <2>2
  <1>5. m - 1 \in Nat /\ m - 1 \notin T /\ (m - 1) + 1 = m
    BY <1>3, <1>4
  <1>6. ~(n < Cardinality(Below(S, m - 1))) /\ n < Cardinality(Below(S, m))
    BY <1>5
  <1>7. Cardinality(Below(S, m)) =
          IF m - 1 \in S THEN Cardinality(Below(S, m - 1)) + 1
          ELSE Cardinality(Below(S, m - 1))
    BY <1>5, BelowNext
  <1>8. Cardinality(Below(S, m - 1)) \in Nat
    BY Counts
  <1> HIDE DEF T
  <1>9. m - 1 \in S /\ Cardinality(Below(S, m - 1)) = n
    BY <1>6, <1>7, <1>8
  <1> QED
    BY <1>9

LEMMA InOrderIsNth ==
    ASSUME NEW S \in SUBSET Adapter, NEW n \in Nat, n < Cardinality(S)
    PROVE  InOrder(S, n) \in S /\ Cardinality(Below(S, InOrder(S, n))) = n
  <1>1. InOrder(S, n) = CHOOSE a \in S : Cardinality(Below(S, a)) = n
    BY DEF InOrder, Below
  <1> QED
    BY <1>1, NthExists, Zenon

\* Every adapter of a set has its place in it.
LEMMA PlaceOf ==
    ASSUME NEW S \in SUBSET Adapter, NEW a \in S
    PROVE  /\ Cardinality(Below(S, a)) < Cardinality(S)
           /\ InOrder(S, Cardinality(Below(S, a))) = a
  <1>1. \A b, c \in S : b < c => Cardinality(Below(S, b)) < Cardinality(Below(S, c))
    <2> SUFFICES ASSUME NEW b \in S, NEW c \in S, b < c
                 PROVE  Cardinality(Below(S, b)) < Cardinality(Below(S, c))
      OBVIOUS
    <2> b \in Nat /\ c \in Nat
      BY InBelow
    <2>1. Below(S, b) \cup {b} \in SUBSET Below(S, c)
      <3>1. \A d \in S : d < b => d < c
        BY InBelow
      <3>2. \A d : d \in Below(S, b) \/ d = b => d \in Below(S, c)
        BY <3>1, InBelow
      <3> QED BY <3>2, Zenon
    <2>2. b \notin Below(S, b)
      BY InBelow
    <2>3. /\ IsFiniteSet(Below(S, b)) /\ Cardinality(Below(S, b)) \in Nat
          /\ IsFiniteSet(Below(S, c)) /\ Cardinality(Below(S, c)) \in Nat
      BY Counts
    <2>4. Cardinality(Below(S, b) \cup {b}) = Cardinality(Below(S, b)) + 1
      BY <2>2, <2>3, FS_AddElement
    <2>5. Cardinality(Below(S, b) \cup {b}) <= Cardinality(Below(S, c))
      BY <2>1, <2>3, FS_Subset
    <2> QED
      BY <2>3, <2>4, <2>5
  <1>2. Cardinality(Below(S, a)) < Cardinality(S)
    <2>1. Below(S, a) \in SUBSET S /\ Below(S, a) # S
      BY AdaptersAssumption DEF Below, Adapter
    <2>2. /\ IsFiniteSet(S) /\ Cardinality(S) \in Nat
          /\ Cardinality(Below(S, a)) \in Nat
      BY Counts
    <2>3. /\ Cardinality(Below(S, a)) <= Cardinality(S)
          /\ Cardinality(S) # Cardinality(Below(S, a))
      BY <2>1, <2>2, FS_Subset
    <2> QED BY <2>2, <2>3
  <1>3. Cardinality(Below(S, a)) \in Nat
    BY Counts
  <1> DEFINE b == InOrder(S, Cardinality(Below(S, a)))
  <1>4. b \in S /\ Cardinality(Below(S, b)) = Cardinality(Below(S, a))
    BY <1>2, <1>3, InOrderIsNth
  <1>5. ~(a < b) /\ ~(b < a)
    <2> HIDE DEF b
    <2> QED BY <1>1, <1>4, <1>3
  <1>6. a \in Nat /\ b \in Nat
    <2> HIDE DEF b
    <2> QED BY <1>4, AdaptersAssumption DEF Adapter
  <1> HIDE DEF b
  <1>7. b = a
    BY <1>5, <1>6
  <1> QED
    BY <1>2, <1>7 DEF b

-----------------------------------------------------------------------------
(* Turns.                                                                  *)

\* The remainder is the only number below n that differs by a multiple of n.
LEMMA Remainder ==
    ASSUME NEW n \in Nat \ {0}, NEW q \in Int, NEW v \in 0 .. n - 1
    PROVE  (n * q + v) % n = v
  BY Z3

\* Counting turns modulo a multiple of n loses nothing modulo n.
LEMMA TurnsModulo ==
    ASSUME NEW n \in Adapter, NEW x \in Nat
    PROVE  (x % Turns) % n = x % n
  <1>1. n \in Nat \ {0} /\ Turns \in Nat \ {0} /\ Turns % n = 0
    BY AdaptersAssumption, TurnsAssumption DEF Adapter
  <1> DEFINE y == x % Turns
             k == Turns \div n
             d == x \div Turns
             c == y \div n
             v == y % n
  <1>2. /\ y \in Nat /\ d \in Nat /\ k \in Nat /\ x = Turns * d + y
    BY <1>1
  <1>3. Turns = n * k
    BY <1>1
  <1>4. c \in Nat /\ v \in 0 .. n - 1 /\ y = n * c + v
    <2> HIDE DEF y
    <2> QED BY <1>1, <1>2
  <1> HIDE DEF y, k, d, c
  <1>5. x = n * (k * d + c) + v
    <2>1. (n * k) * d = n * (k * d)
      BY <1>1, <1>2, Z3
    <2>2. n * (k * d + c) = n * (k * d) + n * c
      BY <1>1, <1>2, <1>4, Z3
    <2>3. x = n * (k * d) + (n * c + v)
      <3>1. x = (n * k) * d + y
        BY <1>2, <1>3
      <3> QED BY <1>4, <2>1, <3>1, Zenon
    <2>4. n * (k * d) \in Int /\ n * c \in Int /\ v \in Int
      BY <1>1, <1>2, <1>4
    <2> DEFINE e == n * (k * d)
               f == n * c
    <2> HIDE DEF v, e, f
    <2>5. x = (e + f) + v
      <3>1. x = e + (f + v) /\ e \in Int /\ f \in Int /\ v \in Int
        BY <2>3, <2>4 DEF e, f
      <3> QED BY <3>1
    <2> QED BY <2>2, <2>5, Zenon DEF e, f
  <1>6. k * d + c \in Int
    BY <1>2, <1>4
  <1>7. x % n = v
    <2> HIDE DEF v
    <2> QED BY <1>1, <1>4, <1>5, <1>6, Remainder
  <1> QED
    BY <1>7 DEF y

\* Whatever the turn is, every adapter of a set is picked within as many turns
\* as the set has adapters: no adapter is passed over while what is in range,
\* and what has been refused, stay the same (_pick_device, client.py:227, and
\* the turn that moves on with each failure, 163).
THEOREM EveryoneWithinOneRound ==
    ASSUME NEW S \in SUBSET Adapter, NEW a \in S, NEW turn \in 0 .. Turns - 1
    PROVE  \E k \in 0 .. Cardinality(S) - 1 :
              InOrder(S, ((turn + k) % Turns) % Cardinality(S)) = a
  <1> DEFINE n == Cardinality(S)
             place == Cardinality(Below(S, a))
             k == (place - turn) % n
  <1>1. n \in Adapter /\ n \in Nat \ {0}
    BY Counts, AdaptersAssumption DEF Adapter
  <1>2. place \in 0 .. n - 1 /\ InOrder(S, place) = a
    BY Counts, PlaceOf, <1>1
  <1>3. turn \in Nat
    BY TurnsAssumption
  <1> HIDE DEF n, place
  <1>4. k \in 0 .. n - 1
    BY <1>1, <1>2, <1>3
  <1>5. (turn + k) % n = place
    <2> DEFINE q == (place - turn) \div n
    <2>1. q \in Int /\ place - turn = n * q + k
      BY <1>1, <1>2, <1>3
    <2> HIDE DEF q, k
    <2>2. turn + k = n * (-q) + place
      <3>1. n * (-q) = -(n * q)
        BY <1>1, <2>1, Z3
      <3> QED BY <1>1, <1>2, <1>3, <1>4, <2>1, <3>1
    <2>3. -q \in Int
      BY <2>1
    <2> QED BY <1>1, <1>2, <2>2, <2>3, Remainder
  <1> HIDE DEF k
  <1>6. turn + k \in Nat
    BY <1>1, <1>3, <1>4
  <1>7. ((turn + k) % Turns) % n = place
    BY <1>1, <1>5, <1>6, TurnsModulo
  <1> QED
    BY <1>2, <1>4, <1>7 DEF n

-----------------------------------------------------------------------------
(* The invariant.                                                          *)

LEMMA PickIsCandidate ==
    ASSUME TypeOK, seen # {}
    PROVE  /\ Pick \in seen /\ Pick \in Adapter /\ Pick # None
           /\ Pick \notin RefusedAfterLook
           /\ Pick \in refused => seen \subseteq refused /\ RefusedAfterLook = {}
  <1>1. Candidates \in SUBSET Adapter /\ Candidates # {} /\ Candidates \subseteq seen
    BY DEF Candidates, Usable, TypeOK
  <1>2. Pick \in Candidates
    <2>1. CASE lastGood \in Candidates
      BY <2>1 DEF Pick
    <2>2. CASE lastGood \notin Candidates
      <3> DEFINE n == rotation % Cardinality(Candidates)
      <3>1. Cardinality(Candidates) \in Nat \ {0}
        BY <1>1, Counts, AdaptersAssumption DEF Adapter
      <3>2. rotation \in Nat
        BY TurnsAssumption DEF TypeOK
      <3>3. n \in Nat /\ n < Cardinality(Candidates)
        BY <3>1, <3>2
      <3>4. InOrder(Candidates, n) \in Candidates
        <4> HIDE DEF n
        <4> QED BY <1>1, <3>3, InOrderIsNth
      <3> QED
        BY <2>2, <3>4 DEF Pick
    <2> QED BY <2>1, <2>2
  <1>3. None \notin Adapter
    BY AdaptersAssumption
  <1>4. Pick \in refused => Usable = {}
    BY <1>2 DEF Candidates, Usable
  <1>5. Pick \notin RefusedAfterLook
    BY <1>2 DEF Candidates, Usable, RefusedAfterLook
  <1>6. Usable = {} => seen \subseteq refused /\ RefusedAfterLook = {}
    BY DEF Usable, RefusedAfterLook
  <1> QED
    BY <1>1, <1>2, <1>3, <1>4, <1>5, <1>6

LEMMA FewerRefused == RefusedAfterLook \subseteq refused
  BY DEF RefusedAfterLook

\* The next turn is a turn.
LEMMA TurnTyped == TypeOK => NextTurn \in 0 .. Turns - 1
  BY TurnsAssumption DEF TypeOK, NextTurn

LEMMA Initially == Init => IInv
  <1>1. 0 \in 0 .. Turns - 1 /\ 0 \in 0 .. MaxChanges
    BY TurnsAssumption, ChangesAssumption
  <1> QED
    BY <1>1 DEF Init, IInv, TypeOK, OneAttempt, RefusedNotUsed

LEMMA StepKeeps == IInv /\ [Next]_vars => IInv'
  <1> SUFFICES ASSUME IInv, [Next]_vars
               PROVE  IInv'
    OBVIOUS
  <1> USE DEF IInv, TypeOK, OneAttempt, RefusedNotUsed
  <1>0. None \notin Adapter /\ RefusedAfterLook \subseteq refused
    BY AdaptersAssumption, FewerRefused
  <1>1. CASE Setup
    BY <1>0, <1>1, TurnsAssumption DEF Setup
  <1>2. CASE Look
    <2>1. seen # {} => Pick \in seen /\ Pick \in Adapter /\ Pick \notin RefusedAfterLook
      BY PickIsCandidate
    <2> QED BY <1>0, <1>2, <2>1 DEF Look
  <1>3. CASE Succeed
    BY <1>0, <1>3 DEF Succeed
  <1>4. ASSUME NEW kind \in {"plain", "refused"}, Fail(kind)
        PROVE  IInv'
    <2>1. NextTurn \in 0 .. Turns - 1
      BY TurnTyped
    <2> QED BY <1>0, <1>4, <2>1 DEF Fail, Reported, PreferredAfter
  <1>5. CASE Break
    BY <1>0, <1>5 DEF Break
  <1>6. CASE Repair
    BY <1>0, <1>6 DEF Repair
  <1>7. CASE Repaired
    BY <1>0, <1>7 DEF Repaired, SessionGone
  <1>8. CASE Unload
    BY <1>0, <1>8 DEF Unload, SessionGone
  <1>9. CASE Drop
    BY <1>0, <1>9 DEF Drop, SessionGone
  <1>10. CASE Hear
    BY <1>0, <1>10, ChangesAssumption DEF Hear
  <1>11. CASE UNCHANGED vars
    BY <1>11 DEF vars
  <1> QED
    BY <1>1, <1>2, <1>3, <1>4, <1>5, <1>6, <1>7, <1>8, <1>9, <1>10, <1>11 DEF Next, Ladder

\* The inductive invariant.
THEOREM Invariant == Spec => []IInv
  <1>1. Init => IInv
    BY Initially
  <1>2. IInv /\ [Next]_vars => IInv'
    BY StepKeeps
  <1> QED
    BY <1>1, <1>2, PTL DEF Spec

\* Type correctness; what was not tried is in range.
THEOREM TypeCorrect == Spec => []TypeOK
  <1>1. IInv => TypeOK
    BY DEF IInv
  <1> QED
    BY <1>1, Invariant, PTL

\* No adapter that has been refused is preferred, connected through or carries
\* the session.
THEOREM RefusedUnused == Spec => []RefusedNotUsed
  <1>1. IInv => RefusedNotUsed
    BY DEF IInv
  <1> QED
    BY <1>1, Invariant, PTL

\* A connect goes through an adapter in range, and a refused one only when all
\* of them are.
THEOREM PickedInRange == Spec => PicksInRange
  <1>1. IInv /\ [Next]_vars =>
          [ device = None /\ device' # None =>
              /\ device' \in seen
              /\ device' \in refused => seen \subseteq refused /\ refused' = {} ]_vars
    <2> SUFFICES ASSUME IInv, Next, device = None, device' # None
                 PROVE  /\ device' \in seen
                        /\ device' \in refused => seen \subseteq refused /\ refused' = {}
      OBVIOUS
    <2>1. CASE Look
      BY <2>1, PickIsCandidate DEF Look, IInv
    <2>2. CASE ~Look
      BY <2>2 DEF Next, Ladder, Setup, Succeed, Fail, Break, Repair, Repaired, Unload, Drop, Hear
    <2> QED BY <2>1, <2>2
  <1> QED
    BY <1>1, Invariant, PTL DEF Spec, PicksInRange
=============================================================================
