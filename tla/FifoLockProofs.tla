--------------------------- MODULE FifoLockProofs ---------------------------
(* What joining, handing on and leaving a lock's queue do to it. *)
EXTENDS FifoLock, TLAPS

\* Appending to a sequence adds one element at the end.
LEMMA AppendToSeq ==
    ASSUME NEW S, NEW s \in Seq(S), NEW e \in S
    PROVE  /\ Append(s, e) \in Seq(S)
           /\ Len(Append(s, e)) = Len(s) + 1
           /\ \A i \in 1 .. Len(s) + 1 :
                 \/ i \in 1 .. Len(s) /\ Append(s, e)[i] = s[i]
                 \/ i = Len(s) + 1 /\ Append(s, e)[i] = e
    OBVIOUS

\* A task that is not in the queue joins it at the end.
LEMMA Join ==
    ASSUME NEW S, NEW q \in Seq(S), NEW t \in S, Distinct(q), t \notin Members(q)
    PROVE  /\ Append(q, t) \in Seq(S)
           /\ Distinct(Append(q, t))
           /\ Members(Append(q, t)) = Members(q) \cup {t}
           /\ \A u \in S : IsNext(q, u) => IsNext(Append(q, t), u)
<1> DEFINE r == Append(q, t)
<1>1. /\ r \in Seq(S) /\ Len(r) = Len(q) + 1 /\ Len(q) \in Nat
      /\ \A i \in 1 .. Len(q) : r[i] = q[i]
      /\ r[Len(q) + 1] = t
    BY AppendToSeq
<1> HIDE DEF r
<1>2. Distinct(r)
    BY <1>1 DEF Distinct, Members
<1>3. Members(r) = Members(q) \cup {t}
    <2>1. \A i \in 1 .. Len(r) : r[i] \in Members(q) \cup {t}
        BY <1>1 DEF Members
    <2>2. \A x \in Members(q) : \E i \in 1 .. Len(r) : r[i] = x
        BY <1>1 DEF Members
    <2>3. \E i \in 1 .. Len(r) : r[i] = t
        BY <1>1
    <2> QED BY <2>1, <2>2, <2>3 DEF Members
<1>4. \A u \in S : IsNext(q, u) => IsNext(r, u)
    BY <1>1 DEF IsNext
<1> QED BY <1>1, <1>2, <1>3, <1>4 DEF r

\* The owner hands the lock on and is in the queue no more.
LEMMA HandOn ==
    ASSUME NEW S, NEW q \in Seq(S), NEW t, Distinct(q), IsNext(q, t)
    PROVE  /\ Tail(q) \in Seq(S)
           /\ Distinct(Tail(q))
           /\ Members(Tail(q)) = Members(q) \ {t}
<1> DEFINE r == Tail(q)
<1>1. /\ r \in Seq(S) /\ Len(r) = Len(q) - 1 /\ Len(q) \in Nat /\ Len(q) > 0 /\ q[1] = t
      /\ \A i \in 1 .. Len(r) : r[i] = q[i + 1]
    BY DEF IsNext
<1> HIDE DEF r
<1>2. ASSUME NEW i \in 1 .. Len(r), NEW j \in 1 .. Len(r), r[i] = r[j] PROVE i = j
    <2>1. i + 1 \in 1 .. Len(q) /\ j + 1 \in 1 .. Len(q) /\ q[i + 1] = q[j + 1]
        BY <1>1, <1>2
    <2> QED BY <2>1 DEF Distinct
<1>3. Members(r) = Members(q) \ {t}
    <2>1. ASSUME NEW i \in 1 .. Len(r) PROVE r[i] \in Members(q) \ {t}
        <3>1. i + 1 \in 1 .. Len(q) /\ i + 1 # 1 /\ r[i] = q[i + 1] /\ 1 \in 1 .. Len(q)
            BY <1>1
        <3> QED BY <1>1, <3>1 DEF Members, Distinct
    <2>2. ASSUME NEW i \in 1 .. Len(q), q[i] # t PROVE \E j \in 1 .. Len(r) : r[j] = q[i]
        <3>1. i - 1 \in 1 .. Len(r) /\ r[i - 1] = q[i]
            BY <1>1, <2>2
        <3> QED BY <3>1
    <2> QED BY <2>1, <2>2 DEF Members
<1> QED BY <1>1, <1>2, <1>3 DEF r, Distinct

\* A task that waits gives up; the others keep their order.
LEMMA GiveUp ==
    ASSUME NEW S, NEW q \in Seq(S), NEW i \in 1 .. Len(q), Distinct(q)
    PROVE  /\ Without(q, i) \in Seq(S)
           /\ Distinct(Without(q, i))
           /\ Members(Without(q, i)) = Members(q) \ {q[i]}
           /\ \A u : IsNext(q, u) /\ u # q[i] => IsNext(Without(q, i), u)
<1> DEFINE r == Without(q, i)
<1>1. /\ r \in Seq(S) /\ Len(r) = Len(q) - 1 /\ Len(q) \in Nat
      /\ \A j \in 1 .. Len(q) - 1 : r[j] = IF j < i THEN q[j] ELSE q[j + 1]
    BY DEF Without
<1> HIDE DEF r
<1>2. ASSUME NEW j \in 1 .. Len(r)
      PROVE  \E k \in 1 .. Len(q) : k # i /\ r[j] = q[k] /\ k = IF j < i THEN j ELSE j + 1
    BY <1>1
<1>3. ASSUME NEW j \in 1 .. Len(r), NEW k \in 1 .. Len(r), r[j] = r[k] PROVE j = k
    <2>1. PICK m \in 1 .. Len(q) : r[j] = q[m] /\ m = IF j < i THEN j ELSE j + 1
        BY <1>2
    <2>2. PICK n \in 1 .. Len(q) : r[k] = q[n] /\ n = IF k < i THEN k ELSE k + 1
        BY <1>2
    <2>3. m = n
        BY <1>3, <2>1, <2>2 DEF Distinct
    <2> QED BY <2>1, <2>2, <2>3
<1>4. Members(r) = Members(q) \ {q[i]}
    <2>1. \A j \in 1 .. Len(r) : r[j] \in Members(q) \ {q[i]}
        BY <1>2 DEF Members, Distinct
    <2>2. ASSUME NEW k \in 1 .. Len(q), q[k] # q[i] PROVE \E j \in 1 .. Len(r) : r[j] = q[k]
        <3>1. CASE k < i
            <4>1. k \in 1 .. Len(r) /\ r[k] = q[k]
                BY <1>1, <3>1
            <4> QED BY <4>1
        <3>2. CASE k > i
            <4>1. k - 1 \in 1 .. Len(r) /\ r[k - 1] = q[k]
                BY <1>1, <3>2
            <4> QED BY <4>1
        <3> QED BY <2>2, <3>1, <3>2
    <2> QED BY <2>1, <2>2 DEF Members
<1>5. ASSUME NEW u, IsNext(q, u), u # q[i] PROVE IsNext(r, u)
    BY <1>1, <1>5 DEF IsNext
<1> QED BY <1>1, <1>3, <1>4, <1>5 DEF r, Distinct

\* What the three changes of the queue do to the order in it.
LEMMA JoinOrder ==
    ASSUME NEW S, NEW q \in Seq(S), NEW t \in S, NEW u, NEW v,
           Before(Append(q, t), u, v), v # t
    PROVE  Before(q, u, v)
<1>1. /\ Len(Append(q, t)) = Len(q) + 1 /\ Len(q) \in Nat
      /\ \A i \in 1 .. Len(q) : Append(q, t)[i] = q[i]
      /\ Append(q, t)[Len(q) + 1] = t
    BY AppendToSeq
<1>2. PICK i, j \in 1 .. Len(q) + 1 : i < j /\ Append(q, t)[i] = u /\ Append(q, t)[j] = v
    BY <1>1 DEF Before
<1>3. i \in 1 .. Len(q) /\ j \in 1 .. Len(q) /\ i < j
    BY <1>1, <1>2
<1>4. q[i] = u /\ q[j] = v
    BY <1>1, <1>2, <1>3
<1> QED BY <1>3, <1>4 DEF Before

LEMMA HandOnOrder ==
    ASSUME NEW S, NEW q \in Seq(S), NEW t, IsNext(q, t), NEW u, NEW v, Before(Tail(q), u, v)
    PROVE  Before(q, u, v)
<1>1. /\ Len(Tail(q)) = Len(q) - 1 /\ Len(q) \in Nat
      /\ \A i \in 1 .. Len(q) - 1 : Tail(q)[i] = q[i + 1]
    BY DEF IsNext
<1>2. PICK i, j \in 1 .. Len(q) - 1 : i < j /\ Tail(q)[i] = u /\ Tail(q)[j] = v
    BY <1>1 DEF Before
<1>3. /\ i + 1 \in 1 .. Len(q) /\ j + 1 \in 1 .. Len(q) /\ i + 1 < j + 1
      /\ q[i + 1] = u /\ q[j + 1] = v
    BY <1>1, <1>2
<1> QED BY <1>3 DEF Before

LEMMA GiveUpOrder ==
    ASSUME NEW S, NEW q \in Seq(S), NEW i \in 1 .. Len(q), NEW u, NEW v,
           Before(Without(q, i), u, v)
    PROVE  Before(q, u, v)
<1> DEFINE At(j) == IF j < i THEN j ELSE j + 1
<1>1. /\ Len(Without(q, i)) = Len(q) - 1 /\ Len(q) \in Nat
      /\ \A j \in 1 .. Len(q) - 1 : Without(q, i)[j] = q[At(j)] /\ At(j) \in 1 .. Len(q)
    BY DEF Without
<1>2. PICK j, k \in 1 .. Len(q) - 1 : j < k /\ Without(q, i)[j] = u /\ Without(q, i)[k] = v
    BY <1>1 DEF Before
<1>3. At(j) < At(k)
    BY <1>2
<1>4. q[At(j)] = u /\ q[At(k)] = v /\ At(j) \in 1 .. Len(q) /\ At(k) \in 1 .. Len(q)
    BY <1>1, <1>2
<1> QED BY <1>3, <1>4 DEF Before

\* Everybody else in the queue comes after its head.
LEMMA HeadIsBefore ==
    ASSUME NEW q, Len(q) \in Nat, NEW t, IsNext(q, t), NEW u \in Members(q), u # t
    PROVE  Before(q, t, u)
<1>1. PICK j \in 1 .. Len(q) : q[j] = u
    BY DEF Members
<1>2. 1 \in 1 .. Len(q) /\ q[1] = t /\ 1 < j
    BY <1>1 DEF IsNext
<1> QED BY <1>1, <1>2 DEF Before

\* Where a task stands, and what the three changes of the queue do to it.
LEMMA PositionIs ==
    ASSUME NEW q, Distinct(q), NEW i \in 1 .. Len(q)
    PROVE  Position(q, q[i]) = i
<1>1. \E j \in 1 .. Len(q) : q[j] = q[i]
    OBVIOUS
<1>2. /\ Position(q, q[i]) \in 1 .. Len(q)
      /\ q[Position(q, q[i])] = q[i]
    BY <1>1 DEF Position
<1> QED BY <1>2 DEF Distinct

LEMMA PositionOfMember ==
    ASSUME NEW q, Distinct(q), NEW t \in Members(q)
    PROVE  Position(q, t) \in 1 .. Len(q) /\ q[Position(q, t)] = t
    BY DEF Position, Members

LEMMA JoinPosition ==
    ASSUME NEW S, NEW q \in Seq(S), NEW t \in S, Distinct(q), t \notin Members(q),
           NEW u \in Members(q)
    PROVE  Position(Append(q, t), u) = Position(q, u)
<1> DEFINE r == Append(q, t)
           i == Position(q, u)
<1>1. i \in 1 .. Len(q) /\ q[i] = u
    BY PositionOfMember
<1>2. Distinct(r)
    BY Join
<1>3. i \in 1 .. Len(r) /\ r[i] = u
    BY <1>1, AppendToSeq
<1> HIDE DEF r, i
<1>4. Position(r, u) = i
    BY <1>2, <1>3, PositionIs
<1> QED BY <1>4 DEF r, i

LEMMA HandOnPosition ==
    ASSUME NEW S, NEW q \in Seq(S), NEW t, Distinct(q), IsNext(q, t),
           NEW u \in Members(q), u # t
    PROVE  Position(q, u) - 1 = Position(Tail(q), u) /\ Position(q, u) \in Nat
<1> DEFINE r == Tail(q)
           i == Position(q, u)
<1>1. i \in 1 .. Len(q) /\ q[i] = u
    BY PositionOfMember
<1>2. Distinct(r)
    BY HandOn
<1>3. i # 1
    BY <1>1 DEF IsNext
<1>4. i - 1 \in 1 .. Len(r) /\ r[i - 1] = u
    <2>1. Len(r) = Len(q) - 1 /\ Len(q) \in Nat /\ \A j \in 1 .. Len(r) : r[j] = q[j + 1]
        BY DEF IsNext
    <2> HIDE DEF r, i
    <2> QED BY <1>1, <1>3, <2>1
<1> HIDE DEF r, i
<1>5. Position(r, u) = i - 1
    BY <1>2, <1>4, PositionIs
<1>6. i \in Nat
    BY <1>1
<1> QED BY <1>5, <1>6 DEF r, i

LEMMA GiveUpPosition ==
    ASSUME NEW S, NEW q \in Seq(S), NEW i \in 1 .. Len(q), Distinct(q),
           NEW u \in Members(q), u # q[i]
    PROVE  /\ Position(q, u) \in Nat
           /\ Position(Without(q, i), u) = IF i < Position(q, u) THEN Position(q, u) - 1
                                        ELSE Position(q, u)
<1> DEFINE r == Without(q, i)
           p == Position(q, u)
           n == IF i < p THEN p - 1 ELSE p
<1>1. p \in 1 .. Len(q) /\ q[p] = u /\ p # i
    BY PositionOfMember
<1>2. Distinct(r)
    BY GiveUp
<1>3. n \in 1 .. Len(r) /\ r[n] = u
    <2>1. /\ Len(r) = Len(q) - 1 /\ Len(q) \in Nat
          /\ \A j \in 1 .. Len(q) - 1 : r[j] = IF j < i THEN q[j] ELSE q[j + 1]
        BY DEF Without
    <2> HIDE DEF r, p
    <2> QED BY <1>1, <2>1
<1> HIDE DEF r, p, n
<1>4. Position(r, u) = n
    BY <1>2, <1>3, PositionIs
<1>5. p \in Nat
    BY <1>1
<1> QED BY <1>4, <1>5 DEF r, n, p
=============================================================================
