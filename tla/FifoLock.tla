------------------------------ MODULE FifoLock ------------------------------
(***************************************************************************)
(* asyncio.Lock, as the request lock of machine.py and the connect lock of *)
(* client.py use it: a queue of tasks, served first come, first served.    *)
(* The task at the head owns the lock or is the next to run with it.       *)
(***************************************************************************)
EXTENDS Naturals, Sequences

\* The task t has the lock or may take it.
IsNext(q, t) == Len(q) > 0 /\ q[1] = t

Members(q) == {q[i] : i \in 1 .. Len(q)}

\* The task t is served before u.
Before(q, t, u) == \E i, j \in 1 .. Len(q) : i < j /\ q[i] = t /\ q[j] = u

\* How far a task that waits is from the head.
Position(q, t) == CHOOSE i \in 1 .. Len(q) : q[i] = t

\* No task waits twice.
Distinct(q) == \A i, j \in 1 .. Len(q) : q[i] = q[j] => i = j

\* The queue when its i-th member has given up waiting.
Without(q, i) == [j \in 1 .. Len(q) - 1 |-> IF j < i THEN q[j] ELSE q[j + 1]]
=============================================================================
