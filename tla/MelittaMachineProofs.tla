------------------------ MODULE MelittaMachineProofs ------------------------
(* The safety properties of MelittaMachine hold, every call comes nearer to *)
(* its end, and a wrong recipe is a stale one: for any tasks, registers,    *)
(* challenges and number of retries.                                        *)
EXTENDS MelittaMachine, FifoLockProofs, TLAPS

\* Orphaning answers keeps the wire's length and everything but the ghost.
LEMMA OrphanedWire ==
    ASSUME wire \in Seq(Frame), NEW t \in Task, NoneAssumption
    PROVE  /\ Orphaned(t) \in Seq(Frame)
           /\ Len(Orphaned(t)) = Len(wire)
           /\ \A i \in 1 .. Len(wire) :
                 /\ Orphaned(t)[i].key = wire[i].key
                 /\ Orphaned(t)[i].arg = wire[i].arg
                 /\ Orphaned(t)[i].to # None =>
                       Orphaned(t)[i].to = wire[i].to /\ wire[i].to # t
<1>1. \A i \in 1 .. Len(wire) : wire[i] \in Frame
    OBVIOUS
<1>2. \A i \in 1 .. Len(wire) :
         (IF wire[i].to = t THEN [wire[i] EXCEPT !.to = None] ELSE wire[i]) \in Frame
    BY <1>1 DEF Frame
<1>3. Orphaned(t) \in [1 .. Len(wire) -> Frame] /\ Len(wire) \in Nat
    BY <1>2 DEF Orphaned
<1>4. Orphaned(t) \in Seq(Frame) /\ Len(Orphaned(t)) = Len(wire)
    BY <1>3
<1>5. ASSUME NEW i \in 1 .. Len(wire)
      PROVE  /\ Orphaned(t)[i].key = wire[i].key
             /\ Orphaned(t)[i].arg = wire[i].arg
             /\ Orphaned(t)[i].to # None =>
                   Orphaned(t)[i].to = wire[i].to /\ wire[i].to # t
    BY <1>1 DEF Orphaned, Frame
<1> QED BY <1>4, <1>5

LEMMA InitInv == NoneAssumption /\ RetriesAssumption /\ Init => IInv
<1> SUFFICES ASSUME NoneAssumption, RetriesAssumption, Init PROVE IInv
    OBVIOUS
<1> USE DEF Init
<1>1. TypeOK
    BY DEF TypeOK, Command, Arg, Frame, NoFrame, RetriesAssumption
<1>2. QueueInv
    BY DEF QueueInv, Active, Distinct, Members
<1>3. WaiterInv
    BY DEF WaiterInv, NoneAssumption
<1>4. WireInv
    BY DEF WireInv, NoCrossTalk, NoFrame
<1>5. ResultInv /\ KeyInv
    BY DEF ResultInv, RightRegister, KeyInv, KeyAgreement, Handshaking
<1> QED BY <1>1, <1>2, <1>3, <1>4, <1>5 DEF IInv

\* A pending future is one that reset() finds in the table.
LEMMA PendingRegistered ==
    ASSUME TypeOK, WaiterInv
    PROVE  \A u \in Task : future[u] = "pending" => Registered(u)
<1> SUFFICES ASSUME NEW u \in Task, future[u] = "pending" PROVE Registered(u)
    OBVIOUS
<1>1. OwnKey(u) \in WaitKey
    BY DEF TypeOK, OwnKey, KeyOf, Command, WaitKey
<1>2. waiters[OwnKey(u)] = u
    BY DEF WaiterInv
<1> QED BY <1>1, <1>2 DEF Registered

-----------------------------------------------------------------------------
(* One lemma per action.                                                   *)

\* A task that starts a call joins the queue.
LEMMA JoinKeeps ==
    ASSUME TypeOK, QueueInv, NEW t \in Task, NEW cmd, NEW arg, Enqueue(t, cmd, arg)
    PROVE  QueueInv'
<1>1. /\ queue \in Seq(Task) /\ t \notin Members(queue) /\ Members(queue) \subseteq Task
      /\ pc[t] = "idle" /\ pc' = [pc EXCEPT ![t] = "queued"] /\ queue' = Append(queue, t)
    BY DEF TypeOK, QueueInv, Enqueue, Members
<1>2. /\ Distinct(queue') /\ Members(queue') = Members(queue) \cup {t}
      /\ \A u \in Task : IsNext(queue, u) => IsNext(queue', u)
    BY <1>1, Join DEF QueueInv
<1>3. \A u \in Task : Active(u)' => Active(u)
    BY <1>1 DEF TypeOK, Active
<1> QED BY <1>1, <1>2, <1>3 DEF TypeOK, QueueInv, LockIsMine

\* A call starts: the task joins the queue.
LEMMA CallKeeps ==
    ASSUME NoneAssumption, RetriesAssumption, IInv,
           NEW t \in Task, NEW cmd \in Command \ {"HU"}, NEW arg \in Arg, Call(t, cmd, arg)
    PROVE  IInv'
<1> USE DEF IInv, Call, Enqueue
<1>1. TypeOK'
    BY DEF TypeOK, Frame, NoFrame, RetriesAssumption
<1>2. QueueInv'
    BY JoinKeeps
<1>3. WaiterInv'
    BY DEF TypeOK, WaiterInv, Active, OwnKey, WaitKey, KeyOf, NoneAssumption
<1>4. WireInv'
    <2>1. \A i \in 1 .. Len(wire) : wire[i] \in Frame
        BY DEF TypeOK
    <2> QED BY <2>1 DEF TypeOK, WireInv, NoCrossTalk, NoFrame, Frame
<1>5. ResultInv'
    BY DEF TypeOK, ResultInv, RightRegister
<1>6. KeyInv'
    BY DEF TypeOK, KeyInv, KeyAgreement, Handshaking
<1> QED BY <1>1, <1>2, <1>3, <1>4, <1>5, <1>6

\* A handshake starts: reset, then the task joins the queue.
LEMMA HandshakeKeeps ==
    ASSUME NoneAssumption, RetriesAssumption, IInv,
           NEW t \in Task, NEW c \in Challenge, Handshake(t, c)
    PROVE  IInv'
<1> USE DEF IInv, Handshake, Enqueue
<1>1. TypeOK'
    BY DEF TypeOK, Frame, NoFrame, RetriesAssumption, FuturesCancelled, Command, Arg
<1>2. QueueInv'
    BY JoinKeeps
<1>3. WaiterInv'
    <2>2. \A u \in Task : future'[u] # "pending" /\ (future'[u] # "none" => future[u] # "none")
        BY PendingRegistered DEF TypeOK, FuturesCancelled
    <2>3. \A u \in Task : future'[u] # "none" => Active(u)'
        BY <2>2 DEF TypeOK, WaiterInv, Active
    <2>4. \A k \in WaitKey : waiters'[k] = None
        OBVIOUS
    <2> QED BY <2>2, <2>3, <2>4 DEF WaiterInv
<1>4. WireInv'
    <2>1. \A i \in 1 .. Len(wire) : wire[i] \in Frame
        BY DEF TypeOK
    <2> QED BY <2>1 DEF TypeOK, WireInv, NoCrossTalk, NoFrame, Frame
<1>5. ResultInv'
    BY DEF TypeOK, ResultInv, RightRegister
<1>6. KeyInv'
    <2>1. future'[t] # "done"
        BY DEF TypeOK, WaiterInv, Active, FuturesCancelled
    <2> QED BY <2>1 DEF TypeOK, KeyInv, KeyAgreement, Handshaking, FuturesCancelled
<1> QED BY <1>1, <1>2, <1>3, <1>4, <1>5, <1>6

\* The head of the queue registers its future.
LEMMA AcquireKeeps ==
    ASSUME NoneAssumption, RetriesAssumption, IInv, NEW t \in Task, Acquire(t)
    PROVE  IInv'
<1> USE DEF IInv, Acquire
<1>0. OwnKey(t) \in WaitKey
    BY DEF TypeOK, OwnKey, KeyOf, Command, WaitKey
<1>1. TypeOK'
    BY <1>0 DEF TypeOK
<1>2. QueueInv'
    <2>1. Members(queue) \subseteq Task
        BY DEF TypeOK, Members
    <2> QED BY <2>1 DEF TypeOK, QueueInv, Active, LockIsMine
<1>3. WaiterInv'
    <2>1. \A u \in Task : Active(u) => u = t
        BY DEF TypeOK, QueueInv, LockIsMine, Active, IsNext
    <2> QED BY <1>0, <2>1 DEF TypeOK, WaiterInv, Active, OwnKey, NoneAssumption
<1>4. WireInv'
    <2>1. \A i \in 1 .. Len(wire) : wire[i] \in Frame
        BY DEF TypeOK
    <2> QED BY <2>1 DEF TypeOK, WireInv, NoCrossTalk, Frame
<1>5. ResultInv'
    BY DEF TypeOK, ResultInv, RightRegister
<1>6. KeyInv'
    BY DEF TypeOK, KeyInv, KeyAgreement, Handshaking
<1> QED BY <1>1, <1>2, <1>3, <1>4, <1>5, <1>6

\* What every end of a request leaves true; the two lemmas after it add the
\* outcome and what became of the key.
LEMMA ReturnKeeps ==
    ASSUME NoneAssumption, RetriesAssumption, IInv, NEW t \in Task, Active(t),
           NEW outcome \in {"ok", "nack", "timeout", "error", "cancelled"},
           Return(t, outcome), UNCHANGED <<link, machineKey, op, asks>>,
           keyPrefix' \in Challenge \cup {None},
           \/ answer' = answer
           \/ answer' = [answer EXCEPT ![t] = NoFrame] /\ outcome # "ok",
           keyPrefix' # keyPrefix => Handshaking(t) /\ (link = "up" => keyPrefix' = machineKey),
           op[t].cmd = "HR" /\ outcome = "ok" => answer[t].arg = op[t].arg
    PROVE  IInv'
<1>q. /\ queue' \in Seq(Task) /\ Distinct(queue')
      /\ Members(queue') = Members(queue) \ {t} /\ Members(queue) \subseteq Task
    <2>1. queue \in Seq(Task) /\ Distinct(queue) /\ IsNext(queue, t)
        BY DEF IInv, TypeOK, QueueInv, LockIsMine
    <2>2. Members(queue) \subseteq Task
        BY <2>1 DEF Members
    <2>3. queue' = Tail(queue)
        BY DEF Return, QueueAfter
    <2> QED BY <2>1, <2>2, <2>3, HandOn
<1> USE DEF IInv, Return, EndRequest, WaitersAfter
<1>0. /\ OwnKey(t) \in WaitKey
      /\ LockIsMine(t)
      /\ \A u \in Task : Active(u) => u = t
    BY DEF TypeOK, OwnKey, KeyOf, Command, WaitKey, QueueInv, LockIsMine, IsNext
<1>w. /\ wire' \in Seq(Frame) /\ Len(wire') = Len(wire)
      /\ \A i \in 1 .. Len(wire) :
            /\ wire'[i].key = wire[i].key /\ wire'[i].arg = wire[i].arg
            /\ wire'[i].to # None => wire'[i].to = wire[i].to /\ wire[i].to # t
    BY OrphanedWire DEF TypeOK
<1>1. TypeOK'
    BY <1>w, <1>q, <1>0 DEF TypeOK
<1>2. QueueInv'
    <2>1. \A u \in Members(queue') : pc'[u] # "idle"
        BY <1>q DEF QueueInv, TypeOK
    <2>2. \A u \in Task : ~Active(u)'
        BY <1>0 DEF Active, TypeOK
    <2> QED BY <1>q, <2>1, <2>2 DEF QueueInv
<1>3. WaiterInv'
    <2>1. \A u \in Task \ {t} : future[u] = "none"
        BY <1>0 DEF WaiterInv
    <2>2. \A k \in WaitKey : waiters'[k] = None
        BY <1>0 DEF WaiterInv, TypeOK
    <2>3. \A u \in Task : future'[u] = "none"
        BY <2>1 DEF TypeOK
    <2> QED BY <2>2, <2>3 DEF WaiterInv
<1>4. WireInv'
    <2>1. \A i \in 1 .. Len(wire) : wire[i] \in Frame
        BY DEF TypeOK
    <2>2. NoCrossTalk'
        <3>1. \A u \in Task : answer'[u] \in {answer[u], NoFrame}
            BY DEF TypeOK
        <3> QED BY <3>1 DEF WireInv, NoCrossTalk, NoFrame
    <2>3. \A i \in 1 .. Len(wire') : wire'[i].to # None => pc'[wire'[i].to] = "waiting"
        BY <1>w, <2>1 DEF TypeOK, WireInv, Frame
    <2> QED BY <2>2, <2>3 DEF WireInv
<1>5. ResultInv'
    BY DEF TypeOK, ResultInv, RightRegister
<1>6. KeyInv'
    <2>1. \A u \in Task : Handshaking(u)' => Handshaking(u) /\ u # t
        BY DEF Handshaking, TypeOK
    <2>2. \A u \in Task : Handshaking(u)' => keyPrefix' = None
        BY <2>1 DEF KeyInv, Handshaking
    <2>3. KeyAgreement'
        BY DEF KeyInv, KeyAgreement
    <2>4. \A u \in Task : Handshaking(u)' => future'[u] = future[u] /\ answer'[u] = answer[u]
        BY <2>1 DEF TypeOK
    <2> QED BY <1>w, <2>1, <2>2, <2>3, <2>4 DEF KeyInv
<1> QED BY <1>1, <1>2, <1>3, <1>4, <1>5, <1>6

LEMMA FailKeeps ==
    ASSUME NoneAssumption, RetriesAssumption, IInv, NEW t \in Task, Active(t),
           NEW outcome \in {"timeout", "error", "cancelled"}, Fail(t, outcome)
    PROVE  IInv'
<1>1. keyPrefix \in Challenge \cup {None}
    BY DEF IInv, TypeOK
<1> QED BY <1>1, ReturnKeeps DEF Fail

LEMMA WriteFailsKeeps ==
    ASSUME NoneAssumption, RetriesAssumption, IInv, NEW t \in Task,
           WriteFails(t) \/ TimesOut(t) \/ SeesCancel(t)
    PROVE  IInv'
    BY FailKeeps DEF WriteFails, TimesOut, SeesCancel, Active

\* The frame is out: an answer to it joins the wire, or none does.
LEMMA SentKeeps ==
    ASSUME NoneAssumption, RetriesAssumption, IInv, NEW t \in Task, Sent(t)
    PROVE  IInv'
<1>0. /\ pc[t] = "sending" /\ Active(t)
      /\ op[t] \in [cmd : Command, arg : Arg]
      /\ OwnKey(t) \in WaitKey
      /\ OwnKey(t) = "HU" <=> op[t].cmd = "HU"
      /\ Handshaking(t) <=> op[t].cmd = "HU"
      /\ Handshaking(t) => op[t].arg \in Challenge
    BY DEF IInv, TypeOK, Sent, Active, OwnKey, KeyOf, Command, WaitKey, Handshaking
<1>1. /\ pc' = [pc EXCEPT ![t] = "waiting"]
      /\ UNCHANGED <<link, keyPrefix, queue, waiters, op, asks, future, answer, result>>
    BY DEF Sent
<1>2. \/ machineKey' = machineKey
      \/ Handshaking(t) /\ machineKey' = op[t].arg
    BY <1>0 DEF Sent, Answers, StaysSilent
<1>3. /\ wire' \in Seq(Frame)
      /\ \A i \in 1 .. Len(wire') :
           \/ i \in 1 .. Len(wire) /\ wire'[i] = wire[i]
           \/ /\ wire'[i].to = t
              /\ wire'[i].key = "HU" => Handshaking(t) /\ machineKey' = op[t].arg
    <2>1. CASE StaysSilent(t)
        BY <2>1 DEF StaysSilent, IInv, TypeOK
    <2>2. CASE Answers(t)
        <3>1. PICK ok \in BOOLEAN :
                 wire' = Append(wire, [key |-> OwnKey(t), arg |-> op[t].arg, ok |-> ok, to |-> t])
            BY <2>2 DEF Answers
        <3> DEFINE f == [key |-> OwnKey(t), arg |-> op[t].arg, ok |-> ok, to |-> t]
        <3>2. f \in Frame /\ f.to = t /\ f.key = OwnKey(t) /\ wire \in Seq(Frame)
            BY <1>0 DEF Frame, IInv, TypeOK
        <3>3. machineKey' = IF op[t].cmd = "HU" THEN op[t].arg ELSE machineKey
            BY <2>2 DEF Answers
        <3> HIDE DEF f
        <3>4. /\ Append(wire, f) \in Seq(Frame)
              /\ Len(Append(wire, f)) = Len(wire) + 1
              /\ \A i \in 1 .. Len(wire) + 1 :
                    \/ i \in 1 .. Len(wire) /\ Append(wire, f)[i] = wire[i]
                    \/ i = Len(wire) + 1 /\ Append(wire, f)[i] = f
            BY <3>2, AppendToSeq
        <3>5. wire' = Append(wire, f)
            BY <3>1 DEF f
        <3> QED BY <1>0, <3>2, <3>3, <3>4, <3>5
    <2> QED BY <2>1, <2>2 DEF Sent
<1>4. TypeOK'
    BY <1>0, <1>1, <1>2, <1>3 DEF IInv, TypeOK
<1>5. QueueInv'
    BY <1>0, <1>1 DEF IInv, TypeOK, QueueInv, Active, LockIsMine
<1>6. WaiterInv'
    BY <1>0, <1>1 DEF IInv, TypeOK, WaiterInv, Active, OwnKey
<1>7. WireInv'
    <2>1. \A i \in 1 .. Len(wire) : wire[i] \in Frame
        BY DEF IInv, TypeOK
    <2>2. NoCrossTalk'
        BY <1>1 DEF IInv, WireInv, NoCrossTalk
    <2>3. \A i \in 1 .. Len(wire') : wire'[i].to # None => pc'[wire'[i].to] = "waiting"
        BY <1>1, <1>3, <2>1 DEF IInv, TypeOK, WireInv, Frame
    <2> QED BY <2>2, <2>3 DEF WireInv
<1>8. ResultInv'
    BY <1>0, <1>1 DEF IInv, TypeOK, ResultInv, RightRegister
<1>9. KeyInv'
    <2>1. \A u \in Task : Handshaking(u)' <=> Handshaking(u)
        BY <1>0, <1>1 DEF Handshaking, IInv, TypeOK
    <2>2. KeyAgreement'
        BY <1>1, <1>2 DEF IInv, KeyInv, KeyAgreement
    <2>3. ASSUME NEW u \in Task, Handshaking(u)
          PROVE  /\ \A i \in 1 .. Len(wire') :
                       wire'[i].key = "HU" /\ wire'[i].arg = op[u].arg => machineKey' = op[u].arg
                 /\ link = "up" /\ future[u] = "done" /\ answer[u].arg = op[u].arg =>
                       machineKey' = op[u].arg
        BY <1>2, <1>3, <2>3 DEF IInv, KeyInv
    <2> QED BY <1>1, <2>1, <2>2, <2>3 DEF IInv, KeyInv
<1> QED BY <1>4, <1>5, <1>6, <1>7, <1>8, <1>9 DEF IInv

\* A task leaves its call from outside, in the queue or past the lock.
LEMMA AbandonKeeps ==
    ASSUME NoneAssumption, RetriesAssumption, IInv, NEW t \in Task, Abandon(t)
    PROVE  IInv'
<1>1. CASE pc[t] # "queued"
    BY <1>1, FailKeeps DEF Abandon, Active, IInv, TypeOK
<1>2. CASE pc[t] = "queued"
    <2>1. PICK i \in 1 .. Len(queue) :
            /\ queue[i] = t
            /\ queue' = Without(queue, i)
            /\ pc' = [pc EXCEPT ![t] = "idle"]
            /\ result' = [result EXCEPT ![t] = "cancelled"]
            /\ answer' = [answer EXCEPT ![t] = NoFrame]
            /\ UNCHANGED <<link, machineKey, wire, keyPrefix, waiters, op, asks, future>>
        BY <1>2 DEF Abandon
    <2>q. /\ queue' \in Seq(Task) /\ Distinct(queue')
          /\ Members(queue') = Members(queue) \ {t} /\ Members(queue) \subseteq Task
          /\ \A u : IsNext(queue, u) /\ u # t => IsNext(queue', u)
        <3>1. queue \in Seq(Task) /\ Distinct(queue)
            BY DEF IInv, TypeOK, QueueInv
        <3>2. Members(queue) \subseteq Task
            BY <3>1 DEF Members
        <3>3. /\ Without(queue, i) \in Seq(Task) /\ Distinct(Without(queue, i))
              /\ Members(Without(queue, i)) = Members(queue) \ {queue[i]}
              /\ \A u : IsNext(queue, u) /\ u # queue[i] => IsNext(Without(queue, i), u)
            BY <3>1, GiveUp
        <3> QED BY <2>1, <3>2, <3>3
    <2>2. TypeOK'
        BY <2>1, <2>q DEF IInv, TypeOK
    <2>3. QueueInv'
        <3>1. \A u \in Members(queue') : pc'[u] # "idle"
            BY <2>1, <2>q DEF IInv, TypeOK, QueueInv
        <3>2. \A u \in Task : Active(u)' => Active(u) /\ u # t
            BY <2>1, <1>2 DEF IInv, TypeOK, Active
        <3> QED BY <2>q, <3>1, <3>2 DEF IInv, QueueInv, LockIsMine
    <2>4. WaiterInv'
        BY <1>2, <2>1 DEF IInv, TypeOK, WaiterInv, Active, OwnKey
    <2>5. WireInv'
        <3>1. \A j \in 1 .. Len(wire) : wire[j] \in Frame
            BY DEF IInv, TypeOK
        <3> QED BY <1>2, <2>1, <3>1 DEF IInv, TypeOK, WireInv, NoCrossTalk, NoFrame, Frame
    <2>6. ResultInv'
        BY <2>1 DEF IInv, TypeOK, ResultInv, RightRegister
    <2>7. KeyInv'
        BY <2>1 DEF IInv, TypeOK, KeyInv, KeyAgreement, Handshaking
    <2> QED BY <2>2, <2>3, <2>4, <2>5, <2>6, <2>7 DEF IInv
<1> QED BY <1>1, <1>2

\* A read that was given another register's answer asks again.
LEMMA AskAgainKeeps ==
    ASSUME NoneAssumption, RetriesAssumption, IInv, NEW t \in Task, Active(t),
           op[t].cmd = "HR", MayAskAgain(t), AskAgain(t)
    PROVE  IInv'
<1> USE DEF IInv
<1>p. /\ waiters' = [waiters EXCEPT ![OwnKey(t)] = None]
      /\ future' = [future EXCEPT ![t] = "none"]
      /\ pc' = [pc EXCEPT ![t] = "queued"]
      /\ asks' = [asks EXCEPT ![t] = @ + 1]
      /\ answer' = [answer EXCEPT ![t] = NoFrame]
      /\ UNCHANGED <<link, machineKey, keyPrefix, op, result>>
    BY DEF AskAgain, EndRequest, WaitersAfter
<1>0. /\ OwnKey(t) \in WaitKey
      /\ LockIsMine(t)
      /\ \A u \in Task : Active(u) => u = t
    BY DEF TypeOK, OwnKey, KeyOf, Command, WaitKey, QueueInv, LockIsMine, IsNext
<1>w. /\ wire' \in Seq(Frame) /\ Len(wire') = Len(wire)
      /\ \A i \in 1 .. Len(wire) :
            /\ wire'[i].key = wire[i].key /\ wire'[i].arg = wire[i].arg
            /\ wire'[i].to # None => wire'[i].to = wire[i].to /\ wire[i].to # t
    BY OrphanedWire DEF TypeOK, AskAgain, EndRequest
<1>q. /\ queue' \in Seq(Task) /\ Distinct(queue')
      /\ Members(queue') = Members(queue) /\ Members(queue) \subseteq Task
    <2> DEFINE tl == Tail(queue)
    <2>1. queue \in Seq(Task) /\ t \in Members(queue) /\ Members(queue) \subseteq Task
        BY <1>0 DEF TypeOK, LockIsMine, IsNext, Members
    <2>2. tl \in Seq(Task) /\ Distinct(tl) /\ Members(tl) = Members(queue) \ {t}
        BY <1>0, <2>1, HandOn DEF QueueInv, LockIsMine
    <2>3. queue' = Append(tl, t)
        BY DEF AskAgain, BackInLine, QueueAfter
    <2> HIDE DEF tl
    <2>4. /\ Append(tl, t) \in Seq(Task) /\ Distinct(Append(tl, t))
          /\ Members(Append(tl, t)) = Members(tl) \cup {t}
        BY <2>2, Join
    <2> QED BY <2>1, <2>2, <2>3, <2>4
<1>1. TypeOK'
    BY <1>p, <1>w, <1>q, <1>0 DEF TypeOK, MayAskAgain, RetriesAssumption
<1>2. QueueInv'
    <2>1. \A u \in Members(queue') : pc'[u] # "idle"
        BY <1>p, <1>q DEF QueueInv, TypeOK
    <2>2. \A u \in Task : ~Active(u)'
        BY <1>p, <1>0 DEF Active, TypeOK
    <2> QED BY <1>q, <2>1, <2>2 DEF QueueInv
<1>3. WaiterInv'
    <2>1. \A u \in Task \ {t} : future[u] = "none"
        BY <1>0 DEF WaiterInv
    <2>2. \A k \in WaitKey : waiters'[k] = None
        BY <1>p, <1>0 DEF WaiterInv, TypeOK
    <2>3. \A u \in Task : future'[u] = "none"
        BY <1>p, <2>1 DEF TypeOK
    <2> QED BY <2>2, <2>3 DEF WaiterInv
<1>4. WireInv'
    <2>1. \A i \in 1 .. Len(wire) : wire[i] \in Frame
        BY DEF TypeOK
    <2>2. NoCrossTalk'
        <3>1. \A u \in Task : answer'[u] \in {answer[u], NoFrame}
            BY <1>p DEF TypeOK
        <3> QED BY <3>1 DEF WireInv, NoCrossTalk, NoFrame
    <2>3. \A i \in 1 .. Len(wire') : wire'[i].to # None => pc'[wire'[i].to] = "waiting"
        BY <1>p, <1>w, <2>1 DEF TypeOK, WireInv, Frame
    <2> QED BY <2>2, <2>3 DEF WireInv
<1>5. ResultInv'
    BY <1>p DEF TypeOK, ResultInv, RightRegister, Active
<1>6. KeyInv'
    <2>1. \A u \in Task : Handshaking(u)' => Handshaking(u) /\ u # t
        BY <1>p DEF Handshaking, TypeOK
    <2>2. \A u \in Task : Handshaking(u)' => future'[u] = future[u] /\ answer'[u] = answer[u]
        BY <1>p, <2>1 DEF TypeOK
    <2> QED BY <1>p, <1>w, <2>1, <2>2 DEF KeyInv, KeyAgreement
<1> QED BY <1>1, <1>2, <1>3, <1>4, <1>5, <1>6

\* The answer is there and the task goes on.
LEMMA ResumeKeeps ==
    ASSUME NoneAssumption, RetriesAssumption, IInv, NEW t \in Task, Resume(t)
    PROVE  IInv'
<1>0. /\ Active(t)
      /\ future[t] = "done"
      /\ keyPrefix \in Challenge \cup {None}
    BY DEF Resume, Active, IInv, TypeOK
<1>1. CASE Handshaken(t)
    <2>1. CASE ~EchoesChallenge(t)
        BY <1>0, <1>1, <2>1, FailKeeps DEF Handshaken
    <2>2. CASE EchoesChallenge(t)
        <3>1. /\ keyPrefix' = answer[t].arg /\ Accepted(t, "ok") /\ op[t].cmd = "HU"
              /\ answer[t].arg = op[t].arg
            BY <1>1, <2>2 DEF Handshaken, EchoesChallenge
        <3>2. Handshaking(t)
            BY <1>0, <3>1 DEF Handshaking, Active
        <3>3. keyPrefix' \in Challenge /\ (link = "up" => keyPrefix' = machineKey)
            BY <1>0, <3>1, <3>2 DEF IInv, TypeOK, KeyInv
        <3> QED BY <1>0, <3>1, <3>2, <3>3, ReturnKeeps DEF Accepted
    <2> QED BY <2>1, <2>2
<1>2. CASE ReadNumerical(t)
    <2>1. CASE NamesItsRegister(t)
        BY <1>0, <1>2, <2>1, ReturnKeeps DEF ReadNumerical, Accepted, NamesItsRegister
    <2>2. CASE ~NamesItsRegister(t) /\ MayAskAgain(t)
        BY <1>0, <1>2, <2>2, AskAgainKeeps DEF ReadNumerical
    <2>3. CASE ~NamesItsRegister(t) /\ ~MayAskAgain(t)
        BY <1>0, <1>2, <2>3, FailKeeps DEF ReadNumerical
    <2> QED BY <2>1, <2>2, <2>3
<1>3. CASE ReadUnchecked(t)
    BY <1>0, <1>3, ReturnKeeps DEF ReadUnchecked, Accepted
<1>4. CASE Acknowledged(t)
    BY <1>0, <1>4, ReturnKeeps DEF Acknowledged, Accepted
<1> QED BY <1>1, <1>2, <1>3, <1>4 DEF Resume

\* The oldest answer resolves the future registered under its key.
LEMMA DeliverKeeps ==
    ASSUME NoneAssumption, RetriesAssumption, IInv, Deliver
    PROVE  IInv'
<1> DEFINE f == Head(wire)
           t == waiters[f.key]
<1>0. /\ wire # <<>> /\ wire \in Seq(Frame)
      /\ f = wire[1] /\ f \in Frame /\ 1 \in 1 .. Len(wire)
      /\ UNCHANGED <<link, machineKey, keyPrefix, queue, pc, op, asks, result>>
    BY DEF Deliver, IInv, TypeOK
<1>1. /\ wire' \in Seq(Frame)
      /\ \A i \in 1 .. Len(wire') : i + 1 \in 1 .. Len(wire) /\ wire'[i] = wire[i + 1]
    BY <1>0 DEF Deliver
<1>2. /\ f.key \in WaitKey /\ f.to \in Task \cup {None} /\ f.arg \in Arg
      /\ t \in Task \cup {None}
      /\ waiters' = [waiters EXCEPT ![f.key] = None]
    BY <1>0 DEF Frame, Deliver, IInv, TypeOK
<1>3. t # None => /\ Active(t) /\ OwnKey(t) = f.key /\ future[t] = "pending"
                  /\ future' = [future EXCEPT ![t] = "done"]
                  /\ answer' = [answer EXCEPT ![t] = f]
    BY <1>2 DEF Deliver, IInv, WaiterInv
<1>4. t = None => UNCHANGED <<future, answer>>
    BY DEF Deliver
<1> HIDE DEF f, t
<1>5. TypeOK'
    BY <1>0, <1>1, <1>2, <1>3, <1>4 DEF IInv, TypeOK
<1>6. QueueInv'
    BY <1>0 DEF IInv, QueueInv, Active, LockIsMine
<1>7. WaiterInv'
    <2>1. CASE t = None
        BY <1>0, <1>2, <1>4, <2>1 DEF t, IInv, TypeOK, WaiterInv, Active, OwnKey
    <2>2. CASE t # None
        <3>1. t \in Task /\ waiters[f.key] = t
            BY <1>2, <2>2 DEF t
        <3>2. \A k \in WaitKey \ {f.key} : waiters[k] # t
            BY <1>3, <2>2, <3>1 DEF IInv, WaiterInv
        <3> QED BY <1>0, <1>2, <1>3, <2>2, <3>1, <3>2, NoneAssumption
                DEF IInv, TypeOK, WaiterInv, Active, OwnKey, NoneAssumption
    <2> QED BY <2>1, <2>2
<1>8. WireInv'
    <2>1. \A i \in 1 .. Len(wire') : wire'[i].to # None => pc'[wire'[i].to] = "waiting"
        BY <1>0, <1>1 DEF IInv, WireInv
    <2>2. t # None => f.to \in {t, None}
        <3> SUFFICES ASSUME t # None, f.to # None PROVE f.to = t
            OBVIOUS
        <3>1. pc[f.to] = "waiting" /\ f.to \in Task
            BY <1>0, <1>2 DEF IInv, WireInv
        <3>2. LockIsMine(f.to) /\ LockIsMine(t)
            BY <1>2, <1>3, <3>1 DEF IInv, QueueInv, Active
        <3> QED BY <3>2 DEF LockIsMine, IsNext
    <2>3. NoCrossTalk'
        BY <1>2, <1>3, <1>4, <2>2 DEF IInv, TypeOK, WireInv, NoCrossTalk
    <2> QED BY <2>1, <2>3 DEF WireInv
<1>9. ResultInv'
    <2>1. \A u \in Task : answer'[u] = answer[u] \/ result[u] = "none"
        BY <1>2, <1>3, <1>4 DEF IInv, TypeOK, ResultInv, Active
    <2> QED BY <1>0, <2>1 DEF IInv, ResultInv, RightRegister
<1>10. KeyInv'
    <2>1. ASSUME NEW u \in Task, Handshaking(u), link = "up",
                 future'[u] = "done", answer'[u].arg = op[u].arg
          PROVE  machineKey = op[u].arg
        <3>1. CASE u = t
            <4>1. f.key = "HU"
                BY <1>2, <1>3, <2>1, <3>1, NoneAssumption
                   DEF OwnKey, KeyOf, Handshaking, NoneAssumption
            <4>2. f.arg = op[u].arg
                BY <1>2, <1>3, <2>1, <3>1, NoneAssumption DEF IInv, TypeOK, NoneAssumption
            <4> QED BY <1>0, <2>1, <4>1, <4>2 DEF IInv, KeyInv
        <3>2. CASE u # t
            <4>1. future'[u] = future[u] /\ answer'[u] = answer[u]
                BY <1>2, <1>3, <1>4, <3>2 DEF IInv, TypeOK
            <4> QED BY <2>1, <4>1 DEF IInv, KeyInv
        <3> QED BY <3>1, <3>2
    <2>2. \A u \in Task : Handshaking(u)' <=> Handshaking(u)
        BY <1>0 DEF Handshaking
    <2> QED BY <1>0, <1>1, <2>1, <2>2 DEF IInv, KeyInv, KeyAgreement
<1> QED BY <1>5, <1>6, <1>7, <1>8, <1>9, <1>10 DEF IInv

\* An unsolicited status joins the wire.
LEMMA PushKeeps ==
    ASSUME NoneAssumption, RetriesAssumption, IInv, Push
    PROVE  IInv'
<1>0. /\ wire' = Append(wire, Status) /\ wire \in Seq(Frame) /\ Status \in Frame
      /\ UNCHANGED <<link, machineKey, keyPrefix, queue, waiters, pc, op, asks, future,
                     answer, result>>
    BY DEF Push, clientVars, IInv, TypeOK, Status, Frame, WaitKey, Arg
<1>1. /\ wire' \in Seq(Frame)
      /\ \A i \in 1 .. Len(wire') :
           \/ i \in 1 .. Len(wire) /\ wire'[i] = wire[i]
           \/ wire'[i].to = None /\ wire'[i].key = "HX"
    BY <1>0, AppendToSeq DEF Status
<1>2. TypeOK'
    BY <1>0, <1>1 DEF IInv, TypeOK
<1>3. QueueInv' /\ WaiterInv' /\ ResultInv'
    BY <1>0 DEF IInv, QueueInv, WaiterInv, ResultInv, RightRegister, Active, LockIsMine, OwnKey
<1>4. WireInv'
    BY <1>0, <1>1 DEF IInv, WireInv, NoCrossTalk
<1>5. KeyInv'
    BY <1>0, <1>1 DEF IInv, KeyInv, KeyAgreement, Handshaking
<1> QED BY <1>2, <1>3, <1>4, <1>5 DEF IInv

\* The link is lost: reset(), and the wire is gone.
LEMMA LinkDownKeeps ==
    ASSUME NoneAssumption, RetriesAssumption, IInv, LinkDown
    PROVE  IInv'
<1>0. /\ TypeOK /\ QueueInv /\ WaiterInv /\ WireInv /\ ResultInv /\ KeyInv
      /\ link' = "down" /\ machineKey' = None /\ wire' = <<>> /\ keyPrefix' = None
      /\ waiters' = [k \in WaitKey |-> None]
      /\ UNCHANGED <<queue, op, asks, answer, result>>
    BY DEF IInv, LinkDown
<1>1. pc' \in [Task -> {"idle", "queued", "sending", "broken", "waiting"}] /\
      \A u \in Task : /\ pc'[u] = "idle" <=> pc[u] = "idle"
                      /\ Active(u)' <=> Active(u)
    BY <1>0 DEF LinkDown, TypeOK, Active
<1>2. future' \in [Task -> {"none", "pending", "done", "cancelled"}] /\
      \A u \in Task : /\ future'[u] # "pending"
                      /\ future'[u] # "none" => future[u] # "none"
    BY <1>0, PendingRegistered DEF LinkDown, TypeOK, FuturesCancelled
<1>3. TypeOK'
    BY <1>0, <1>1, <1>2 DEF TypeOK
<1>4. QueueInv'
    <2>1. Members(queue) \subseteq Task
        BY <1>0 DEF TypeOK, Members
    <2> QED BY <1>0, <1>1, <2>1 DEF QueueInv, LockIsMine
<1>5. WaiterInv'
    <2>1. \A u \in Task : future'[u] # "none" => Active(u)'
        BY <1>0, <1>1, <1>2 DEF WaiterInv
    <2> QED BY <1>0, <1>2, <2>1 DEF WaiterInv
<1>6. WireInv'
    BY <1>0 DEF WireInv, NoCrossTalk
<1>7. ResultInv'
    BY <1>0, <1>1 DEF ResultInv, RightRegister
<1>8. KeyInv'
    BY <1>0, <1>1 DEF KeyInv, KeyAgreement, Handshaking
<1> QED BY <1>3, <1>4, <1>5, <1>6, <1>7, <1>8 DEF IInv

-----------------------------------------------------------------------------
LEMMA StepInv == NoneAssumption /\ RetriesAssumption /\ IInv /\ [Next]_vars => IInv'
<1> SUFFICES ASSUME NoneAssumption, RetriesAssumption, IInv, [Next]_vars PROVE IInv'
    OBVIOUS
<1>1. ASSUME NEW t \in Task, Calls(t) PROVE IInv'
    <2>1. ASSUME NEW r \in Reg, NEW cmd \in {"HR", "HC", "HW"}, Call(t, cmd, r) PROVE IInv'
        BY <2>1, CallKeeps DEF Command, Arg
    <2>2. CASE Call(t, "HX", None)
        BY <2>2, CallKeeps DEF Command, Arg
    <2>3. ASSUME NEW c \in Challenge, Handshake(t, c) PROVE IInv'
        BY <2>3, HandshakeKeeps
    <2> QED BY <1>1, <2>1, <2>2, <2>3 DEF Calls
<1>2. ASSUME NEW t \in Task, TaskStep(t) PROVE IInv'
    BY <1>2, AcquireKeeps, WriteFailsKeeps, SentKeeps, ResumeKeeps DEF TaskStep
<1>3. ASSUME NEW t \in Task, Abandon(t) PROVE IInv'
    BY <1>3, AbandonKeeps
<1>4. CASE Deliver \/ Push \/ LinkDown
    BY <1>4, DeliverKeeps, PushKeeps, LinkDownKeeps
<1>5. CASE UNCHANGED vars
    BY <1>5 DEF vars, clientVars, IInv, TypeOK, QueueInv, WaiterInv, WireInv, NoCrossTalk,
       ResultInv, RightRegister, KeyInv, KeyAgreement, Active, LockIsMine, OwnKey, Handshaking
<1> QED BY <1>1, <1>2, <1>3, <1>4, <1>5 DEF Next

\* The inductive invariant holds in every reachable state.
THEOREM Invariant == Spec => []IInv
<1>1. Init => IInv
    BY NoneAssumption, RetriesAssumption, InitInv
<1>2. IInv /\ [Next]_vars => IInv'
    BY NoneAssumption, RetriesAssumption, StepInv
<1> QED BY <1>1, <1>2, PTL DEF Spec

\* Every variable keeps its type, the retry count of a read its bound.
THEOREM TypeCorrect == Spec => []TypeOK
<1>1. IInv => TypeOK
    BY DEF IInv
<1> QED BY <1>1, Invariant, PTL

\* machine.py:199-211: at most one exchange is open, and it is the lock owner's.
THEOREM ExchangesExclude == Spec => []OneExchange
<1>1. IInv => OneExchange
    BY DEF IInv, TypeOK, QueueInv, WaiterInv, OneExchange, Active
<1> QED BY <1>1, Invariant, PTL

\* machine.py:145-173: no task is given the answer another task waits for.
THEOREM AnswersDoNotCross == Spec => []NoCrossTalk
<1>1. IInv => NoCrossTalk
    BY DEF IInv, WireInv
<1> QED BY <1>1, Invariant, PTL

\* machine.py:278-293: a numerical read returns its own register's value.
THEOREM ReadsAreRight == Spec => []RightRegister
<1>1. IInv => RightRegister
    BY DEF IInv, ResultInv
<1> QED BY <1>1, Invariant, PTL

\* machine.py:220-253: the client's key is the machine's while the link is up.
THEOREM KeysAgree == Spec => []KeyAgreement
<1>1. IInv => KeyAgreement
    BY DEF IInv, KeyInv
<1> QED BY <1>1, Invariant, PTL

-----------------------------------------------------------------------------
(* Why every call ends: one lemma per change of the lock's queue.          *)

InCall(t) == pc[t] # "idle"
Closer == \A u \in Task : InCall(u) /\ InCall(u)' => Nearer(u)
NotFurther == \A u \in Task : InCall(u) /\ InCall(u)' => Nearer(u) \/ UNCHANGED Left(u)

LEMMA CloserIsNotFurther == Closer => NotFurther
    BY DEF Closer, NotFurther

\* Tasks in a call stay where they are in the queue, and the head goes on.
LEMMA SameLine ==
    ASSUME EveryoneInLine, QueueInv, TypeOK, UNCHANGED <<queue, asks>>,
           \A u \in Task : InCall(u) <=> InCall(u)',
           queue # <<>> => HeadPhase' = HeadPhase \/ HeadPhase' < HeadPhase
    PROVE  EveryoneInLine' /\ NotFurther /\ (HeadPhase' < HeadPhase => Closer)
<1>0. queue \in Seq(Task) /\ pc \in [Task -> {"idle", "queued", "sending", "broken", "waiting"}]
    BY DEF TypeOK
<1>1. EveryoneInLine'
    BY DEF EveryoneInLine, InCall
<1>2. ASSUME NEW u \in Task, InCall(u)
      PROVE  Nearer(u) \/ UNCHANGED Left(u)
    <2>1. queue # <<>>
        BY <1>0, <1>2 DEF EveryoneInLine, InCall, Members
    <2> QED BY <2>1 DEF Nearer, Left
<1>3. HeadPhase' < HeadPhase => Closer
    BY DEF Closer, Nearer
<1> QED BY <1>1, <1>2, <1>3 DEF NotFurther

\* A call begins: its task joins the queue.
LEMMA JoinsTheLine ==
    ASSUME EveryoneInLine, QueueInv, TypeOK,
           NEW t \in Task, NEW cmd, NEW arg, Enqueue(t, cmd, arg)
    PROVE  EveryoneInLine' /\ NotFurther
<1>0. /\ queue \in Seq(Task) /\ pc[t] = "idle" /\ t \notin Members(queue)
      /\ pc' = [pc EXCEPT ![t] = "queued"] /\ queue' = Append(queue, t)
      /\ asks' = [asks EXCEPT ![t] = 1]
      /\ pc \in [Task -> {"idle", "queued", "sending", "broken", "waiting"}]
      /\ asks \in [Task -> 1 .. StaleRetries] /\ Distinct(queue)
    BY DEF TypeOK, QueueInv, Enqueue
<1>1. EveryoneInLine'
    <2>1. Members(queue') = Members(queue) \cup {t}
        BY <1>0, Join
    <2> QED BY <1>0, <2>1 DEF EveryoneInLine
<1>2. ASSUME NEW u \in Task, InCall(u)
      PROVE  UNCHANGED Left(u)
    <2>1. u # t /\ u \in Members(queue)
        BY <1>0, <1>2 DEF InCall, EveryoneInLine
    <2>2. Position(queue', u) = Position(queue, u)
        BY <1>0, <2>1, JoinPosition
    <2>3. queue'[1] = queue[1] /\ queue[1] \in Task /\ queue[1] # t
        <3>1. 1 \in 1 .. Len(queue)
            BY <1>0, <2>1 DEF Members
        <3> QED BY <1>0, <3>1 DEF Members
    <2>4. HeadPhase' = HeadPhase
        BY <1>0, <2>3 DEF HeadPhase, Phase
    <2>5. asks'[u] = asks[u]
        BY <1>0, <2>1
    <2> QED BY <2>2, <2>4, <2>5 DEF Left
<1> QED BY <1>1, <1>2 DEF NotFurther

\* A request ends and hands the lock on.
LEMMA LineMovesUp ==
    ASSUME EveryoneInLine, QueueInv, TypeOK, NEW t \in Task, LockIsMine(t),
           queue' = Tail(queue), asks' = asks, pc' = [pc EXCEPT ![t] = "idle"]
    PROVE  EveryoneInLine' /\ Closer
<1>0. /\ queue \in Seq(Task) /\ Distinct(queue) /\ IsNext(queue, t)
      /\ pc \in [Task -> {"idle", "queued", "sending", "broken", "waiting"}]
    BY DEF TypeOK, QueueInv, LockIsMine
<1>1. EveryoneInLine'
    <2>1. Members(queue') = Members(queue) \ {t}
        BY <1>0, HandOn
    <2> QED BY <1>0, <2>1 DEF EveryoneInLine
<1>2. ASSUME NEW u \in Task, InCall(u), InCall(u)'
      PROVE  Nearer(u)
    <2>1. u # t /\ u \in Members(queue)
        BY <1>0, <1>2 DEF InCall, EveryoneInLine
    <2>2. Position(queue', u) = Position(queue, u) - 1 /\ Position(queue, u) \in Nat
        BY <1>0, <2>1, HandOnPosition
    <2> QED BY <2>2 DEF Nearer
<1> QED BY <1>1, <1>2 DEF Closer

\* A read asks again, from the end of the queue.
LEMMA BackToTheEnd ==
    ASSUME EveryoneInLine, QueueInv, TypeOK, NEW t \in Task, LockIsMine(t), AskAgain(t)
    PROVE  EveryoneInLine' /\ Closer
<1>q. PICK q : q = Tail(queue)
    OBVIOUS
<1>0. /\ queue \in Seq(Task) /\ Distinct(queue) /\ IsNext(queue, t)
      /\ pc \in [Task -> {"idle", "queued", "sending", "broken", "waiting"}]
      /\ asks \in [Task -> 1 .. StaleRetries]
      /\ pc' = [pc EXCEPT ![t] = "queued"] /\ asks' = [asks EXCEPT ![t] = asks[t] + 1]
      /\ queue' = Append(q, t)
    BY <1>q DEF TypeOK, QueueInv, LockIsMine, AskAgain, BackInLine, QueueAfter
<1>1. /\ q \in Seq(Task) /\ Distinct(q) /\ Members(q) = Members(queue) \ {t}
    BY <1>q, <1>0, HandOn
<1>2. EveryoneInLine'
    <2>1. Members(queue') = Members(q) \cup {t}
        BY <1>0, <1>1, Join
    <2> QED BY <1>0, <1>1, <2>1 DEF EveryoneInLine
<1>3. asks'[t] = asks[t] + 1 /\ asks[t] \in Nat
    BY <1>0
<1>4. ASSUME NEW u \in Task, u # t, InCall(u)
      PROVE  Nearer(u)
    <2>1. u \in Members(queue) /\ u \in Members(q)
        BY <1>0, <1>1, <1>4 DEF InCall, EveryoneInLine
    <2>2. Position(q, u) = Position(queue, u) - 1 /\ Position(queue, u) \in Nat
        BY <1>q, <1>0, <1>4, <2>1, HandOnPosition
    <2>3. Position(queue', u) = Position(q, u)
        BY <1>0, <1>1, <2>1, JoinPosition
    <2>4. asks'[u] = asks[u]
        BY <1>0, <1>4
    <2> QED BY <2>2, <2>3, <2>4 DEF Nearer
<1>5. Nearer(t)
    BY <1>3 DEF Nearer
<1> QED BY <1>2, <1>4, <1>5 DEF Closer

\* A task that waits for the lock is cancelled.
LEMMA LeavesTheLine ==
    ASSUME EveryoneInLine, QueueInv, TypeOK, NEW i \in 1 .. Len(queue),
           queue' = Without(queue, i), asks' = asks,
           pc' = [pc EXCEPT ![queue[i]] = "idle"]
    PROVE  EveryoneInLine' /\ NotFurther
<1>0. /\ queue \in Seq(Task) /\ Distinct(queue) /\ queue[i] \in Task
      /\ pc \in [Task -> {"idle", "queued", "sending", "broken", "waiting"}]
    BY DEF TypeOK, QueueInv
<1>1. EveryoneInLine'
    <2>1. Members(queue') = Members(queue) \ {queue[i]}
        BY <1>0, GiveUp
    <2> QED BY <1>0, <2>1 DEF EveryoneInLine
<1>2. ASSUME NEW u \in Task, InCall(u), InCall(u)'
      PROVE  Nearer(u) \/ UNCHANGED Left(u)
    <2>1. u # queue[i] /\ u \in Members(queue)
        BY <1>0, <1>2 DEF InCall, EveryoneInLine
    <2>2. /\ Position(queue, u) \in Nat
          /\ Position(queue', u) = IF i < Position(queue, u) THEN Position(queue, u) - 1
                                ELSE Position(queue, u)
        BY <1>0, <2>1, GiveUpPosition
    <2>3. CASE i < Position(queue, u)
        BY <2>2, <2>3 DEF Nearer
    <2>4. CASE ~(i < Position(queue, u))
        <3>1. Position(queue, u) \in 1 .. Len(queue) /\ Position(queue, u) # i
            BY <1>0, <2>1, PositionOfMember
        <3>2. 1 < i
            BY <2>4, <3>1
        <3>3. /\ queue'[1] = queue[1] /\ queue[1] # queue[i] /\ queue[1] \in Task
            <4>1. Len(queue) \in Nat /\ 1 \in 1 .. Len(queue) - 1 /\ 1 \in 1 .. Len(queue)
                BY <1>0, <3>2
            <4>2. queue'[1] = queue[1]
                BY <3>2, <4>1 DEF Without
            <4>3. queue[1] # queue[i]
                BY <1>0, <3>2, <4>1 DEF Distinct
            <4> QED BY <1>0, <4>1, <4>2, <4>3
        <3>4. HeadPhase' = HeadPhase
            BY <1>0, <3>3 DEF HeadPhase, Phase
        <3> QED BY <2>2, <2>4, <3>4 DEF Left
    <2> QED BY <2>3, <2>4
<1> QED BY <1>1, <1>2 DEF NotFurther

\* The task with the lock takes a step: every call comes nearer to its end.
LEMMA TaskStepIsCloser ==
    ASSUME IInv, EveryoneInLine, NEW t \in Task, TaskStep(t)
    PROVE  EveryoneInLine' /\ Closer
<1>0. /\ TypeOK /\ QueueInv /\ t \in Task
      /\ queue \in Seq(Task)
      /\ pc \in [Task -> {"idle", "queued", "sending", "broken", "waiting"}]
    BY DEF IInv, TypeOK
<1>1. LockIsMine(t)
    BY <1>0 DEF TaskStep, Acquire, WriteFails, Sent, TimesOut, SeesCancel, Resume,
                QueueInv, Active
<1>2. queue[1] = t /\ queue # <<>>
    BY <1>1 DEF LockIsMine, IsNext
<1>3. ASSUME NEW to, pc[t] # "idle", to # "idle", pc' = [pc EXCEPT ![t] = to],
             UNCHANGED <<queue, asks>>, HeadPhase' < HeadPhase
      PROVE  EveryoneInLine' /\ Closer
    <2>1. \A u \in Task : InCall(u) <=> InCall(u)'
        BY <1>0, <1>3 DEF InCall
    <2> QED BY <1>0, <1>3, <2>1, SameLine
<1>4. CASE Acquire(t)
    <2>1. HeadPhase' < HeadPhase
        BY <1>0, <1>2, <1>4 DEF Acquire, HeadPhase, Phase
    <2> QED BY <1>3, <1>4, <2>1 DEF Acquire
<1>5. CASE Sent(t)
    <2>1. HeadPhase' < HeadPhase
        BY <1>0, <1>2, <1>5 DEF Sent, HeadPhase, Phase
    <2> QED BY <1>3, <1>5, <2>1 DEF Sent
<1>6. ASSUME NEW outcome, Return(t, outcome), asks' = asks
      PROVE  EveryoneInLine' /\ Closer
    BY <1>0, <1>1, <1>6, LineMovesUp DEF Return, QueueAfter
<1>7. CASE WriteFails(t) \/ TimesOut(t) \/ SeesCancel(t)
    BY <1>6, <1>7 DEF WriteFails, TimesOut, SeesCancel, Fail
<1>8. CASE Resume(t)
    <2>1. CASE AskAgain(t)
        BY <1>0, <1>1, <2>1, BackToTheEnd
    <2>2. CASE ~AskAgain(t)
        <3>1. PICK outcome : Return(t, outcome) /\ asks' = asks
            BY <1>8, <2>2 DEF Resume, Handshaken, ReadNumerical, ReadUnchecked,
                              Acknowledged, Accepted, Fail
        <3> QED BY <1>6, <3>1
    <2> QED BY <2>1, <2>2
<1> QED BY <1>4, <1>5, <1>7, <1>8 DEF TaskStep

\* No other step takes a call away from its end.
LEMMA NoStepIsFurther ==
    ASSUME IInv, EveryoneInLine, [Next]_vars
    PROVE  EveryoneInLine' /\ NotFurther
<1>0. /\ TypeOK /\ QueueInv /\ queue \in Seq(Task)
      /\ pc \in [Task -> {"idle", "queued", "sending", "broken", "waiting"}]
    BY DEF IInv, TypeOK
<1>1. ASSUME NEW t \in Task, Calls(t) PROVE EveryoneInLine' /\ NotFurther
    BY <1>0, <1>1, JoinsTheLine DEF Calls, Call, Handshake
<1>2. ASSUME NEW t \in Task, TaskStep(t) PROVE EveryoneInLine' /\ NotFurther
    BY <1>2, TaskStepIsCloser, CloserIsNotFurther
<1>3. ASSUME NEW t \in Task, Abandon(t) PROVE EveryoneInLine' /\ NotFurther
    <2>1. CASE pc[t] = "queued"
        <3>1. PICK i \in 1 .. Len(queue) :
                 /\ queue[i] = t /\ queue' = Without(queue, i)
                 /\ pc' = [pc EXCEPT ![t] = "idle"] /\ asks' = asks
            BY <1>3, <2>1 DEF Abandon
        <3> QED BY <1>0, <3>1, LeavesTheLine
    <2>2. CASE pc[t] # "queued"
        <3>1. Fail(t, "cancelled") /\ LockIsMine(t)
            BY <1>0, <1>3, <2>2 DEF Abandon, QueueInv, Active
        <3>2. /\ queue' = Tail(queue) /\ asks' = asks
              /\ pc' = [pc EXCEPT ![t] = "idle"]
            BY <3>1 DEF Fail, Return, QueueAfter
        <3> QED BY <1>0, <3>1, <3>2, LineMovesUp, CloserIsNotFurther
    <2> QED BY <2>1, <2>2
<1>4. ASSUME UNCHANGED <<queue, asks, pc>> PROVE EveryoneInLine' /\ NotFurther
    <2>1. HeadPhase' = HeadPhase /\ \A u \in Task : InCall(u) <=> InCall(u)'
        BY <1>4 DEF HeadPhase, Phase, InCall
    <2> QED BY <1>0, <1>4, <2>1, SameLine
<1>5. CASE Deliver \/ Push \/ UNCHANGED vars
    BY <1>4, <1>5 DEF Deliver, Push, clientVars, vars
<1>6. CASE LinkDown
    <2>1. /\ UNCHANGED <<queue, asks>>
          /\ pc' = [t \in Task |-> IF pc[t] = "sending" THEN "broken" ELSE pc[t]]
        BY <1>6 DEF LinkDown
    <2>2. \A u \in Task : InCall(u) <=> InCall(u)'
        BY <1>0, <2>1 DEF InCall
    <2>3. ASSUME queue # <<>>
          PROVE  HeadPhase' = HeadPhase \/ HeadPhase' < HeadPhase
        <3>1. queue[1] \in Task
            BY <1>0, <2>3
        <3> QED BY <1>0, <2>1, <3>1 DEF HeadPhase, Phase
    <2> QED BY <1>0, <2>1, <2>2, <2>3, SameLine
<1> QED BY <1>1, <1>2, <1>3, <1>5, <1>6 DEF Next

\* Every task in a call stands in the queue of the request lock, so none is
\* forgotten by an answer, a timeout, a cancellation or a drop.
THEOREM NobodyForgotten == Spec => []EveryoneInLine
<1>1. Init => EveryoneInLine
    BY DEF Init, EveryoneInLine
<1>2. IInv /\ EveryoneInLine /\ [Next]_vars => EveryoneInLine'
    BY NoStepIsFurther
<1> QED BY <1>1, <1>2, Invariant, PTL DEF Spec

\* A task is in a call only while the head of the queue is a task that can go
\* on by itself: it may take the lock, or has it, and then writes, fails, is
\* answered or times out.
THEOREM SomebodyGoesOn ==
    ASSUME IInv, EveryoneInLine, NEW t \in Task, pc[t] # "idle"
    PROVE  \E u \in Task : LockIsMine(u) /\ (pc[u] = "queued" \/ Active(u))
<1>1. queue \in Seq(Task) /\ t \in Members(queue)
      /\ pc \in [Task -> {"idle", "queued", "sending", "broken", "waiting"}]
    BY DEF IInv, TypeOK, EveryoneInLine
<1>2. queue[1] \in Task /\ LockIsMine(queue[1]) /\ queue[1] \in Members(queue)
    BY <1>1 DEF Members, LockIsMine, IsNext
<1>3. pc[queue[1]] # "idle"
    BY <1>2 DEF IInv, QueueInv
<1> QED BY <1>1, <1>2, <1>3 DEF Active

\* MelittaMachine._request: every step of the task that has the lock brings
\* every call nearer to its end, and nothing takes a call away from it.
THEOREM CallsComeNearer == Spec => ComesNearer
<1>1. IInv /\ EveryoneInLine /\ [Next]_vars =>
        [\A t \in Task : pc[t] # "idle" /\ pc'[t] # "idle" =>
          /\ Nearer(t) \/ UNCHANGED Left(t)
          /\ (\E u \in Task : TaskStep(u)) => Nearer(t)]_vars
    <2> SUFFICES ASSUME IInv, EveryoneInLine, [Next]_vars,
                        NEW t \in Task, pc[t] # "idle", pc'[t] # "idle"
                 PROVE  /\ Nearer(t) \/ UNCHANGED Left(t)
                        /\ (\E u \in Task : TaskStep(u)) => Nearer(t)
        OBVIOUS
    <2>1. Nearer(t) \/ UNCHANGED Left(t)
        BY NoStepIsFurther DEF NotFurther, InCall
    <2>2. ASSUME NEW u \in Task, TaskStep(u) PROVE Nearer(t)
        BY <2>2, TaskStepIsCloser DEF Closer, InCall
    <2> QED BY <2>1, <2>2
<1> QED BY <1>1, Invariant, NobodyForgotten, PTL DEF Spec, ComesNearer

-----------------------------------------------------------------------------
(* What a wrong recipe comes from.                                          *)

\* An answer that is on its way to a request, or has come, names what was asked.
LEMMA OwnAnswersStep ==
    ASSUME NoneAssumption, RetriesAssumption, IInv, OwnAnswersMatch, [Next]_vars
    PROVE  OwnAnswersMatch'
<1>0. /\ op \in [Task -> [cmd : Command, arg : Arg]] /\ answer \in [Task -> Frame \cup {NoFrame}]
      /\ wire \in Seq(Frame) /\ None \notin Task /\ NoFrame.to = None /\ Status.to = None
      /\ \A i \in 1 .. Len(wire) : wire[i].to # None => pc[wire[i].to] = "waiting"
      /\ NoCrossTalk
    BY DEF IInv, TypeOK, WireInv, NoneAssumption, NoFrame, Status
<1>1. ASSUME NEW t \in Task, Calls(t) PROVE OwnAnswersMatch'
    <2>1. /\ pc[t] = "idle" /\ wire' = wire
          /\ answer' = [answer EXCEPT ![t] = NoFrame]
          /\ \A u \in Task : u # t => op'[u] = op[u]
        BY <1>0, <1>1 DEF Calls, Call, Handshake, Enqueue
    <2>2. \A i \in 1 .. Len(wire) : wire[i].to # t
        BY <1>0, <2>1
    <2> QED BY <1>0, <2>1, <2>2 DEF OwnAnswersMatch
<1>2. ASSUME NEW t \in Task, wire' = Orphaned(t), UNCHANGED op,
             \A u \in Task : answer'[u] \in {answer[u], NoFrame}
      PROVE  OwnAnswersMatch'
    <2>1. \A i \in 1 .. Len(wire') :
             /\ i \in 1 .. Len(wire)
             /\ wire'[i].to \in Task => wire'[i].to = wire[i].to /\ wire'[i].arg = wire[i].arg
        BY <1>0, <1>2 DEF Orphaned, Frame
    <2> QED BY <1>0, <1>2, <2>1 DEF OwnAnswersMatch
<1>3. ASSUME NEW t \in Task, Sent(t) PROVE OwnAnswersMatch'
    <2>1. CASE wire' = wire
        BY <1>3, <2>1 DEF Sent, OwnAnswersMatch
    <2>2. ASSUME NEW ok,
                 wire' = Append(wire, [key |-> OwnKey(t), arg |-> op[t].arg, ok |-> ok, to |-> t])
          PROVE  OwnAnswersMatch'
        <3>1. PICK f : f = [key |-> OwnKey(t), arg |-> op[t].arg, ok |-> ok, to |-> t]
            OBVIOUS
        <3>2. wire' = Append(wire, f) /\ f.to = t /\ f.arg = op[t].arg
            BY <2>2, <3>1
        <3>3. \A i \in 1 .. Len(wire') : (i \in 1 .. Len(wire) /\ wire'[i] = wire[i]) \/ wire'[i] = f
            BY <1>0, <3>2
        <3> QED BY <1>3, <3>2, <3>3 DEF Sent, OwnAnswersMatch
    <2> QED BY <1>3, <2>1, <2>2 DEF Sent, Answers, StaysSilent
<1>4. ASSUME NEW t \in Task, Acquire(t) PROVE OwnAnswersMatch'
    BY <1>4 DEF Acquire, OwnAnswersMatch
<1>5. ASSUME NEW t \in Task, WriteFails(t) \/ TimesOut(t) \/ SeesCancel(t) \/ Resume(t)
      PROVE  OwnAnswersMatch'
    <2>1. /\ wire' = Orphaned(t) /\ UNCHANGED op
          /\ \/ UNCHANGED answer
             \/ answer' = [answer EXCEPT ![t] = NoFrame]
        BY <1>5 DEF WriteFails, TimesOut, SeesCancel, Resume, Fail, Return, EndRequest, Handshaken,
           ReadNumerical, ReadUnchecked, Acknowledged, Accepted, AskAgain
    <2> QED BY <1>0, <1>2, <2>1
<1>6. ASSUME NEW t \in Task, Abandon(t) PROVE OwnAnswersMatch'
    <2>1. CASE wire' = Orphaned(t)
        <3>1. UNCHANGED op /\ answer' = [answer EXCEPT ![t] = NoFrame]
            BY <1>6 DEF Abandon, Fail
        <3> QED BY <1>0, <1>2, <2>1, <3>1
    <2>2. CASE wire' # Orphaned(t)
        <3>1. UNCHANGED <<op, wire>> /\ answer' = [answer EXCEPT ![t] = NoFrame]
            BY <1>6, <2>2 DEF Abandon, Fail, Return, EndRequest
        <3> QED BY <1>0, <3>1 DEF OwnAnswersMatch
    <2> QED BY <2>1, <2>2
<1>7. CASE Deliver
    <2>1. PICK f : f = Head(wire)
        OBVIOUS
    <2>2. /\ wire # <<>> /\ f = wire[1] /\ 1 \in 1 .. Len(wire) /\ UNCHANGED op
          /\ wire' = Tail(wire)
          /\ \A i \in 1 .. Len(wire') : i + 1 \in 1 .. Len(wire) /\ wire'[i] = wire[i + 1]
        BY <1>0, <1>7, <2>1 DEF Deliver
    <2>3. \A u \in Task : f.to = u => f.arg = op[u].arg
        BY <2>2 DEF OwnAnswersMatch
    <2>4. \A u \in Task : answer'[u] = answer[u] \/ answer'[u] = f
        BY <1>0, <1>7, <2>1 DEF Deliver
    <2> QED BY <2>2, <2>3, <2>4 DEF OwnAnswersMatch
<1>8. CASE Push
    <2>1. /\ UNCHANGED <<op, answer>> /\ wire' = Append(wire, Status)
        BY <1>8 DEF Push, clientVars
    <2>2. \A i \in 1 .. Len(wire') :
             (i \in 1 .. Len(wire) /\ wire'[i] = wire[i]) \/ wire'[i] = Status
        BY <1>0, <2>1
    <2> QED BY <1>0, <2>1, <2>2 DEF OwnAnswersMatch
<1>9. CASE LinkDown
    BY <1>9 DEF LinkDown, OwnAnswersMatch
<1>10. CASE UNCHANGED vars
    BY <1>10 DEF vars, clientVars, OwnAnswersMatch
<1> QED
    BY <1>1, <1>3, <1>4, <1>5, <1>6, <1>7, <1>8, <1>9, <1>10 DEF Next, TaskStep

\* machine.py:320-325: read_recipe does not look at the recipe it is given.  When
\* it returns another one it was given the answer of a request that had ended; the
\* answer to its own request is never another recipe.
THEOREM WrongRecipesAreStale == Spec => []WrongOnlyIfStale
<1>1. Init => OwnAnswersMatch
    BY NoneAssumption DEF Init, OwnAnswersMatch, NoFrame
<1>2. IInv /\ OwnAnswersMatch /\ [Next]_vars => OwnAnswersMatch'
    BY NoneAssumption, RetriesAssumption, OwnAnswersStep
<1>3. IInv /\ OwnAnswersMatch => WrongOnlyIfStale
    BY DEF IInv, WireInv, NoCrossTalk, OwnAnswersMatch, WrongOnlyIfStale
<1> QED BY <1>1, <1>2, <1>3, Invariant, PTL DEF Spec
=============================================================================
