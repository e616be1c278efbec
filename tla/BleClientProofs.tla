--------------------------- MODULE BleClientProofs ---------------------------
(* The safety of BleClient, what its steps may never do, that it implements *)
(* BleSession, that every call comes nearer to its end, and what is true of *)
(* a closed client: for any tasks, links and write characteristics.         *)
EXTENDS BleClient, FifoLockProofs, TLAPS

Assumptions == NoneAssumption /\ CharsAssumption /\ OpsAssumption

\* Only the task t changes what it is about to do.
OnlyAt(t) == \A u \in Task \ {t} : op'[u] = op[u] /\ goal'[u] = goal[u]

-----------------------------------------------------------------------------
(* The queue: moving on, joining, leaving, leaving and joining, giving up.  *)

\* A task past the lock is alone there.
LEMMA Alone ==
    ASSUME QueueInv, NEW t \in Task, LockIsMine(t)
    PROVE  \A u \in Task : Inside(u) => u = t
    BY DEF QueueInv, LockIsMine, IsNext

\* A task moves on and stays in the queue, or out of it.
LEMMA Moves ==
    ASSUME TypeOK, QueueInv, NoneBehindClose, NEW t \in Task, NEW p \in Place, Goto(t, p),
           queue' = queue, Busy(t) <=> p \notin {"idle", "acting"},
           p \in Ladder \cup {"bond"} => LockIsMine(t),
           OnlyAt(t), Busy(t) => op'[t] = op[t] /\ goal'[t] = goal[t]
    PROVE  queue' \in Seq(Task) /\ pc' \in [Task -> Place] /\ QueueInv' /\ NoneBehindClose'
<1>1. queue' \in Seq(Task) /\ pc' \in [Task -> Place] /\ pc' = [pc EXCEPT ![t] = p]
    BY DEF TypeOK, Goto
<1>2. \A u \in Task : Busy(u)' <=> Busy(u)
    BY <1>1 DEF TypeOK, Busy
<1>3. QueueInv'
    BY <1>1, <1>2 DEF TypeOK, QueueInv, Inside, LockIsMine
<1>4. \A u, v : Before(queue, u, v) => u \in Members(queue) /\ v \in Members(queue)
    BY DEF Before, Members
<1>5. \A u \in Task : u \in Members(queue) => op'[u] = op[u] /\ goal'[u] = goal[u]
    BY DEF QueueInv, OnlyAt
<1> QED BY <1>1, <1>3, <1>4, <1>5 DEF NoneBehindClose

\* A task joins the queue; it wants a session only while nobody closes.
LEMMA Joins ==
    ASSUME TypeOK, QueueInv, CloseInv, NEW t \in Task, Goto(t, "lock"),
           ~Busy(t), queue' = Append(queue, t),
           OnlyAt(t), goal'[t] = "connect" => ~closing
    PROVE  queue' \in Seq(Task) /\ pc' \in [Task -> Place] /\ QueueInv' /\ NoneBehindClose'
<1>1. /\ queue \in Seq(Task) /\ Distinct(queue) /\ t \notin Members(queue)
      /\ pc' = [pc EXCEPT ![t] = "lock"] /\ pc' \in [Task -> Place]
    BY DEF TypeOK, QueueInv, Goto, Place
<1>2. /\ queue' \in Seq(Task) /\ Distinct(queue')
      /\ Members(queue') = Members(queue) \cup {t}
      /\ \A u \in Task : IsNext(queue, u) => IsNext(queue', u)
    BY <1>1, Join
<1>3. QueueInv'
    <2>1. Members(queue') = {u \in Task : Busy(u)}'
        BY <1>1, <1>2 DEF TypeOK, QueueInv, Busy
    <2>2. \A u \in Task : Inside(u)' => Inside(u)
        BY <1>1 DEF TypeOK, Inside, Ladder
    <2> QED BY <1>2, <2>1, <2>2 DEF QueueInv, LockIsMine
<1>4. ASSUME NEW u \in Task, NEW v \in Task, Before(queue', u, v), op'[u] = "close"
      PROVE  goal'[v] # "connect"
    <2>1. u # v /\ u \in Members(queue')
        BY <1>2, <1>4 DEF Before, Distinct, Members
    <2>2. CASE v = t
        BY <1>2, <1>4, <2>1, <2>2 DEF OnlyAt, QueueInv, CloseInv
    <2>3. CASE v # t
        <3>1. Before(queue, u, v)
            BY <1>1, <1>4, <2>3, JoinOrder
        <3>2. u # t
            BY <1>1, <3>1 DEF Before, Members
        <3> QED BY <1>4, <2>3, <3>1, <3>2 DEF OnlyAt, CloseInv, NoneBehindClose
    <2> QED BY <2>2, <2>3
<1> QED BY <1>1, <1>2, <1>3, <1>4 DEF NoneBehindClose

\* The head hands the lock on and is done with the queue.
LEMMA Leaves ==
    ASSUME TypeOK, QueueInv, NoneBehindClose, NEW t \in Task, LockIsMine(t),
           NEW p \in {"idle", "acting"}, Goto(t, p), queue' = Tail(queue), OnlyAt(t)
    PROVE  queue' \in Seq(Task) /\ pc' \in [Task -> Place] /\ QueueInv' /\ NoneBehindClose'
<1>1. /\ queue \in Seq(Task) /\ Distinct(queue) /\ IsNext(queue, t)
      /\ pc' = [pc EXCEPT ![t] = p] /\ pc' \in [Task -> Place]
    BY DEF TypeOK, QueueInv, Goto, Place, LockIsMine
<1>2. queue' \in Seq(Task) /\ Distinct(queue') /\ Members(queue') = Members(queue) \ {t}
    BY <1>1, HandOn
<1>3. QueueInv'
    <2>1. Members(queue') = {u \in Task : Busy(u)}'
        BY <1>1, <1>2 DEF TypeOK, QueueInv, Busy
    <2>2. \A u \in Task : ~Inside(u)'
        BY <1>1, Alone DEF TypeOK, Inside, Ladder
    <2> QED BY <1>2, <2>1, <2>2 DEF QueueInv
<1>4. ASSUME NEW u \in Task, NEW v \in Task, Before(queue', u, v), op'[u] = "close"
      PROVE  goal'[v] # "connect"
    <2>1. Before(queue, u, v)
        BY <1>1, <1>4, HandOnOrder
    <2>2. u # t /\ v # t
        BY <1>2, <1>4 DEF Before, Members
    <2> QED BY <1>4, <2>1, <2>2 DEF OnlyAt, NoneBehindClose
<1> QED BY <1>1, <1>2, <1>3, <1>4 DEF NoneBehindClose

\* The head hands the lock on and waits for it again, while nobody closes.
LEMMA JoinsAgain ==
    ASSUME TypeOK, QueueInv, CloseInv, NEW t \in Task, LockIsMine(t), Goto(t, "lock"),
           queue' = Append(Tail(queue), t), OnlyAt(t), ~closing, Busy(t)
    PROVE  queue' \in Seq(Task) /\ pc' \in [Task -> Place] /\ QueueInv' /\ NoneBehindClose'
<1> DEFINE q == Tail(queue)
<1>1. /\ queue \in Seq(Task) /\ Distinct(queue) /\ IsNext(queue, t)
      /\ pc' = [pc EXCEPT ![t] = "lock"] /\ pc' \in [Task -> Place]
    BY DEF TypeOK, QueueInv, Goto, Place, LockIsMine
<1>2. q \in Seq(Task) /\ Distinct(q) /\ Members(q) = Members(queue) \ {t}
    BY <1>1, HandOn
<1>3. queue' = Append(q, t)
    OBVIOUS
<1> HIDE DEF q
<1>4. queue' \in Seq(Task) /\ Distinct(queue') /\ Members(queue') = Members(q) \cup {t}
    <2>1. /\ Append(q, t) \in Seq(Task) /\ Distinct(Append(q, t))
          /\ Members(Append(q, t)) = Members(q) \cup {t}
        BY <1>2, Join
    <2> QED BY <1>3, <2>1
<1>5. QueueInv'
    <2>1. Members(queue') = {u \in Task : Busy(u)}'
        BY <1>1, <1>2, <1>4 DEF TypeOK, QueueInv, Busy
    <2>2. \A u \in Task : ~Inside(u)'
        BY <1>1, Alone DEF TypeOK, Inside, Ladder
    <2> QED BY <1>4, <2>1, <2>2 DEF QueueInv
<1>6. ASSUME NEW u \in Task, NEW v \in Task, Before(queue', u, v), op'[u] = "close"
      PROVE  FALSE
    <2>1. u # v /\ u \in Members(queue')
        BY <1>4, <1>6 DEF Before, Distinct, Members
    <2>2. CASE v = t
        BY <1>2, <1>4, <1>6, <2>1, <2>2 DEF OnlyAt, QueueInv, CloseInv
    <2>3. CASE v # t
        <3>0. Before(Append(q, t), u, v)
            BY <1>3, <1>6
        <3>1. Before(q, u, v)
            BY <1>2, <2>3, <3>0, JoinOrder
        <3>2. u \in Members(q)
            BY <3>1 DEF Before, Members
        <3> QED BY <1>2, <1>6, <3>2 DEF OnlyAt, QueueInv, CloseInv
    <2> QED BY <2>2, <2>3
<1> QED BY <1>1, <1>4, <1>5, <1>6 DEF NoneBehindClose

\* A task that waits for the lock gives up.
LEMMA GivesUp ==
    ASSUME TypeOK, QueueInv, NoneBehindClose, NEW t \in Task, pc[t] = "lock",
           NEW i \in 1 .. Len(queue), queue[i] = t, queue' = Without(queue, i),
           Goto(t, "idle"), OnlyAt(t)
    PROVE  queue' \in Seq(Task) /\ pc' \in [Task -> Place] /\ QueueInv' /\ NoneBehindClose'
<1>1. /\ queue \in Seq(Task) /\ Distinct(queue)
      /\ pc' = [pc EXCEPT ![t] = "idle"] /\ pc' \in [Task -> Place]
    BY DEF TypeOK, QueueInv, Goto, Place
<1>2. /\ Without(queue, i) \in Seq(Task) /\ Distinct(Without(queue, i))
      /\ Members(Without(queue, i)) = Members(queue) \ {queue[i]}
      /\ \A u : IsNext(queue, u) /\ u # queue[i] => IsNext(Without(queue, i), u)
    BY <1>1, GiveUp
<1>3. QueueInv'
    <2>1. Members(queue') = {u \in Task : Busy(u)}'
        BY <1>1, <1>2 DEF TypeOK, QueueInv, Busy
    <2>2. \A u \in Task : Inside(u)' => Inside(u) /\ u # t
        BY <1>1 DEF TypeOK, Inside, Ladder
    <2>3. \A u \in Task : Inside(u)' => IsNext(queue', u)
        BY <1>2, <2>2 DEF QueueInv, LockIsMine
    <2> QED BY <1>2, <2>1, <2>3 DEF QueueInv, LockIsMine
<1>4. ASSUME NEW u \in Task, NEW v \in Task, Before(queue', u, v), op'[u] = "close"
      PROVE  goal'[v] # "connect"
    <2>1. Before(queue, u, v)
        BY <1>1, <1>4, GiveUpOrder
    <2>2. u # t /\ v # t
        BY <1>2, <1>4 DEF Before, Members
    <2> QED BY <1>4, <2>1, <2>2 DEF OnlyAt, NoneBehindClose
<1> QED BY <1>1, <1>2, <1>3, <1>4 DEF NoneBehindClose

-----------------------------------------------------------------------------
(* One lemma per action.                                                    *)

LEMMA InitInv == Assumptions /\ Init => IInv
<1> SUFFICES ASSUME Assumptions, Init PROVE IInv
    OBVIOUS
<1> USE DEF Init
<1>1. TypeOK
    <2>1. LinkTypes
        BY DEF LinkTypes
    <2>2. LadderTypes
        <3>1. 1 \in 1 .. Chars
            BY DEF Assumptions, CharsAssumption
        <3> QED BY <3>1 DEF LadderTypes
    <2>3. TaskTypes
        BY DEF TaskTypes, Op
    <2> QED BY <2>1, <2>2, <2>3 DEF TypeOK, Place
<1>2. QueueInv
    BY DEF QueueInv, Distinct, Members, Busy, Inside, Ladder
<1>3. LinkInv
    BY DEF LinkInv, Inside, Ladder
<1>4. CloseInv
    BY DEF CloseInv, NoneBehindClose, Before, Busy
<1> QED BY <1>1, <1>2, <1>3, <1>4 DEF IInv

\* async_run and a poll, with a session at hand or not.
LEMMA CallRunKeeps ==
    ASSUME Assumptions, IInv, NEW t \in Task, NEW o \in Ops, CallRun(t, o)
    PROVE  IInv'
<1> USE DEF IInv
<1>0. /\ pc[t] = "idle" /\ o \in Op /\ ~closing /\ o # "close"
      /\ UNCHANGED <<up, client, key, closing, closed, victim, private, ladderVars>>
    BY DEF CallRun, MayRun, Assumptions, OpsAssumption
<1>1. CASE /\ Goto(t, "acting") /\ op' = [op EXCEPT ![t] = "run"]
           /\ outcome' = [outcome EXCEPT ![t] = "none"] /\ UNCHANGED <<queue, goal>>
    <2>1. queue' \in Seq(Task) /\ pc' \in [Task -> Place] /\ QueueInv' /\ NoneBehindClose'
        <3>1. OnlyAt(t)
            BY <1>1 DEF TypeOK, TaskTypes, OnlyAt
        <3> QED BY <1>0, <1>1, <3>1, Moves DEF CloseInv, Place, Ladder, Busy
    <2>2. TypeOK'
        <3>1. TaskTypes'
            BY <1>1 DEF TypeOK, TaskTypes, Op
        <3> QED BY <1>0, <2>1, <3>1 DEF TypeOK, LinkTypes, LadderTypes, ladderVars
    <2>3. LinkInv'
        BY <1>0, <1>1 DEF TypeOK, LinkTypes, LinkInv, Inside, Ladder, Goto, ladderVars
    <2>4. CloseInv'
        BY <1>0, <1>1, <2>1 DEF TypeOK, TaskTypes, CloseInv, Busy, Goto, ladderVars
    <2> QED BY <2>1, <2>2, <2>3, <2>4
<1>2. CASE Want(t, o, "connect")
    <2>1. queue' \in Seq(Task) /\ pc' \in [Task -> Place] /\ QueueInv' /\ NoneBehindClose'
        BY <1>0, <1>2, Joins DEF Want, TypeOK, TaskTypes, OnlyAt, Busy
    <2>2. TypeOK'
        <3>1. TaskTypes'
            BY <1>0, <1>2 DEF TypeOK, TaskTypes, Op, Want
        <3> QED BY <1>0, <2>1, <3>1 DEF TypeOK, LinkTypes, LadderTypes, ladderVars
    <2>3. LinkInv'
        BY <1>0, <1>2 DEF TypeOK, LinkTypes, LinkInv, Inside, Ladder, Goto, ladderVars, Want
    <2>4. CloseInv'
        BY <1>0, <1>2, <2>1 DEF TypeOK, TaskTypes, CloseInv, Busy, Goto, ladderVars, Want
    <2> QED BY <2>1, <2>2, <2>3, <2>4
<1> QED BY <1>1, <1>2 DEF CallRun

\* A repair or a close asks for the lock; a failed action asks for it to
\* disconnect.
LEMMA AskKeeps ==
    ASSUME Assumptions, IInv, NEW t \in Task,
           CallClear(t) \/ CallClose(t) \/ ActionBreaks(t)
    PROVE  IInv'
<1> USE DEF IInv
<1>0. /\ pc[t] \in {"idle", "acting"} /\ Goto(t, "lock") /\ queue' = Append(queue, t)
      /\ OnlyAt(t) /\ goal'[t] # "connect"
      /\ UNCHANGED <<up, client, key, closed, victim, private, ladderVars>>
      /\ closing' \in BOOLEAN /\ (closing => closing') /\ (op'[t] = "close" /\ op'[t] # op[t] => closing')
      /\ op' \in [Task -> Op] /\ goal' \in [Task -> {"none", "connect", "disconnect", "clear"}]
      /\ outcome' \in [Task -> {"none", "ok", "failed", "refused", "dropped", "cancelled"}]
    BY DEF CallClear, CallClose, ActionBreaks, Want, TypeOK, LinkTypes, TaskTypes, Op, OnlyAt
<1>1. queue' \in Seq(Task) /\ pc' \in [Task -> Place] /\ QueueInv' /\ NoneBehindClose'
    BY <1>0, Joins DEF Busy
<1>2. TypeOK'
    <2>1. TaskTypes'
        BY <1>0 DEF TaskTypes
    <2> QED BY <1>0, <1>1, <2>1 DEF TypeOK, LinkTypes, LadderTypes, ladderVars
<1>3. LinkInv'
    BY <1>0 DEF TypeOK, LinkTypes, LinkInv, Inside, Ladder, Goto, ladderVars
<1>4. CloseInv'
    BY <1>0, <1>1 DEF TypeOK, TaskTypes, CloseInv, Busy, Goto, ladderVars, OnlyAt
<1> QED BY <1>1, <1>2, <1>3, <1>4

\* The ways past the lock: to leave it, to tear down, to climb on, to go on to
\* the caller.
LEMMA LeaveKeeps ==
    ASSUME Assumptions, IInv, NEW t \in Task, Inside(t),
           NEW result \in {"ok", "failed", "dropped", "cancelled"}, Leave(t, result),
           up' \subseteq Link, client # None => client \in up',
           UNCHANGED <<client, key, closing>>,
           victim' \in Link \cup {None},
           private' = None \/ (pc[t] # "bond" /\ private' = private),
           closed' \in BOOLEAN, closed' => closed \/ op[t] = "close"
    PROVE  IInv'
<1> USE DEF IInv
<1>0. /\ LockIsMine(t) /\ Goto(t, "idle") /\ queue' = Tail(queue) /\ op' = op
      /\ goal' = [goal EXCEPT ![t] = "none"] /\ outcome' = [outcome EXCEPT ![t] = result]
      /\ FreshLadder
    BY DEF QueueInv, Leave, End, LockHandedOn
<1>1. \A u \in Task : Inside(u) => u = t
    BY <1>0, Alone
<1>2. queue' \in Seq(Task) /\ pc' \in [Task -> Place] /\ QueueInv' /\ NoneBehindClose'
    <2>1. OnlyAt(t)
        BY <1>0 DEF TypeOK, TaskTypes, OnlyAt
    <2> QED BY <1>0, <2>1, Leaves DEF CloseInv
<1>3. TypeOK'
    <2>1. LinkTypes'
        BY DEF TypeOK, LinkTypes
    <2>2. LadderTypes'
        <3>1. 1 \in 1 .. Chars
            BY DEF Assumptions, CharsAssumption
        <3> QED BY <1>0, <3>1 DEF FreshLadder, LadderTypes
    <2>3. TaskTypes'
        BY <1>0 DEF TypeOK, TaskTypes
    <2> QED BY <1>2, <2>1, <2>2, <2>3 DEF TypeOK
<1>4. LinkInv'
    <2>1. \A u \in Task : ~Inside(u)'
        BY <1>0, <1>1 DEF TypeOK, Goto, Inside, Ladder
    <2>2. private' = None
        BY <1>1 DEF LinkInv, Inside
    <2> QED BY <1>0, <2>1, <2>2 DEF LinkInv, FreshLadder, Inside, Ladder
<1>5. CloseInv'
    <2>1. \A u \in Task : Busy(u)' => Busy(u) /\ u # t /\ goal'[u] = goal[u]
        BY <1>0 DEF TypeOK, TaskTypes, Goto, Busy
    <2>2. \A u \in Task : ~Inside(u)'
        BY <1>0, <1>1 DEF TypeOK, Goto, Inside, Ladder
    <2>3. ASSUME NEW u \in Task, u # t, Busy(u), op[t] = "close" PROVE goal[u] # "connect"
        <3>1. Before(queue, t, u)
            BY <1>0, <2>3, HeadIsBefore DEF QueueInv, LockIsMine, TypeOK
        <3> QED BY <2>3, <3>1 DEF CloseInv, NoneBehindClose
    <2> QED BY <1>0, <1>2, <2>1, <2>2, <2>3 DEF CloseInv, Inside, Ladder
<1> QED BY <1>2, <1>3, <1>4, <1>5

LEMMA TearDownKeeps ==
    ASSUME Assumptions, IInv, NEW t \in Task, LockIsMine(t), Busy(t), pc[t] # "bond",
           NEW next \in {"open", "retry", "bond", "leave"}, TearDown(t, next),
           next \in {"open", "retry"} => goal[t] = "connect",
           UNCHANGED <<up, private, closing, closed, queue, op, goal, outcome>>,
           LadderTypes'
    PROVE  IInv'
<1> USE DEF IInv
<1>0. /\ Goto(t, "teardown") /\ client' = None /\ key' = None /\ victim' = client
      /\ hs' = "none" /\ after' = next
    BY DEF TearDown, KeyForgotten, LinkToClose
<1>1. \A u \in Task : Inside(u) => u = t
    BY Alone
<1>2. queue' \in Seq(Task) /\ pc' \in [Task -> Place] /\ QueueInv' /\ NoneBehindClose'
    BY <1>0, Moves DEF CloseInv, OnlyAt, Place, Ladder
<1>3. TypeOK'
    BY <1>0, <1>2 DEF TypeOK, LinkTypes, TaskTypes
<1>4. LinkInv'
    BY <1>0, <1>1 DEF TypeOK, Goto, LinkInv, Inside, Ladder
<1>5. CloseInv'
    <2>1. \A u \in Task : u # t => pc'[u] \notin Ladder /\ pc'[u] = pc[u]
        BY <1>0, <1>1 DEF TypeOK, Goto, Inside
    <2>2. pc'[t] = "teardown"
        BY <1>0 DEF TypeOK, Goto
    <2>3. \A u \in Task : Busy(u)' <=> Busy(u)
        BY <2>1, <2>2 DEF Busy
    <2> QED BY <1>0, <1>2, <2>1, <2>2, <2>3 DEF CloseInv, Ladder
<1> QED BY <1>2, <1>3, <1>4, <1>5

LEMMA ClimbKeeps ==
    ASSUME Assumptions, IInv, NEW t \in Task, Inside(t), pc[t] # "bond",
           NEW p \in {"open", "subscribe", "shake", "bond"}, Goto(t, p),
           UNCHANGED <<private, closing, closed, queue, op, goal, outcome>>,
           LinkTypes', LadderTypes',
           p # "bond" => goal[t] = "connect",
           key' = None, client' # None => client' \in up',
           p \in {"open", "bond"} => client' = None,
           hs' # "none" => p = "shake" /\ client' \in {offered', None}
    PROVE  IInv'
<1> USE DEF IInv
<1>0. LockIsMine(t) /\ \A u \in Task : Inside(u) => u = t
    BY Alone DEF QueueInv
<1>1. Busy(t)
    BY DEF Busy, Inside, Ladder
<1>2. queue' \in Seq(Task) /\ pc' \in [Task -> Place] /\ QueueInv' /\ NoneBehindClose'
    BY <1>0, <1>1, Moves DEF CloseInv, OnlyAt, Place, Ladder
<1>3. TypeOK'
    BY <1>2 DEF TypeOK, TaskTypes
<1>4. pc'[t] = p /\ \A u \in Task \ {t} : pc'[u] = pc[u] /\ ~Inside(u)
    BY <1>0 DEF TypeOK, Goto
<1>5. LinkInv'
    BY <1>0, <1>4 DEF LinkInv, Inside, Ladder
<1>6. CloseInv'
    <2>1. \A u \in Task : Busy(u)' <=> Busy(u)
        BY <1>1, <1>4 DEF Busy
    <2> QED BY <1>2, <1>4, <2>1 DEF CloseInv, Inside, Ladder
<1> QED BY <1>2, <1>3, <1>5, <1>6

LEMMA ProceedKeeps ==
    ASSUME Assumptions, IInv, NEW t \in Task, LockIsMine(t), Busy(t), pc[t] # "bond",
           NEW session, Proceed(t, session, LockHandedOn),
           UNCHANGED <<up, client, private, closing, closed>>,
           LinkTypes', LadderTypes',
           hs' = "none", key' # None => client \in {key', None}
    PROVE  IInv'
<1> USE DEF IInv
<1>0. \A u \in Task : Inside(u) => u = t
    BY Alone
<1>1. /\ OnlyAt(t)
      /\ op'[t] = "close" => op[t] = "close"
      /\ TaskTypes'
      /\ \/ \E p \in {"idle", "acting"} : Goto(t, p) /\ queue' = Tail(queue)
         \/ Goto(t, "lock") /\ queue' = Append(Tail(queue), t) /\ ~closing
    BY DEF Proceed, LockHandedOn, End, MayRun, OnlyAt, TypeOK, TaskTypes, Op
<1>2. queue' \in Seq(Task) /\ pc' \in [Task -> Place] /\ QueueInv' /\ NoneBehindClose'
    <2>1. ASSUME NEW p \in {"idle", "acting"}, Goto(t, p), queue' = Tail(queue)
          PROVE  queue' \in Seq(Task) /\ pc' \in [Task -> Place] /\ QueueInv' /\ NoneBehindClose'
        BY <1>1, <2>1, Leaves DEF CloseInv
    <2>2. CASE Goto(t, "lock") /\ queue' = Append(Tail(queue), t) /\ ~closing
        BY <1>1, <2>2, JoinsAgain
    <2> QED BY <1>1, <2>1, <2>2
<1>3. TypeOK'
    BY <1>1, <1>2 DEF TypeOK
<1>4. \A u \in Task : ~Inside(u)' /\ (u # t => pc'[u] = pc[u])
    BY <1>0, <1>1 DEF TypeOK, Goto, Inside, Ladder
<1>5. LinkInv'
    <2>1. private = None
        BY <1>0 DEF LinkInv, Inside
    <2> QED BY <1>4, <2>1 DEF LinkInv, Inside, Ladder
<1>6. CloseInv'
    <2>1. Busy(t)' => ~closing
        BY <1>1 DEF TypeOK, Goto, Busy
    <2>2. ASSUME NEW u \in Task, u # t PROVE Busy(u)' <=> Busy(u)
        BY <1>4, <2>2 DEF Busy
    <2>3. closed' => closing' /\ \A u \in Task : Busy(u)' => goal'[u] # "connect"
        BY <1>1, <2>1, <2>2 DEF CloseInv, OnlyAt
    <2>4. \A u \in Task : op'[u] = "close" => closing'
        BY <1>1 DEF CloseInv, OnlyAt
    <2>5. \A u \in Task : pc'[u] \notin Ladder
        BY <1>4 DEF Inside
    <2> QED BY <1>2, <2>3, <2>4, <2>5 DEF CloseInv, Ladder
<1> QED BY <1>2, <1>3, <1>5, <1>6

-----------------------------------------------------------------------------
\* The lock is reached.
LEMMA EnterKeeps ==
    ASSUME Assumptions, IInv, NEW t \in Task, Enter(t)
    PROVE  IInv'
<1>0. /\ LockIsMine(t) /\ Busy(t) /\ pc[t] = "lock"
      /\ UNCHANGED <<up, closing, closed, private, rung, char, offered, silent>>
    BY DEF Enter, Busy
<1>1. ASSUME Proceed(t, TRUE, LockHandedOn), UNCHANGED <<client, key, victim, hs, after>>
      PROVE  IInv'
    <2>1. hs = "none"
        BY <1>0, Alone DEF IInv, LinkInv, Inside, Ladder
    <2>2. LinkTypes' /\ LadderTypes'
        BY <1>0, <1>1 DEF IInv, TypeOK, LinkTypes, LadderTypes
    <2> QED BY <1>0, <1>1, <2>1, <2>2, ProceedKeeps DEF IInv, LinkInv
<1>2. ASSUME NEW next \in {"open", "bond", "leave"}, TearDown(t, next),
             next = "open" => goal[t] = "connect", UNCHANGED <<queue, op, goal, outcome>>
      PROVE  IInv'
    <2>1. LadderTypes'
        BY <1>0, <1>2 DEF IInv, TypeOK, LadderTypes, TearDown
    <2> QED BY <1>0, <1>2, <2>1, TearDownKeeps
<1> QED BY <1>1, <1>2 DEF Enter

\* The disconnect is over, and the next rung, the bond or the end follows.
LEMMA TornDownKeeps ==
    ASSUME Assumptions, IInv, NEW t \in Task, TornDown(t)
    PROVE  IInv'
<1> USE DEF IInv
<1>0. /\ Inside(t) /\ pc[t] = "teardown" /\ victim' = None /\ key = None /\ client = None
      /\ up' \subseteq Link /\ UNCHANGED <<client, key, closing, private>>
      /\ closed' \in BOOLEAN /\ (closed' => closed \/ (after = "leave" /\ op[t] = "close"))
      /\ after # "leave" => closed' = closed
    BY DEF TornDown, Closes, TypeOK, LinkTypes, LinkInv, Inside, Ladder
<1>1. ASSUME NEW result \in {"ok", "failed"}, Leave(t, result) PROVE IInv'
    BY <1>0, <1>1, LeaveKeeps
<1>2. ASSUME NEW p \in {"open", "bond"}, Goto(t, p), after \in {"open", "retry", "bond"},
             p = "open" => after # "bond",
             UNCHANGED <<queue, op, goal, outcome, hs, offered, silent, after>>,
             rung' \in {rung, 1}, char' \in {char, 1}
      PROVE  IInv'
    <2>1. LinkTypes'
        BY <1>0 DEF TypeOK, LinkTypes
    <2>2. LadderTypes'
        <3>1. 1 \in 1 .. Chars
            BY DEF Assumptions, CharsAssumption
        <3> QED BY <1>2, <3>1 DEF TypeOK, LadderTypes
    <2>3. hs' = "none"
        BY <1>0, <1>2, Alone DEF LinkInv, QueueInv, Inside, Ladder
    <2>4. p = "open" => goal[t] = "connect"
        BY <1>0, <1>2 DEF CloseInv
    <2> QED BY <1>0, <1>2, <2>1, <2>2, <2>3, <2>4, ClimbKeeps
<1>3. CASE after = "open" /\ FirstRung(t)
    BY <1>1, <1>2, <1>3 DEF FirstRung, ladderVars
<1>4. CASE after = "retry" /\ NextRung(t)
    BY <1>1, <1>2, <1>4 DEF NextRung
<1>5. CASE /\ after = "bond" /\ Goto(t, "bond")
           /\ UNCHANGED <<queue, op, goal, outcome, ladderVars>>
    BY <1>2, <1>5 DEF ladderVars
<1>6. CASE after = "leave" /\ Leave(t, IF op[t] = "close" THEN "ok" ELSE "failed")
    BY <1>1, <1>6
<1> QED BY <1>3, <1>4, <1>5, <1>6 DEF TornDown

\* A link is opened, or the rung fails before its first handshake or in a write.
LEMMA OpenedKeeps ==
    ASSUME Assumptions, IInv, NEW t \in Task, Opened(t)
    PROVE  IInv'
<1> USE DEF IInv
<1>1. PICK l \in Link \ up : up' = up \cup {l} /\ client' = l
    BY DEF Opened
<1>2. /\ pc[t] = "open" /\ Inside(t) /\ Goto(t, "subscribe") /\ key' = None
      /\ UNCHANGED <<key, closing, closed, queue, victim, private, ladderVars, op, goal, outcome>>
    BY DEF Opened, Inside, Ladder, LinkInv
<1>3. LinkTypes' /\ LadderTypes'
    BY <1>1, <1>2 DEF TypeOK, LinkTypes, LadderTypes, ladderVars
<1>4. hs' = "none"
    BY <1>2, Alone DEF LinkInv, QueueInv, Inside, Ladder, ladderVars
<1>5. goal[t] = "connect"
    BY <1>2 DEF CloseInv
<1> QED BY <1>1, <1>2, <1>3, <1>4, <1>5, ClimbKeeps DEF Ladder

LEMMA RungFailsKeeps ==
    ASSUME Assumptions, IInv, NEW t \in Task, pc[t] \in {"open", "subscribe", "shake"},
           NEW wentSilent \in BOOLEAN, RungFails(t, wentSilent),
           UNCHANGED <<up, closing, closed, private, char, offered>>
    PROVE  IInv'
<1>1. LadderTypes'
    BY DEF IInv, TypeOK, LadderTypes, RungFails, TearDown
<1>2. LockIsMine(t) /\ Busy(t) /\ goal[t] = "connect"
    BY DEF IInv, QueueInv, CloseInv, Inside, Busy, Ladder
<1> QED BY <1>1, <1>2, TearDownKeeps DEF RungFails

\* A characteristic is offered the handshake, or none is left.
LEMMA OfferKeeps ==
    ASSUME Assumptions, IInv, NEW t \in Task, pc[t] \in {"subscribe", "shake"},
           NEW c \in Nat \ {0}, Offer(t, c),
           UNCHANGED <<up, closing, closed, private>>
    PROVE  IInv'
<1> USE DEF IInv
<1>0. Inside(t) /\ goal[t] = "connect"
    BY DEF CloseInv, Inside, Ladder
<1>1. CASE /\ IsChar(c) /\ Writable /\ key' = None
           /\ char' = c /\ hs' = "writing" /\ offered' = client /\ Goto(t, "shake")
           /\ UNCHANGED <<client, victim, rung, silent, after, queue, op, goal, outcome>>
    <2>1. c \in 1 .. Chars
        BY <1>1 DEF IsChar, Assumptions, CharsAssumption
    <2>2. LinkTypes' /\ LadderTypes'
        BY <1>1, <2>1 DEF TypeOK, LinkTypes, LadderTypes
    <2> QED BY <1>0, <1>1, <2>2, ClimbKeeps DEF LinkInv
<1>2. CASE RungFails(t, TRUE) /\ UNCHANGED <<char, offered>>
    BY <1>2, RungFailsKeeps
<1> QED BY <1>1, <1>2 DEF Offer

LEMMA RungKeeps ==
    ASSUME Assumptions, IInv, NEW t \in Task,
           OpenFails(t) \/ Subscribed(t) \/ WriteFails(t) \/ NoHandshake(t)
    PROVE  IInv'
<1>0. LadderTypes
    BY DEF IInv, TypeOK
<1>1. CASE OpenFails(t) \/ WriteFails(t)
    BY <1>0, <1>1, RungFailsKeeps DEF OpenFails, WriteFails, LadderTypes
<1>2. CASE Subscribed(t)
    BY <1>0, <1>2, OfferKeeps DEF Subscribed, LadderTypes
<1>3. CASE NoHandshake(t)
    <2>1. char + 1 \in Nat \ {0}
        BY <1>0, <1>3 DEF LadderTypes, NoHandshake
    <2> QED BY <1>3, <2>1, OfferKeeps DEF NoHandshake
<1> QED BY <1>1, <1>2, <1>3

\* The handshake is written, and answered.
LEMMA HandshakeKeeps ==
    ASSUME Assumptions, IInv, (\E t \in Task : Written(t)) \/ Answered
    PROVE  IInv'
<1> USE DEF IInv
<1>0. /\ hs \in {"writing", "pending"} /\ hs' \in {"pending", "answered"}
      /\ UNCHANGED <<up, client, key, closing, closed, queue, victim, private,
                     rung, char, offered, silent, after, pc, op, goal, outcome>>
    BY DEF Written, Answered, taskVars
<1>1. TypeOK'
    BY <1>0 DEF TypeOK, LinkTypes, LadderTypes, TaskTypes
<1>2. QueueInv'
    BY <1>0 DEF QueueInv, Busy, Inside, LockIsMine
<1>3. LinkInv'
    BY <1>0 DEF LinkInv, Inside
<1>4. CloseInv'
    BY <1>0 DEF CloseInv, NoneBehindClose, Busy
<1> QED BY <1>1, <1>2, <1>3, <1>4

\* The session is there.
LEMMA ShakenKeeps ==
    ASSUME Assumptions, IInv, NEW t \in Task, Shaken(t)
    PROVE  IInv'
<1> USE DEF IInv
<1>0. /\ pc[t] = "shake" /\ hs = "answered" /\ key' = offered /\ FreshLadder
      /\ Proceed(t, Writable, LockHandedOn)
      /\ UNCHANGED <<up, client, closing, closed, victim, private>>
    BY DEF Shaken
<1>1. LockIsMine(t) /\ Busy(t)
    BY <1>0 DEF QueueInv, Inside, Busy, Ladder
<1>2. LinkTypes'
    BY <1>0 DEF TypeOK, LinkTypes, LadderTypes
<1>3. LadderTypes'
    <2>1. 1 \in 1 .. Chars
        BY DEF Assumptions, CharsAssumption
    <2> QED BY <1>0, <2>1 DEF FreshLadder, LadderTypes
<1> QED BY <1>0, <1>1, <1>2, <1>3, ProceedKeeps DEF LinkInv, FreshLadder

\* The action of a task ends or is given up.
LEMMA ActionKeeps ==
    ASSUME Assumptions, IInv, NEW t \in Task, pc[t] = "acting",
           NEW result \in {"ok", "failed", "dropped", "cancelled"}, End(t, result),
           UNCHANGED <<up, client, key, closing, closed, queue, victim, private, ladderVars>>
    PROVE  IInv'
<1> USE DEF IInv
<1>0. /\ Goto(t, "idle") /\ op' = op /\ goal' = [goal EXCEPT ![t] = "none"]
      /\ outcome' = [outcome EXCEPT ![t] = result]
    BY DEF End
<1>1. queue' \in Seq(Task) /\ pc' \in [Task -> Place] /\ QueueInv' /\ NoneBehindClose'
    <2>1. OnlyAt(t)
        BY <1>0 DEF TypeOK, TaskTypes, OnlyAt
    <2> QED BY <1>0, <2>1, Moves DEF CloseInv, Place, Ladder, Busy
<1>2. TypeOK'
    <2>1. TaskTypes'
        BY <1>0 DEF TypeOK, TaskTypes
    <2> QED BY <1>1, <2>1 DEF TypeOK, LinkTypes, LadderTypes, ladderVars
<1>3. LinkInv'
    BY <1>0 DEF TypeOK, LinkInv, Inside, Ladder, Goto, ladderVars
<1>4. CloseInv'
    BY <1>0, <1>1 DEF TypeOK, TaskTypes, CloseInv, Busy, Goto, ladderVars
<1> QED BY <1>1, <1>2, <1>3, <1>4

Results == {"ok", "failed", "cancelled"}

\* A repair ends, one way or another.
LEMMA RepairEndKeeps ==
    ASSUME Assumptions, IInv, NEW t \in Task, NEW results \in SUBSET Results,
           RepairEnds(t, results)
    PROVE  IInv'
<1>1. PICK result \in results : Leave(t, result)
    BY DEF RepairEnds
<1>2. /\ Inside(t) /\ client = None /\ private' = None /\ up' \subseteq Link
      /\ UNCHANGED <<client, key, closing, closed, victim>>
    BY DEF RepairEnds, Closes, Inside, IInv, LinkInv, TypeOK, LinkTypes
<1>3. result \in Results
    OBVIOUS
<1> QED BY <1>1, <1>2, <1>3, LeaveKeeps DEF IInv, TypeOK, LinkTypes, Results

\* A repair opens its own link.
LEMMA BondKeeps ==
    ASSUME Assumptions, IInv, NEW t \in Task, BondOpened(t)
    PROVE  IInv'
<1> USE DEF IInv
<1>0. pc[t] = "bond" /\ Inside(t) /\ client = None
    BY DEF BondOpened, Inside, LinkInv
<1>1. PICK l \in Link \ up : up' = up \cup {l} /\ private' = l
    BY DEF BondOpened
<1>2. UNCHANGED <<client, key, closing, closed, queue, victim, rung, char, hs, offered,
                  silent, after, pc, op, goal, outcome>>
    BY DEF BondOpened, ladderVars, taskVars
<1>3. TypeOK'
    BY <1>1, <1>2 DEF TypeOK, LinkTypes, LadderTypes, TaskTypes
<1>4. QueueInv'
    BY <1>2 DEF QueueInv, Busy, Inside, LockIsMine
<1>5. LinkInv'
    BY <1>0, <1>1, <1>2 DEF LinkInv, Inside
<1>6. CloseInv'
    BY <1>2 DEF CloseInv, NoneBehindClose, Busy
<1> QED BY <1>3, <1>4, <1>5, <1>6

\* A link is lost.
LEMMA DropKeeps ==
    ASSUME Assumptions, IInv, NEW l \in Link, Drop(l)
    PROVE  IInv'
<1> USE DEF IInv
<1>0. /\ up' = up \ {l} /\ l \in up
      /\ UNCHANGED <<closing, closed, queue, victim, private, rung, char, offered, silent,
                     after, pc, op, goal, outcome>>
    BY DEF Drop, taskVars
<1>1. \/ MayBeRepairs(l) /\ UNCHANGED <<client, key, hs>>
      \/ client' = None /\ key' = None /\ hs' = Cancelled
    BY DEF Drop, OnDisconnect
<1>2. hs' \in {hs, "cancelled"} /\ (hs = "none" => hs' = "none")
    BY <1>1 DEF Cancelled
<1>3. TypeOK'
    BY <1>0, <1>1, <1>2 DEF TypeOK, LinkTypes, LadderTypes, TaskTypes
<1>4. QueueInv'
    BY <1>0 DEF QueueInv, Busy, Inside, LockIsMine
<1>5. LinkInv'
    <2>1. MayBeRepairs(l) => client = None \/ client # l
        BY <1>0 DEF MayBeRepairs, LinkInv
    <2>2. client' # None => client' \in up'
        BY <1>0, <1>1, <2>1 DEF LinkInv
    <2> QED BY <1>0, <1>1, <1>2, <2>2 DEF LinkInv, Inside
<1>6. CloseInv'
    BY <1>0 DEF CloseInv, NoneBehindClose, Busy
<1> QED BY <1>3, <1>4, <1>5, <1>6

\* The task is cancelled, wherever it is.
LEMMA AbandonKeeps ==
    ASSUME Assumptions, IInv, NEW t \in Task, Abandon(t)
    PROVE  IInv'
<1> USE DEF IInv
<1>1. ASSUME NEW i \in 1 .. Len(queue), pc[t] = "lock", queue[i] = t, queue' = Without(queue, i),
             End(t, "cancelled"),
             UNCHANGED <<up, client, key, closing, closed, victim, private, ladderVars>>
      PROVE  IInv'
    <2>0. /\ Goto(t, "idle") /\ op' = op /\ goal' = [goal EXCEPT ![t] = "none"]
          /\ outcome' = [outcome EXCEPT ![t] = "cancelled"]
        BY <1>1 DEF End
    <2>1. queue' \in Seq(Task) /\ pc' \in [Task -> Place] /\ QueueInv' /\ NoneBehindClose'
        <3>1. OnlyAt(t)
            BY <2>0 DEF TypeOK, TaskTypes, OnlyAt
        <3> QED BY <1>1, <2>0, <3>1, GivesUp DEF CloseInv
    <2>2. TypeOK'
        <3>1. TaskTypes'
            BY <2>0 DEF TypeOK, TaskTypes
        <3> QED BY <1>1, <2>1, <3>1 DEF TypeOK, LinkTypes, LadderTypes, ladderVars
    <2>3. LinkInv'
        BY <1>1, <2>0 DEF TypeOK, LinkInv, Inside, Ladder, Goto, ladderVars
    <2>4. CloseInv'
        BY <1>1, <2>0, <2>1 DEF TypeOK, TaskTypes, CloseInv, Busy, Goto, ladderVars
    <2> QED BY <2>1, <2>2, <2>3, <2>4
<1>2. CASE /\ pc[t] \in {"open", "subscribe", "shake"} /\ Leave(t, "cancelled")
           /\ UNCHANGED <<up, client, key, closing, closed, victim, private>>
    BY <1>2, LeaveKeeps DEF Inside, Ladder, TypeOK, LinkTypes, LinkInv
<1>3. CASE /\ pc[t] = "teardown" /\ Closes(victim) /\ victim' = None /\ Leave(t, "cancelled")
           /\ UNCHANGED <<client, key, closing, closed, private>>
    <2>1. Inside(t) /\ client = None /\ up' \subseteq Link
        BY <1>3 DEF Inside, Ladder, LinkInv, Closes, TypeOK, LinkTypes
    <2> QED BY <1>3, <2>1, LeaveKeeps DEF TypeOK, LinkTypes
<1>4. CASE /\ pc[t] = "acting" /\ End(t, "cancelled")
           /\ UNCHANGED <<up, client, key, closing, closed, queue, victim, private, ladderVars>>
    BY <1>4, ActionKeeps
<1>5. CASE RepairEnds(t, {"cancelled"})
    BY <1>5, RepairEndKeeps DEF Results
<1> QED BY <1>1, <1>2, <1>3, <1>4, <1>5 DEF Abandon

-----------------------------------------------------------------------------
LEMMA StepInv == Assumptions /\ IInv /\ [Next]_vars => IInv'
<1> SUFFICES ASSUME Assumptions, IInv, [Next]_vars PROVE IInv'
    OBVIOUS
<1>1. ASSUME NEW t \in Task, Calls(t) PROVE IInv'
    BY <1>1, CallRunKeeps, AskKeeps DEF Calls
<1>2. ASSUME NEW t \in Task, Rung(t) PROVE IInv'
    <2>1. CASE ShakeCancelled(t)
        BY <2>1, LeaveKeeps DEF ShakeCancelled, Inside, Ladder, IInv, TypeOK, LinkTypes, LinkInv
    <2>2. CASE Written(t)
        BY <2>2, HandshakeKeeps
    <2> QED BY <1>2, <2>1, <2>2, OpenedKeeps, RungKeeps, ShakenKeeps DEF Rung
<1>3. ASSUME NEW t \in Task, ActionEnds(t) PROVE IInv'
    BY <1>3, ActionKeeps DEF ActionEnds
<1>4. ASSUME NEW t \in Task, TaskStep(t) PROVE IInv'
    BY <1>2, <1>3, <1>4, EnterKeeps, TornDownKeeps, AskKeeps, RepairEndKeeps
       DEF TaskStep, BondDone, Results
<1>5. ASSUME NEW t \in Task, BondOpened(t) \/ Abandon(t) PROVE IInv'
    BY <1>5, BondKeeps, AbandonKeeps
<1>6. CASE Answered \/ \E l \in Link : Drop(l)
    BY <1>6, HandshakeKeeps, DropKeeps
<1>7. CASE UNCHANGED vars
    BY <1>7 DEF vars, ladderVars, taskVars, IInv, TypeOK, LinkTypes, LadderTypes, TaskTypes,
       QueueInv, LinkInv, CloseInv, NoneBehindClose, Busy, Inside, LockIsMine
<1> QED BY <1>1, <1>4, <1>5, <1>6, <1>7 DEF Next

\* The inductive invariant holds in every reachable state.
THEOREM Invariant == Spec => []IInv
<1>1. Assumptions
    BY NoneAssumption, CharsAssumption, OpsAssumption DEF Assumptions
<1>2. Init => IInv
    BY <1>1, InitInv
<1>3. IInv /\ [Next]_vars => IInv'
    BY <1>1, StepInv
<1> QED BY <1>2, <1>3, PTL DEF Spec

\* Every variable keeps its type; the characteristic tried is one there is.
THEOREM TypeCorrect == Spec => []TypeOK
<1>1. IInv => TypeOK
    BY DEF IInv
<1> QED BY <1>1, Invariant, PTL

\* client.py:111, 236, 374: the connect lock lets one task at a time open,
\* close and re-bond links.
THEOREM LaddersExclude == Spec => []OneLadder
<1>1. IInv => OneLadder
    BY DEF IInv, QueueInv, OneLadder, LockIsMine, IsNext
<1> QED BY <1>1, Invariant, PTL

\* client.py:79-85: a client that calls itself connected has a key that was
\* negotiated on the link it writes to.
THEOREM SessionsMatch == Spec => []SessionOnItsLink
<1>1. IInv => SessionOnItsLink
    BY DEF IInv, LinkInv, SessionOnItsLink, connected
<1> QED BY <1>1, Invariant, PTL

\* The client implements BleSession: one session at a time, none exchanged
\* for another, none after the close.
LEMMA SessionState ==
    ASSUME IInv
    PROVE  connected <=> client # None /\ key # None
    BY DEF IInv, LinkInv, connected

\* The four things a step can do to client, key and closed.
LEMMA StepKinds ==
    ASSUME Assumptions, IInv, [Next]_vars
    PROVE  \/ UNCHANGED <<closed, client, key>>
           \/ closed' = closed /\ (client' = None \/ key' = None)
           \/ closed' = TRUE /\ client' = None
           \/ /\ ~closed /\ closed' = closed /\ key = None
              /\ client' = client
<1> USE DEF IInv
<1>1. ASSUME NEW t \in Task, Calls(t) PROVE UNCHANGED <<closed, client, key>>
    BY <1>1 DEF Calls, CallRun, CallClear, CallClose
<1>2. ASSUME NEW t \in Task, Abandon(t) PROVE UNCHANGED <<closed, client, key>>
    BY <1>2 DEF Abandon, RepairEnds
<1>3. ASSUME NEW t \in Task, BondOpened(t) \/ BondDone(t) \/ ActionEnds(t) \/ ActionBreaks(t)
      PROVE  UNCHANGED <<closed, client, key>>
    BY <1>3 DEF BondOpened, BondDone, RepairEnds, ActionEnds, ActionBreaks
<1>4. ASSUME NEW t \in Task, Enter(t)
      PROVE  UNCHANGED <<closed, client, key>> \/ (closed' = closed /\ client' = None)
    BY <1>4 DEF Enter, TearDown
<1>5. ASSUME NEW t \in Task, TornDown(t)
      PROVE  client' = None /\ closed' \in {closed, TRUE}
    <2>1. client = None /\ closed \in BOOLEAN
        BY <1>5 DEF TornDown, LinkInv, TypeOK, LinkTypes
    <2> QED BY <1>5, <2>1 DEF TornDown
<1>6. ASSUME NEW t \in Task, Shaken(t)
      PROVE  ~closed /\ closed' = closed /\ key = None /\ client' = client
    BY <1>6 DEF Shaken, LinkInv, CloseInv, Busy, Inside, Ladder
<1>7. ASSUME NEW t \in Task, Opened(t) PROVE closed' = closed /\ key' = None
    BY <1>7 DEF Opened, LinkInv, Inside, Ladder
<1>8. ASSUME NEW t \in Task, Rung(t), ~Shaken(t), ~Opened(t)
      PROVE  UNCHANGED <<closed, client, key>> \/ (closed' = closed /\ (client' = None \/ key' = None))
    BY <1>8 DEF Rung, OpenFails, Subscribed, Written, WriteFails, NoHandshake, ShakeCancelled,
       RungFails, Offer, TearDown
<1>9. CASE Answered \/ \E l \in Link : Drop(l)
    BY <1>9 DEF Answered, Drop, OnDisconnect
<1>10. CASE UNCHANGED vars
    BY <1>10 DEF vars
<1>11. ASSUME NEW t \in Task, TaskStep(t)
       PROVE  \/ UNCHANGED <<closed, client, key>>
              \/ closed' = closed /\ (client' = None \/ key' = None)
              \/ closed' = TRUE /\ client' = None
              \/ ~closed /\ closed' = closed /\ key = None /\ client' = client
    BY <1>3, <1>4, <1>5, <1>6, <1>7, <1>8, <1>11 DEF TaskStep
<1> QED BY <1>1, <1>2, <1>3, <1>9, <1>10, <1>11 DEF Next

THEOREM SessionsRefine == Spec => OneSession
<1>1. Init => Session!Init
    BY DEF Init, Session!Init, connected
<1>2. ASSUME Assumptions, IInv, IInv', [Next]_vars
      PROVE  [Session!Next]_<<IF connected THEN client ELSE None, closed>>
    <2> DEFINE S == IF connected THEN client ELSE None
    <2>1. /\ S = IF client # None /\ key # None THEN client ELSE None
          /\ S' = IF client' # None /\ key' # None THEN client' ELSE None
        BY <1>2, SessionState DEF IInv, LinkInv, connected
    <2>2. client \in Link \cup {None} /\ client' \in Link \cup {None}
        BY <1>2 DEF IInv, TypeOK, LinkTypes
    <2> HIDE DEF S
    <2>3. \/ S' = S /\ closed' = closed
          \/ S # None /\ S' = None /\ closed' = closed
          \/ closed' = TRUE /\ S' = None
          \/ S = None /\ ~closed /\ closed' = closed /\ S' \in Link
        BY <1>2, <2>1, <2>2, StepKinds
    <2> USE DEF S
    <2>4. CASE S' = S /\ closed' = closed
        BY <2>4
    <2>5. CASE S # None /\ S' = None /\ closed' = closed
        BY <2>5 DEF Session!Next, Session!Lose
    <2>6. CASE closed' = TRUE /\ S' = None
        BY <2>6 DEF Session!Next, Session!Shut
    <2>7. CASE S = None /\ ~closed /\ closed' = closed /\ S' \in Link
        BY <2>7 DEF Session!Next, Session!Open
    <2> QED BY <2>3, <2>4, <2>5, <2>6, <2>7
<1>3. Assumptions
    BY NoneAssumption, CharsAssumption, OpsAssumption DEF Assumptions
<1> QED BY <1>1, <1>2, <1>3, Invariant, PTL DEF Spec, OneSession, Session!Spec

-----------------------------------------------------------------------------
(* What a step may never do.                                                *)

\* A link is being disconnected only while its task is at the disconnect.
VictimInv == victim # None => \E t \in Task : pc[t] = "teardown"

\* Who is past the lock, or has just got it, is alone there.
LEMMA NoVictim ==
    ASSUME IInv, VictimInv, NEW t \in Task, pc[t] # "teardown",
           Inside(t) \/ LockIsMine(t)
    PROVE  victim = None
<1>1. LockIsMine(t)
    BY DEF IInv, QueueInv
<1>2. \A u \in Task : Inside(u) => u = t
    BY <1>1, Alone DEF IInv
<1> QED BY <1>2 DEF VictimInv, Inside, Ladder

\* No step but a disconnect, a drop or a failed rung changes the victim.
LEMMA VictimStep ==
    ASSUME Assumptions, IInv, VictimInv, [Next]_vars
    PROVE  VictimInv'
<1>t. pc \in [Task -> Place]
    BY DEF IInv, TypeOK
<1>1. ASSUME NEW t \in Task, TearDown(t, after')
      PROVE  VictimInv'
    BY <1>1, <1>t DEF TearDown, Goto, VictimInv
<1>2. ASSUME victim' = None
      PROVE  VictimInv'
    BY <1>2 DEF VictimInv
<1>3. ASSUME NEW t \in Task, pc[t] # "teardown", victim' = victim,
             \A u \in Task \ {t} : pc'[u] = pc[u]
      PROVE  VictimInv'
    BY <1>3 DEF VictimInv
<1>4. ASSUME NEW t \in Task, Calls(t) PROVE VictimInv'
    BY <1>4, <1>t, <1>3 DEF Calls, CallRun, CallClear, CallClose, Want, Goto
<1>5. ASSUME NEW t \in Task, Enter(t) PROVE VictimInv'
    <2>1. CASE \E next \in {"open", "leave", "bond"} : TearDown(t, next)
        BY <2>1, <1>1 DEF TearDown
    <2>2. CASE Proceed(t, TRUE, LockHandedOn) /\ victim' = victim
        BY <2>2, <1>3, <1>5, <1>t DEF Proceed, End, Goto, Enter
    <2> QED BY <1>5, <2>1, <2>2 DEF Enter
<1>6. ASSUME NEW t \in Task, TornDown(t) PROVE VictimInv'
    BY <1>6, <1>2 DEF TornDown
<1>7. ASSUME NEW t \in Task, Rung(t) PROVE VictimInv'
    <2>1. ASSUME NEW silence, RungFails(t, silence) PROVE VictimInv'
        BY <2>1, <1>1 DEF RungFails, TearDown
    <2>2. ASSUME NEW c, Offer(t, c), pc[t] # "teardown" PROVE VictimInv'
        <3>1. CASE RungFails(t, TRUE)
            BY <3>1, <2>1
        <3>2. CASE Goto(t, "shake") /\ victim' = victim
            BY <3>2, <2>2, <1>3, <1>t DEF Goto
        <3> QED BY <2>2, <3>1, <3>2 DEF Offer
    <2>3. CASE OpenFails(t) \/ WriteFails(t)
        BY <2>1, <2>3 DEF OpenFails, WriteFails
    <2>4. CASE Subscribed(t) \/ NoHandshake(t)
        BY <2>2, <2>4 DEF Subscribed, NoHandshake
    <2>5. CASE Opened(t)
        BY <2>5, <1>3, <1>t DEF Opened, Goto
    <2>6. CASE Written(t)
        BY <2>6 DEF Written, taskVars, VictimInv
    <2>7. CASE Shaken(t)
        BY <2>7, <1>3, <1>t DEF Shaken, Proceed, End, Goto
    <2>8. CASE ShakeCancelled(t)
        BY <2>8, <1>3, <1>t DEF ShakeCancelled, Leave, End, Goto
    <2> QED BY <1>7, <2>3, <2>4, <2>5, <2>6, <2>7, <2>8 DEF Rung
<1>8. ASSUME NEW t \in Task, ActionEnds(t) \/ ActionBreaks(t) PROVE VictimInv'
    BY <1>8, <1>3, <1>t DEF ActionEnds, ActionBreaks, End, Goto
<1>9. ASSUME NEW t \in Task, BondOpened(t) PROVE VictimInv'
    BY <1>9 DEF BondOpened, taskVars, VictimInv
<1>10. ASSUME NEW t \in Task, BondDone(t) PROVE VictimInv'
    BY <1>10, <1>3, <1>t DEF BondDone, RepairEnds, Leave, End, Goto
<1>11. ASSUME NEW t \in Task, Abandon(t) PROVE VictimInv'
    BY <1>11, <1>2, <1>3, <1>t DEF Abandon, RepairEnds, Leave, End, Goto
<1>12. CASE Answered \/ \E l \in Link : Drop(l)
    BY <1>12 DEF Answered, Drop, taskVars, VictimInv
<1>13. CASE UNCHANGED vars
    BY <1>13 DEF vars, taskVars, VictimInv
<1> QED BY <1>4, <1>5, <1>6, <1>7, <1>8, <1>9, <1>10, <1>11, <1>12, <1>13
           DEF Next, TaskStep

\* What a step can do to the links the client refers to.
SameLinks == UNCHANGED <<client, victim, private>>
TornDownLink == victim = None /\ victim' = client /\ private' = private
DisconnectedLink == /\ up' = up \ {victim} \/ victim \in Stubborn
                    /\ UNCHANGED <<client, private>>
OpenedLink == client = None /\ UNCHANGED <<victim, private>>
BondLink == private = None /\ UNCHANGED <<client, victim>>
RepairedLink == /\ up' = up \ {private} \/ private \in Stubborn
                /\ UNCHANGED <<client, victim>>
DroppedLink == /\ \E l \in up : Drop(l)
               /\ UNCHANGED <<victim, private>>

LEMMA LinkStep ==
    ASSUME Assumptions, IInv, VictimInv, [Next]_vars
    PROVE  \/ SameLinks \/ TornDownLink \/ DisconnectedLink
           \/ OpenedLink \/ BondLink \/ RepairedLink \/ DroppedLink
<1>1. ASSUME NEW t \in Task, Calls(t) PROVE SameLinks
    BY <1>1 DEF Calls, CallRun, CallClear, CallClose, SameLinks
<1>2. ASSUME NEW t \in Task, Enter(t) PROVE SameLinks \/ TornDownLink
    <2>1. victim = None /\ private' = private
        BY <1>2, NoVictim DEF Enter
    <2> QED BY <1>2, <2>1 DEF Enter, TearDown, LinkToClose, SameLinks, TornDownLink
<1>3. ASSUME NEW t \in Task, TornDown(t) PROVE DisconnectedLink
    BY <1>3 DEF TornDown, Closes, DisconnectedLink
<1>4. ASSUME NEW t \in Task, Rung(t) PROVE SameLinks \/ TornDownLink \/ OpenedLink
    <2>1. pc[t] \in {"open", "subscribe", "shake"}
        BY <1>4 DEF Rung, Opened, OpenFails, Subscribed, Written, WriteFails,
           NoHandshake, Shaken, ShakeCancelled
    <2>2. victim = None
        BY <2>1, NoVictim DEF Inside, Ladder
    <2>3. CASE Opened(t)
        BY <2>3 DEF Opened, OpenedLink, IInv, LinkInv
    <2>4. CASE OpenFails(t) \/ WriteFails(t)
        BY <2>2, <2>4 DEF OpenFails, WriteFails, RungFails, TearDown, LinkToClose,
           TornDownLink
    <2>5. CASE Subscribed(t) \/ NoHandshake(t)
        BY <2>2, <2>5 DEF Subscribed, NoHandshake, Offer, RungFails, TearDown,
           LinkToClose, SameLinks, TornDownLink
    <2>6. CASE Written(t) \/ Shaken(t) \/ ShakeCancelled(t)
        BY <2>6 DEF Written, Shaken, ShakeCancelled, SameLinks
    <2> QED BY <1>4, <2>3, <2>4, <2>5, <2>6 DEF Rung
<1>5. ASSUME NEW t \in Task, ActionEnds(t) \/ ActionBreaks(t) PROVE SameLinks
    BY <1>5 DEF ActionEnds, ActionBreaks, SameLinks
<1>6. ASSUME NEW t \in Task, BondOpened(t) \/ BondDone(t) PROVE BondLink \/ RepairedLink
    BY <1>6 DEF BondOpened, BondDone, RepairEnds, Closes, PrivateLink, BondLink, RepairedLink
<1>7. ASSUME NEW t \in Task, Abandon(t) PROVE SameLinks \/ DisconnectedLink \/ RepairedLink
    BY <1>7 DEF Abandon, RepairEnds, Closes, PrivateLink, SameLinks, DisconnectedLink,
       RepairedLink
<1>8. ASSUME NEW l \in Link, Drop(l) PROVE DroppedLink
    BY <1>8 DEF Drop, DroppedLink
<1>9. CASE Answered \/ UNCHANGED vars
    BY <1>9 DEF Answered, vars, SameLinks
<1> QED BY <1>1, <1>2, <1>3, <1>4, <1>5, <1>6, <1>7, <1>8, <1>9 DEF Next, TaskStep

\* client.py:278-280, 348-364, 383-399: no failed rung, cancelled connect, close or
\* repair forgets a link that stays connected, unless its own disconnect had no
\* effect; the link in use is forgotten when another one drops.
THEOREM LinksRemembered == Spec => NoLinkForgotten
<1>1. Assumptions
    BY NoneAssumption, CharsAssumption, OpsAssumption DEF Assumptions
<1>2. Init => VictimInv
    BY DEF Init, VictimInv
<1>3. IInv /\ VictimInv /\ [Next]_vars => VictimInv'
    BY <1>1, VictimStep
<1>4. ASSUME IInv, VictimInv, [Next]_vars, NEW l \in Link,
             l \in up \cap Remembered, l \in up' \ Remembered'
      PROVE  \/ l \in {victim, private} \cap Stubborn
             \/ l = client /\ \E k \in up \ {l} : Drop(k)
    <2>1. l # None
        BY NoneAssumption
    <2>2. l \in {client, victim, private} /\ l \notin {client', victim', private'}
          /\ l \in up /\ l \in up'
        BY <1>4 DEF Remembered
    <2>3. CASE SameLinks \/ TornDownLink \/ OpenedLink \/ BondLink
        BY <2>1, <2>2, <2>3 DEF SameLinks, TornDownLink, OpenedLink, BondLink
    <2>4. CASE DisconnectedLink
        BY <2>1, <2>2, <2>4 DEF DisconnectedLink
    <2>5. CASE RepairedLink
        BY <2>1, <2>2, <2>5 DEF RepairedLink
    <2>6. CASE DroppedLink
        <3>1. PICK k \in up : Drop(k)
            BY <2>6 DEF DroppedLink
        <3>2. l = client
            BY <2>2, <2>6 DEF DroppedLink
        <3>3. k # l
            BY <2>2, <3>1 DEF Drop
        <3> QED BY <3>1, <3>2, <3>3
    <2> QED BY <1>1, <1>4, <2>3, <2>4, <2>5, <2>6, LinkStep
<1>5. IInv /\ VictimInv /\ [Next]_vars =>
        [\A l \in Link : l \in up \cap Remembered /\ l \in up' \ Remembered' =>
              \/ l \in {victim, private} \cap Stubborn
              \/ l = client /\ \E k \in up \ {l} : Drop(k)]_vars
    BY <1>4
<1> QED BY <1>2, <1>3, <1>5, Invariant, PTL DEF Spec, NoLinkForgotten

\* client.py:111-114: while there is a session only a lost link or a task that
\* asked for the disconnect ends it.
THEOREM LiveSessionsKept == Spec => LiveSessionKept
<1>1. Assumptions
    BY NoneAssumption, CharsAssumption, OpsAssumption DEF Assumptions
<1> DEFINE AskedFor == \E t \in Task : pc[t] = "lock" /\ pc'[t] = "teardown"
                                       /\ goal[t] \in {"disconnect", "clear"}
<1>2. ASSUME IInv, [Next]_vars, connected, ~connected', up' = up
      PROVE  AskedFor
    <2>1. key # None /\ pc \in [Task -> Place] /\ \A t \in Task : ~Inside(t)
        BY <1>2 DEF connected, IInv, TypeOK, LinkInv
    <2>2. ~ UNCHANGED <<client, key>>
        BY <1>2 DEF connected
    <2>3. ASSUME NEW t \in Task, Enter(t) PROVE AskedFor
        <3>1. CASE goal[t] \in {"disconnect", "clear"}
            BY <2>1, <2>2, <2>3, <3>1 DEF Enter, TearDown, Goto
        <3>2. CASE goal[t] = "connect"
            BY <1>2, <2>2, <2>3, <3>2 DEF Enter, LooksAgain
        <3> QED BY <2>3, <3>1, <3>2 DEF Enter
    <2>4. ASSUME NEW t \in Task, TornDown(t) \/ Rung(t) \/ BondOpened(t) \/ BondDone(t)
          PROVE  FALSE
        BY <2>1, <2>4 DEF Inside, Ladder, TornDown, Rung, Opened, OpenFails, Subscribed,
           Written, WriteFails, NoHandshake, Shaken, ShakeCancelled, BondOpened, BondDone, RepairEnds
    <2>5. ASSUME NEW t \in Task, Calls(t) \/ ActionEnds(t) \/ ActionBreaks(t) \/ Abandon(t)
          PROVE  FALSE
        BY <2>2, <2>5 DEF Calls, CallRun, CallClear, CallClose, ActionEnds, ActionBreaks,
           Abandon, RepairEnds
    <2>6. ASSUME NEW l \in Link, Drop(l) PROVE FALSE
        BY <1>2, <2>6 DEF Drop
    <2>7. CASE Answered \/ UNCHANGED vars
        BY <2>2, <2>7 DEF Answered, vars
    <2> QED BY <1>2, <2>3, <2>4, <2>5, <2>6, <2>7 DEF Next, TaskStep
<1>3. IInv /\ [Next]_vars => [connected /\ ~connected' => \/ up' # up \/ AskedFor]_vars
    BY <1>2
<1> QED BY <1>3, Invariant, PTL DEF Spec, LiveSessionKept

-----------------------------------------------------------------------------
(* Every call comes nearer to its end.                                      *)

\* Between a call of the client and its end.
InCall(t) == pc[t] # "idle"
OthersStay(t) ==
    \A u \in Task \ {t} : pc'[u] = pc[u] /\ op'[u] = op[u] /\ goal'[u] = goal[u]
OwnerIsCloser == \A u \in Task : Busy(u) /\ InCall(u)' => Nearer(u)
NotFurther == \A u \in Task : InCall(u) /\ InCall(u)' => Nearer(u) \/ UNCHANGED Left(u)

\* A task that is left alone is as far from its end, but for the lock.
LEMMA SameRound ==
    ASSUME NEW t \in Task, OthersStay(t), NEW u \in Task, u # t
    PROVE  Round(u)' = Round(u) /\ Busy(u)' = Busy(u) /\ InCall(u)' = InCall(u)
    BY DEF OthersStay, Round, Busy, InCall

\* The owner of the lock takes a step on the ladder.
LEMMA Climbs ==
    ASSUME NEW t \in Task, OthersStay(t), queue' = queue,
           Round(t)' = Round(t), HeadSteps' < HeadSteps
    PROVE  OwnerIsCloser
<1>1. ASSUME NEW u \in Task, Busy(u) PROVE Nearer(u)
    <2>1. Round(u)' = Round(u)
        BY SameRound
    <2> QED BY <1>1, <2>1 DEF Nearer
<1> QED BY <1>1 DEF OwnerIsCloser

\* The owner of the lock hands it on, and runs its action or is at its end.
LEMMA HandsOn ==
    ASSUME TypeOK, QueueInv, NEW t \in Task, LockIsMine(t), OthersStay(t), queue' = Tail(queue),
           InCall(t)' => Round(t)' < Round(t)
    PROVE  OwnerIsCloser
<1>1. queue \in Seq(Task) /\ Distinct(queue) /\ IsNext(queue, t)
    BY DEF TypeOK, QueueInv, LockIsMine
<1>2. ASSUME NEW u \in Task, Busy(u), u # t PROVE Nearer(u)
    <2>1. u \in Members(queue)
        BY <1>2 DEF QueueInv
    <2>2. Position(queue, u) - 1 = Position(queue', u) /\ Position(queue, u) \in Nat
        BY <1>1, <1>2, <2>1, HandOnPosition
    <2>3. Round(u)' = Round(u)
        BY <1>2, SameRound
    <2> QED BY <1>2, <2>2, <2>3 DEF Nearer
<1> QED BY <1>2 DEF OwnerIsCloser, Nearer

\* It wants the lock again, from the end of the queue.
LEMMA WaitsAgain ==
    ASSUME TypeOK, QueueInv, NEW t \in Task, LockIsMine(t), Busy(t), OthersStay(t),
           queue' = Append(Tail(queue), t), Round(t)' < Round(t)
    PROVE  OwnerIsCloser
<1>q. PICK q : q = Tail(queue)
    OBVIOUS
<1>1. queue \in Seq(Task) /\ Distinct(queue) /\ IsNext(queue, t) /\ queue' = Append(q, t)
    BY <1>q DEF TypeOK, QueueInv, LockIsMine
<1>2. q \in Seq(Task) /\ Distinct(q) /\ Members(q) = Members(queue) \ {t}
    BY <1>q, <1>1, HandOn
<1>3. ASSUME NEW u \in Task, Busy(u), u # t PROVE Nearer(u)
    <2>1. u \in Members(queue) /\ u \in Members(q)
        BY <1>2, <1>3 DEF QueueInv
    <2>2. Position(queue, u) - 1 = Position(q, u) /\ Position(queue, u) \in Nat
        BY <1>q, <1>1, <1>3, <2>1, HandOnPosition
    <2>3. Position(queue', u) = Position(q, u)
        <3>1. Position(Append(q, t), u) = Position(q, u)
            BY <1>2, <2>1, JoinPosition
        <3> QED BY <1>1, <3>1
    <2>4. Round(u)' = Round(u)
        BY <1>3, SameRound
    <2> QED BY <1>3, <2>2, <2>3, <2>4 DEF Nearer
<1> QED BY <1>3 DEF OwnerIsCloser, Nearer

\* While the head stays the head it has as many steps left, if the ladder is
\* left alone.
LEMMA SameHead ==
    ASSUME NEW t \in Task, OthersStay(t), UNCHANGED ladderVars,
           queue'[1] = queue[1], queue[1] \in Task, queue[1] # t
    PROVE  HeadSteps' = HeadSteps
    BY DEF OthersStay, HeadSteps, OwnerSteps, ladderVars, HandshakeSteps, RungSteps

\* A task joins the queue.
LEMMA JoinsTheLine ==
    ASSUME TypeOK, QueueInv, NEW t \in Task, ~Busy(t), OthersStay(t), UNCHANGED ladderVars,
           queue' = Append(queue, t), InCall(t) => Round(t)' < Round(t)
    PROVE  NotFurther
<1>1. queue \in Seq(Task) /\ Distinct(queue) /\ t \notin Members(queue)
    BY DEF TypeOK, QueueInv
<1>2. ASSUME NEW u \in Task, u # t, InCall(u) PROVE UNCHANGED Left(u)
    <2>1. Round(u)' = Round(u) /\ Busy(u)' = Busy(u)
        BY <1>2, SameRound
    <2>2. ASSUME Busy(u)
          PROVE  Position(queue', u) = Position(queue, u) /\ HeadSteps' = HeadSteps
        <3>1. u \in Members(queue)
            BY <2>2 DEF QueueInv
        <3>2. Position(queue', u) = Position(queue, u)
            BY <1>1, <3>1, JoinPosition
        <3>3. queue'[1] = queue[1] /\ queue[1] \in Task /\ queue[1] # t
            <4>1. 1 \in 1 .. Len(queue)
                BY <1>1, <3>1 DEF Members
            <4> QED BY <1>1, <4>1 DEF Members
        <3> QED BY <3>2, <3>3, SameHead
    <2> QED BY <2>1, <2>2 DEF Left
<1>3. InCall(t) => Nearer(t)
    BY DEF Nearer
<1> QED BY <1>2, <1>3 DEF NotFurther

\* A task that waits gives up.
LEMMA LeavesTheLine ==
    ASSUME TypeOK, QueueInv, NEW t \in Task, OthersStay(t), UNCHANGED ladderVars,
           NEW i \in 1 .. Len(queue), queue[i] = t, queue' = Without(queue, i),
           ~InCall(t)'
    PROVE  NotFurther
<1>0. queue \in Seq(Task) /\ Distinct(queue)
    BY DEF TypeOK, QueueInv
<1>1. ASSUME NEW u \in Task, u # t, InCall(u) PROVE Nearer(u) \/ UNCHANGED Left(u)
    <2>1. Round(u)' = Round(u) /\ Busy(u)' = Busy(u)
        BY <1>1, SameRound
    <2>2. CASE ~Busy(u)
        BY <2>1, <2>2 DEF Left
    <2>3. CASE Busy(u)
        <3>1. u \in Members(queue)
            BY <2>3 DEF QueueInv
        <3>2. /\ Position(queue, u) \in Nat
              /\ Position(queue', u) = IF i < Position(queue, u) THEN Position(queue, u) - 1
                                       ELSE Position(queue, u)
            BY <1>0, <1>1, <3>1, GiveUpPosition
        <3>3. CASE i < Position(queue, u)
            BY <2>1, <2>3, <3>2, <3>3 DEF Nearer
        <3>4. CASE ~(i < Position(queue, u))
            <4>1. Position(queue, u) \in 1 .. Len(queue) /\ queue[Position(queue, u)] = u
                BY <1>0, <3>1, PositionOfMember
            <4>2. 1 < i /\ 1 \in 1 .. Len(queue) - 1 /\ 1 \in 1 .. Len(queue)
                BY <1>0, <1>1, <3>4, <4>1
            <4>3. queue'[1] = queue[1]
                BY <4>2 DEF Without
            <4>4. queue[1] # t /\ queue[1] \in Task
                BY <1>0, <4>2 DEF Distinct
            <4>5. HeadSteps' = HeadSteps
                BY <4>3, <4>4, SameHead
            <4> QED BY <2>1, <2>3, <3>2, <3>4, <4>5 DEF Left
        <3> QED BY <3>3, <3>4
    <2> QED BY <2>2, <2>3
<1> QED BY <1>1 DEF NotFurther

-----------------------------------------------------------------------------
(* The steps of the owner of the lock.                                      *)

\* Types the steps need.
LEMMA NearTypes ==
    ASSUME IInv
    PROVE  /\ TypeOK /\ QueueInv /\ queue \in Seq(Task)
           /\ pc \in [Task -> Place] /\ op \in [Task -> Op]
           /\ goal \in [Task -> {"none", "connect", "disconnect", "clear"}]
    BY DEF IInv, TypeOK, TaskTypes

\* The block is left for good.
LEMMA LeaveIsCloser ==
    ASSUME IInv, NEW t \in Task, LockIsMine(t), NEW result, Leave(t, result)
    PROVE  OthersStay(t) /\ OwnerIsCloser
<1>1. /\ TypeOK /\ QueueInv /\ pc \in [Task -> Place]
      /\ goal \in [Task -> {"none", "connect", "disconnect", "clear"}]
    BY NearTypes
<1>2. OthersStay(t) /\ queue' = Tail(queue) /\ ~InCall(t)'
    BY <1>1 DEF Leave, End, Goto, OthersStay, LockHandedOn, InCall
<1> QED BY <1>1, <1>2, HandsOn

\* async_connect has returned.
LEMMA ProceedIsCloser ==
    ASSUME IInv, NEW t \in Task, LockIsMine(t), Busy(t), goal[t] = "connect",
           NEW session, Proceed(t, session, LockHandedOn)
    PROVE  OthersStay(t) /\ OwnerIsCloser
<1>1. /\ TypeOK /\ QueueInv /\ pc \in [Task -> Place] /\ op \in [Task -> Op]
      /\ goal \in [Task -> {"none", "connect", "disconnect", "clear"}]
    BY NearTypes
<1>2. Round(t) = IF op[t] = "poll" THEN 4 ELSE 3
    BY DEF Round, Busy
<1>3. CASE Goto(t, "acting") /\ queue' = LockHandedOn /\ UNCHANGED <<op, goal, outcome>>
    <2>1. OthersStay(t) /\ queue' = Tail(queue) /\ pc'[t] = "acting"
        BY <1>1, <1>3 DEF Goto, OthersStay, LockHandedOn
    <2>2. Round(t)' = 2
        BY <2>1 DEF Round, Busy
    <2> QED BY <1>1, <1>2, <2>1, <2>2, HandsOn
<1>4. CASE End(t, "refused") /\ queue' = LockHandedOn
    <2>1. OthersStay(t) /\ queue' = Tail(queue) /\ ~InCall(t)'
        BY <1>1, <1>4 DEF End, Goto, OthersStay, LockHandedOn, InCall
    <2> QED BY <1>1, <2>1, HandsOn
<1>5. CASE /\ op[t] = "poll"
           /\ Goto(t, "lock") /\ queue' = Append(LockHandedOn, t)
           /\ op' = [op EXCEPT ![t] = "run"]
           /\ goal' = [goal EXCEPT ![t] = "connect"]
    <2>1. /\ OthersStay(t) /\ queue' = Append(Tail(queue), t)
          /\ pc'[t] = "lock" /\ op'[t] = "run" /\ goal'[t] = "connect"
        BY <1>1, <1>5 DEF Goto, OthersStay, LockHandedOn
    <2>2. Round(t)' = 3
        BY <2>1 DEF Round, Busy
    <2> QED BY <1>1, <1>2, <1>5, <2>1, <2>2, WaitsAgain
<1> QED BY <1>3, <1>4, <1>5 DEF Proceed

\* A step that stays on the ladder.
LEMMA LadderIsCloser ==
    ASSUME Assumptions, IInv, NEW t \in Task, LockIsMine(t), Busy(t), NEW p \in Ladder \cup {"bond"},
           Goto(t, p), UNCHANGED <<queue, op, goal>>, OwnerSteps(t)' < OwnerSteps(t)
    PROVE  OthersStay(t) /\ OwnerIsCloser
<1>1. pc \in [Task -> Place] /\ queue[1] = t
    BY NearTypes DEF LockIsMine, IsNext
<1>2. OthersStay(t) /\ pc'[t] = p /\ p \notin {"idle", "acting"}
    BY <1>1 DEF Goto, OthersStay, Ladder
<1>3. Round(t)' = Round(t)
    BY <1>2 DEF Round, Busy
<1>4. HeadSteps' < HeadSteps
    BY <1>1 DEF HeadSteps
<1> QED BY <1>2, <1>3, <1>4, Climbs

\* What the steps of the ladder leave of the number of steps.
LEMMA StepsLeft ==
    ASSUME Assumptions, IInv, NEW t
    PROVE  /\ RungSteps \in Nat /\ Chars \in Nat /\ char \in 1 .. Chars
           /\ rung \in {0, 1}
           /\ HandshakeSteps \in 0 .. 3
           /\ RungSteps = 3 * Chars + 3
           /\ pc[t] = "lock" => OwnerSteps(t) = 2 * RungSteps + 2
           /\ pc[t] = "teardown" /\ after # "retry" => OwnerSteps(t) = 2 * RungSteps + 1
           /\ pc[t] = "open" => OwnerSteps(t) = (IF rung = 0 THEN RungSteps ELSE 0) + RungSteps
           /\ pc[t] = "subscribe" =>
                 OwnerSteps(t) = (IF rung = 0 THEN RungSteps ELSE 0) + RungSteps - 1
           /\ pc[t] = "shake" =>
                 OwnerSteps(t) = (IF rung = 0 THEN RungSteps ELSE 0)
                                    + 3 * (Chars - char) + HandshakeSteps + 1
           /\ pc[t] = "teardown" /\ after = "retry" =>
                 OwnerSteps(t) = (IF rung = 0 THEN RungSteps ELSE 0) + 1
           /\ pc[t] = "bond" => OwnerSteps(t) = 1
<1>1. Chars \in Nat /\ char \in 1 .. Chars /\ rung \in {0, 1}
      /\ hs \in {"none", "writing", "pending", "answered", "cancelled"}
    BY DEF Assumptions, CharsAssumption, IInv, TypeOK, LadderTypes
<1>2. HandshakeSteps \in 0 .. 3
    BY <1>1 DEF HandshakeSteps
<1> QED BY <1>1, <1>2 DEF RungSteps, OwnerSteps

LEMMA RungFailsIsCloser ==
    ASSUME Assumptions, IInv, NEW t \in Task, LockIsMine(t), UNCHANGED <<rung, queue, op, goal>>,
           \/ pc[t] \in {"open", "subscribe"}
           \/ pc[t] = "shake" /\ hs # "none",
           NEW w, RungFails(t, w)
    PROVE  OthersStay(t) /\ OwnerIsCloser
<1>1. Goto(t, "teardown") /\ after' = "retry" /\ pc'[t] = "teardown" /\ "teardown" \in Ladder
    BY NearTypes DEF RungFails, TearDown, Goto, Ladder
<1>2. OwnerSteps(t)' = (IF rung = 0 THEN RungSteps ELSE 0) + 1
    BY <1>1 DEF OwnerSteps, RungSteps
<1>3. pc[t] = "shake" => HandshakeSteps > 0
    BY DEF HandshakeSteps, IInv, TypeOK, LadderTypes
<1>4. OwnerSteps(t)' < OwnerSteps(t)
    BY <1>2, <1>3, StepsLeft
<1>5. Busy(t)
    BY DEF Busy
<1> QED BY <1>1, <1>4, <1>5, LadderIsCloser

LEMMA OfferIsCloser ==
    ASSUME Assumptions, IInv, NEW t \in Task, LockIsMine(t), NEW c \in Nat, Offer(t, c),
           \/ pc[t] = "subscribe" /\ c = 1
           \/ pc[t] = "shake" /\ hs # "none" /\ c = char + 1
    PROVE  OthersStay(t) /\ OwnerIsCloser
<1>1. CASE /\ IsChar(c) /\ char' = c /\ hs' = "writing" /\ Goto(t, "shake")
           /\ UNCHANGED <<rung, queue, op, goal>>
    <2>1. pc'[t] = "shake" /\ "shake" \in Ladder
        BY <1>1, NearTypes DEF Goto, Ladder
    <2>2. OwnerSteps(t)' = (IF rung = 0 THEN RungSteps ELSE 0) + 3 * (Chars - c) + 3 + 1
        BY <1>1, <2>1 DEF OwnerSteps, RungSteps, HandshakeSteps
    <2>3. pc[t] = "shake" => HandshakeSteps > 0
        BY DEF HandshakeSteps, IInv, TypeOK, LadderTypes
    <2>4. CASE pc[t] = "subscribe"
        BY <2>1, <2>2, <2>4, <1>1, StepsLeft, LadderIsCloser DEF Busy
    <2>5. CASE pc[t] = "shake"
        <3>1. OwnerSteps(t)' < OwnerSteps(t)
            BY <2>2, <2>3, <2>5, StepsLeft
        <3> QED BY <1>1, <2>1, <2>5, <3>1, LadderIsCloser DEF Busy
    <2> QED BY <2>4, <2>5
<1>2. CASE RungFails(t, TRUE)
    <2>1. UNCHANGED <<rung, queue, op, goal>>
        BY <1>2 DEF RungFails
    <2> QED BY <1>2, <2>1, RungFailsIsCloser
<1> QED BY <1>1, <1>2 DEF Offer

LEMMA EnterIsCloser ==
    ASSUME Assumptions, IInv, NEW t \in Task, Enter(t)
    PROVE  OthersStay(t) /\ OwnerIsCloser
<1>1. pc[t] = "lock" /\ LockIsMine(t) /\ Busy(t)
    BY DEF Enter, Busy
<1>2. CASE goal[t] = "connect" /\ Proceed(t, TRUE, LockHandedOn)
    BY <1>1, <1>2, ProceedIsCloser
<1>3. ASSUME NEW next \in {"open", "leave", "bond"}, TearDown(t, next),
             UNCHANGED <<queue, op, goal>>
      PROVE  OthersStay(t) /\ OwnerIsCloser
    <2>1. Goto(t, "teardown") /\ pc'[t] = "teardown" /\ after' # "retry" /\ "teardown" \in Ladder
        BY <1>3, NearTypes DEF TearDown, Goto, Ladder
    <2>2. OwnerSteps(t)' = 2 * RungSteps + 1
        BY <2>1 DEF OwnerSteps, RungSteps
    <2>3. OwnerSteps(t)' < OwnerSteps(t)
        BY <1>1, <2>2, StepsLeft
    <2> QED BY <1>1, <1>3, <2>1, <2>3, LadderIsCloser
<1> QED BY <1>2, <1>3 DEF Enter

LEMMA TornDownIsCloser ==
    ASSUME Assumptions, IInv, NEW t \in Task, TornDown(t)
    PROVE  OthersStay(t) /\ OwnerIsCloser
<1>1. pc[t] = "teardown" /\ LockIsMine(t) /\ Busy(t)
    BY NearTypes DEF TornDown, QueueInv, Inside, Ladder, Busy
<1>2. ASSUME NEW result, Leave(t, result) PROVE OthersStay(t) /\ OwnerIsCloser
    BY <1>1, <1>2, LeaveIsCloser
<1>3. CASE Goto(t, "open") /\ UNCHANGED <<queue, op, goal, ladderVars>> /\ after = "open"
    <2>1. pc'[t] = "open" /\ "open" \in Ladder /\ rung' = rung
        BY <1>3, NearTypes DEF Goto, Ladder, ladderVars
    <2>2. OwnerSteps(t)' = (IF rung = 0 THEN RungSteps ELSE 0) + RungSteps
        BY <2>1 DEF OwnerSteps, RungSteps
    <2>3. OwnerSteps(t)' < OwnerSteps(t)
        BY <1>1, <1>3, <2>2, StepsLeft
    <2> QED BY <1>1, <1>3, <2>1, <2>3, LadderIsCloser
<1>4. CASE /\ after = "retry" /\ rung = 0 /\ rung' = 1 /\ Goto(t, "open")
           /\ UNCHANGED <<queue, op, goal>>
    <2>1. pc'[t] = "open" /\ "open" \in Ladder
        BY <1>4, NearTypes DEF Goto, Ladder
    <2>2. OwnerSteps(t)' = 0 + RungSteps
        BY <1>4, <2>1 DEF OwnerSteps, RungSteps
    <2>3. OwnerSteps(t)' < OwnerSteps(t)
        BY <1>1, <1>4, <2>2, StepsLeft
    <2> QED BY <1>1, <1>4, <2>1, <2>3, LadderIsCloser
<1>5. CASE after = "bond" /\ Goto(t, "bond") /\ UNCHANGED <<queue, op, goal, ladderVars>>
    <2>1. pc'[t] = "bond"
        BY <1>5, NearTypes DEF Goto
    <2>2. OwnerSteps(t)' = 1
        BY <2>1 DEF OwnerSteps
    <2>3. OwnerSteps(t)' < OwnerSteps(t)
        BY <1>1, <1>5, <2>2, StepsLeft
    <2> QED BY <1>1, <1>5, <2>1, <2>3, LadderIsCloser
<1> QED BY <1>2, <1>3, <1>4, <1>5 DEF TornDown, FirstRung, NextRung

LEMMA RungIsCloser ==
    ASSUME Assumptions, IInv, NEW t \in Task, Rung(t)
    PROVE  OthersStay(t) /\ OwnerIsCloser
<1>1. LockIsMine(t) /\ Busy(t)
    BY NearTypes DEF Rung, Opened, OpenFails, Subscribed, Written, WriteFails, NoHandshake,
                     Shaken, ShakeCancelled, QueueInv, Inside, Ladder, Busy
<1>2. CASE Opened(t)
    <2>1. /\ pc[t] = "open" /\ Goto(t, "subscribe") /\ UNCHANGED <<queue, op, goal, rung>>
          /\ pc'[t] = "subscribe" /\ "subscribe" \in Ladder
        BY <1>2, NearTypes DEF Opened, Goto, Ladder, ladderVars
    <2>2. OwnerSteps(t)' = (IF rung = 0 THEN RungSteps ELSE 0) + RungSteps - 1
        BY <2>1 DEF OwnerSteps, RungSteps
    <2>3. OwnerSteps(t)' < OwnerSteps(t)
        BY <2>1, <2>2, StepsLeft
    <2> QED BY <1>1, <2>1, <2>3, LadderIsCloser
<1>3. CASE OpenFails(t) \/ WriteFails(t)
    <2>1. PICK w : RungFails(t, w)
        BY <1>3 DEF OpenFails, WriteFails
    <2>2. /\ \/ pc[t] \in {"open", "subscribe"}
             \/ pc[t] = "shake" /\ hs # "none"
          /\ UNCHANGED <<rung, queue, op, goal>>
        BY <1>3, <2>1 DEF OpenFails, WriteFails, RungFails
    <2> QED BY <1>1, <2>1, <2>2, RungFailsIsCloser
<1>4. CASE Subscribed(t)
    BY <1>1, <1>4, OfferIsCloser DEF Subscribed
<1>5. CASE NoHandshake(t)
    <2>1. char + 1 \in Nat
        BY StepsLeft
    <2> QED BY <1>1, <1>5, <2>1, OfferIsCloser DEF NoHandshake
<1>6. CASE Written(t)
    <2>1. /\ pc[t] = "shake" /\ pc' = pc /\ hs = "writing" /\ hs' = "pending"
          /\ UNCHANGED <<queue, op, goal, rung, char>>
        BY <1>6 DEF Written, taskVars
    <2>2. Goto(t, "shake") /\ "shake" \in Ladder /\ pc'[t] = "shake"
        BY <2>1, NearTypes DEF Goto, Ladder
    <2>3. OwnerSteps(t)' = (IF rung = 0 THEN RungSteps ELSE 0) + 3 * (Chars - char) + 2 + 1
        BY <2>1, <2>2 DEF OwnerSteps, RungSteps, HandshakeSteps
    <2>4. HandshakeSteps = 3
        BY <2>1 DEF HandshakeSteps
    <2>5. OwnerSteps(t)' < OwnerSteps(t)
        BY <2>1, <2>3, <2>4, StepsLeft
    <2> QED BY <1>1, <2>1, <2>2, <2>5, LadderIsCloser
<1>7. CASE Shaken(t)
    <2>1. goal[t] = "connect" /\ Proceed(t, Writable, LockHandedOn)
        BY <1>7 DEF Shaken, IInv, CloseInv
    <2> QED BY <1>1, <2>1, ProceedIsCloser
<1>8. CASE ShakeCancelled(t)
    BY <1>1, <1>8, LeaveIsCloser DEF ShakeCancelled
<1> QED BY <1>2, <1>3, <1>4, <1>5, <1>6, <1>7, <1>8 DEF Rung

\* Whatever step the owner of the lock takes, every call comes nearer to its end.
LEMMA OwnerStepIsCloser ==
    ASSUME Assumptions, IInv, NEW t \in Task, Busy(t), TaskStep(t)
    PROVE  OthersStay(t) /\ OwnerIsCloser
<1>1. CASE BondDone(t)
    <2>1. LockIsMine(t) /\ \E result \in {"ok", "failed"} : Leave(t, result)
        BY <1>1 DEF BondDone, RepairEnds, IInv, QueueInv, Inside
    <2> QED BY <2>1, LeaveIsCloser
<1> QED BY <1>1, EnterIsCloser, TornDownIsCloser, RungIsCloser
        DEF TaskStep, ActionEnds, ActionBreaks, Busy

-----------------------------------------------------------------------------
(* The other steps.                                                         *)

\* The owner's steps take no call further away either.
LEMMA CloserIsNotFurther ==
    ASSUME NEW t \in Task, Busy(t), OthersStay(t), OwnerIsCloser
    PROVE  NotFurther
<1>1. ASSUME NEW u \in Task, ~Busy(u) PROVE UNCHANGED Left(u)
    <2>1. u # t
        BY <1>1
    <2>2. Round(u)' = Round(u) /\ Busy(u)' = Busy(u)
        BY <2>1, SameRound
    <2> QED BY <1>1, <2>2 DEF Left
<1> QED BY <1>1 DEF OwnerIsCloser, NotFurther

\* A task that does not wait for the lock goes on or ends.
LEMMA AsideIsNotFurther ==
    ASSUME TypeOK, QueueInv, NEW t \in Task, ~Busy(t), OthersStay(t), UNCHANGED ladderVars,
           queue' = queue, ~InCall(t) \/ ~InCall(t)'
    PROVE  NotFurther
<1>1. ASSUME NEW u \in Task, u # t, InCall(u) PROVE UNCHANGED Left(u)
    <2>1. Round(u)' = Round(u) /\ Busy(u)' = Busy(u)
        BY <1>1, SameRound
    <2>2. Busy(u) => HeadSteps' = HeadSteps
        <3>1. ASSUME Busy(u) PROVE queue[1] \in Members(queue)
            BY <1>1, <3>1 DEF QueueInv, TypeOK, Members
        <3>2. Busy(u) => queue[1] \in Task /\ queue[1] # t
            BY <3>1 DEF QueueInv
        <3> QED BY <3>2, SameHead
    <2> QED BY <2>1, <2>2 DEF Left
<1> QED BY <1>1 DEF NotFurther

\* A call begins.
LEMMA CallsAreNotFurther ==
    ASSUME IInv, NEW t \in Task, Calls(t)
    PROVE  NotFurther
<1>1. pc[t] = "idle" /\ ~Busy(t) /\ ~InCall(t) /\ TypeOK /\ QueueInv
    BY NearTypes DEF Calls, CallRun, CallClear, CallClose, Busy, InCall
<1>2. OthersStay(t) /\ UNCHANGED ladderVars
    BY NearTypes DEF Calls, CallRun, CallClear, CallClose, Want, Goto, OthersStay
<1>3. CASE queue' = Append(queue, t)
    BY <1>1, <1>2, <1>3, JoinsTheLine
<1>4. CASE queue' = queue
    BY <1>1, <1>2, <1>4, AsideIsNotFurther
<1> QED BY <1>3, <1>4 DEF Calls, CallRun, CallClear, CallClose, Want

\* An action ends, or breaks and wants the lock for the disconnect.
LEMMA ActionIsNotFurther ==
    ASSUME IInv, NEW t \in Task, ActionEnds(t) \/ ActionBreaks(t)
    PROVE  NotFurther /\ (InCall(t)' => Nearer(t))
<1>1. pc[t] = "acting" /\ ~Busy(t) /\ Round(t) = 2 /\ TypeOK /\ QueueInv
    BY NearTypes DEF ActionEnds, ActionBreaks, Busy, Round
<1>2. OthersStay(t) /\ UNCHANGED ladderVars
    BY NearTypes DEF ActionEnds, ActionBreaks, End, Goto, OthersStay
<1>3. CASE ActionBreaks(t)
    <2>1. pc'[t] = "lock" /\ goal'[t] = "disconnect" /\ queue' = Append(queue, t)
        BY <1>3, NearTypes DEF ActionBreaks, Goto
    <2>2. Round(t)' = 1
        BY <2>1 DEF Round, Busy
    <2> QED BY <1>1, <1>2, <2>1, <2>2, JoinsTheLine DEF Nearer
<1>4. CASE ActionEnds(t)
    <2>1. ~InCall(t)' /\ queue' = queue
        BY <1>4, NearTypes DEF ActionEnds, End, Goto, InCall
    <2> QED BY <1>1, <1>2, <2>1, AsideIsNotFurther
<1> QED BY <1>3, <1>4

\* A task is cancelled.
LEMMA AbandonIsNotFurther ==
    ASSUME IInv, NEW t \in Task, Abandon(t)
    PROVE  NotFurther
<1>1. TypeOK /\ QueueInv
    BY NearTypes
<1>2. CASE pc[t] = "lock"
    <2>1. PICK i \in 1 .. Len(queue) : queue[i] = t /\ queue' = Without(queue, i)
        BY <1>2 DEF Abandon, RepairEnds
    <2>2. OthersStay(t) /\ UNCHANGED ladderVars /\ ~InCall(t)'
        BY <1>2, NearTypes DEF Abandon, RepairEnds, End, Goto, OthersStay, InCall
    <2> QED BY <1>1, <2>1, <2>2, LeavesTheLine
<1>3. CASE pc[t] \in {"open", "subscribe", "shake", "teardown", "bond"}
    <2>1. Leave(t, "cancelled") /\ LockIsMine(t) /\ Busy(t)
        BY <1>1, <1>3 DEF Abandon, RepairEnds, QueueInv, Inside, Ladder, Busy
    <2> QED BY <2>1, LeaveIsCloser, CloserIsNotFurther
<1>4. CASE pc[t] = "acting"
    <2>1. OthersStay(t) /\ ~InCall(t)' /\ queue' = queue /\ UNCHANGED ladderVars /\ ~Busy(t)
        BY <1>4, NearTypes DEF Abandon, RepairEnds, End, Goto, OthersStay, InCall, Busy
    <2> QED BY <1>1, <2>1, AsideIsNotFurther
<1> QED BY <1>2, <1>3, <1>4 DEF Abandon, RepairEnds

\* A link is lost, or the machine answers: no call moves, and a handshake that
\* waited is over.
LEMMA EnvironmentIsNotFurther ==
    ASSUME Assumptions, IInv, UNCHANGED <<queue, pc, op, goal, rung, char, after>>,
           hs' = hs \/ (hs \in {"writing", "pending"} /\ hs' \in {"answered", "cancelled"})
    PROVE  NotFurther
<1>1. ASSUME NEW u \in Task PROVE Round(u)' = Round(u) /\ Busy(u)' = Busy(u)
    BY DEF Round, Busy
<1>2. \/ HandshakeSteps' = HandshakeSteps
      \/ HandshakeSteps' = 1 /\ HandshakeSteps \in {2, 3}
    <2>1. hs' = hs => HandshakeSteps' = HandshakeSteps
        BY Zenon DEF HandshakeSteps
    <2>2. hs' \in {"answered", "cancelled"} => HandshakeSteps' = 1
        BY DEF HandshakeSteps
    <2>3. hs \in {"writing", "pending"} => HandshakeSteps \in {2, 3}
        BY DEF HandshakeSteps
    <2> QED BY <2>1, <2>2, <2>3
<1>3. ASSUME NEW u PROVE OwnerSteps(u)' = OwnerSteps(u) \/ OwnerSteps(u)' < OwnerSteps(u)
    <2>1. CASE HandshakeSteps' = HandshakeSteps
        BY <2>1 DEF OwnerSteps, RungSteps
    <2>2. CASE HandshakeSteps' = 1 /\ HandshakeSteps \in {2, 3} /\ pc[u] = "shake"
        <3>1. OwnerSteps(u)' = (IF rung = 0 THEN RungSteps ELSE 0) + 3 * (Chars - char) + 1 + 1
            BY <2>2 DEF OwnerSteps, RungSteps
        <3> QED BY <2>2, <3>1, StepsLeft
    <2>3. CASE pc[u] # "shake"
        BY <2>3 DEF OwnerSteps, RungSteps
    <2> QED BY <1>2, <2>1, <2>2, <2>3
<1>4. HeadSteps' = HeadSteps \/ HeadSteps' < HeadSteps
    BY <1>3 DEF HeadSteps
<1> QED BY <1>1, <1>4 DEF NotFurther, Nearer, Left

LEMMA NoStepIsFurther ==
    ASSUME Assumptions, IInv, [Next]_vars
    PROVE  NotFurther
<1>1. ASSUME NEW t \in Task, TaskStep(t) PROVE NotFurther
    <2>1. CASE Busy(t)
        BY <1>1, <2>1, OwnerStepIsCloser, CloserIsNotFurther
    <2>2. CASE ~Busy(t)
        <3>1. ActionEnds(t) \/ ActionBreaks(t)
            BY <1>1, <2>2, NearTypes DEF TaskStep, Enter, TornDown, Rung, Opened, OpenFails,
               Subscribed, Written, WriteFails, NoHandshake, Shaken, ShakeCancelled, BondDone, RepairEnds, Busy
        <3> QED BY <3>1, ActionIsNotFurther
    <2> QED BY <2>1, <2>2
<1>2. ASSUME NEW t \in Task, BondOpened(t) PROVE NotFurther
    BY <1>2, EnvironmentIsNotFurther DEF BondOpened, ladderVars, taskVars
<1>3. CASE Answered
    BY <1>3, EnvironmentIsNotFurther DEF Answered, taskVars
<1>4. ASSUME NEW l \in Link, Drop(l) PROVE NotFurther
    BY <1>4, EnvironmentIsNotFurther DEF Drop, OnDisconnect, Cancelled, taskVars
<1>5. CASE UNCHANGED vars
    BY <1>5, EnvironmentIsNotFurther DEF vars, ladderVars, taskVars
<1> QED
    BY <1>1, <1>2, <1>3, <1>4, <1>5, CallsAreNotFurther, AbandonIsNotFurther DEF Next

\* While a call needs the lock, the task at the head of its queue has a step to
\* take that needs nobody else: it may enter, or is on the ladder, and every await
\* there ends in one of its own steps.
THEOREM SomebodyGoesOn ==
    ASSUME IInv, NEW t \in Task, Busy(t)
    PROVE  \E u \in Task : LockIsMine(u) /\ (pc[u] = "lock" \/ Inside(u))
<1>1. t \in Members(queue) /\ queue \in Seq(Task)
    BY NearTypes DEF QueueInv
<1>2. queue[1] \in Task /\ LockIsMine(queue[1]) /\ queue[1] \in Members(queue)
    BY <1>1 DEF Members, LockIsMine, IsNext
<1>3. Busy(queue[1]) /\ pc[queue[1]] \in Place
    BY <1>2, NearTypes DEF QueueInv
<1> QED BY <1>2, <1>3 DEF Busy, Inside, Place

\* MelittaBleClient.async_connect and its callers: every step of the task that has
\* the connect lock brings every call nearer to its end, and no step takes one
\* further away.
THEOREM CallsComeNearer == Spec => ComesNearer
<1>1. Assumptions /\ IInv /\ [Next]_vars =>
        [\A t \in Task : pc[t] # "idle" /\ pc'[t] # "idle" =>
          /\ Nearer(t) \/ UNCHANGED Left(t)
          /\ TaskStep(t) \/ (Busy(t) /\ \E u \in Task : Busy(u) /\ TaskStep(u)) =>
                Nearer(t)]_vars
    <2> SUFFICES ASSUME Assumptions, IInv, [Next]_vars,
                        NEW t \in Task, pc[t] # "idle", pc'[t] # "idle"
                 PROVE  /\ Nearer(t) \/ UNCHANGED Left(t)
                        /\ TaskStep(t) \/ (Busy(t) /\ \E u \in Task : Busy(u) /\ TaskStep(u)) =>
                              Nearer(t)
        OBVIOUS
    <2>1. Nearer(t) \/ UNCHANGED Left(t)
        BY NoStepIsFurther DEF NotFurther, InCall
    <2>2. ASSUME NEW u \in Task, Busy(u), TaskStep(u), Busy(t) PROVE Nearer(t)
        BY <2>2, OwnerStepIsCloser DEF OwnerIsCloser, InCall
    <2>3. ASSUME TaskStep(t), ~Busy(t) PROVE Nearer(t)
        <3>1. ActionEnds(t) \/ ActionBreaks(t)
            BY <2>3, NearTypes DEF TaskStep, Enter, TornDown, Rung, Opened, OpenFails,
               Subscribed, Written, WriteFails, NoHandshake, Shaken, ShakeCancelled, BondDone, RepairEnds, Busy
        <3> QED BY <3>1, ActionIsNotFurther DEF InCall
    <2> QED BY <2>1, <2>2, <2>3
<1>2. Assumptions
    BY NoneAssumption, CharsAssumption, OpsAssumption DEF Assumptions
<1> QED BY <1>1, <1>2, Invariant, PTL DEF Spec, ComesNearer

-----------------------------------------------------------------------------
(* A closed client stays closed, but for what a repair does.                *)

\* t has begun what only a repair does, or is about to.
Repairs(t) == pc[t] = "bond" \/ (pc[t] = "teardown" /\ after = "bond")

\* A step of t that leaves the others alone, and what is to be seen of it.
LEMMA RepairStepOf ==
    ASSUME IInv, IInv', RepairInv, NEW t \in Task, OthersStay(t),
           Repairs(t)' => goal'[t] = "clear",
           goal'[t] = "clear" => "clear" \in Ops,
           Inside(t) \/ Inside(t)' \/ after' = after,
           closed' => client' = None
    PROVE  RepairInv'
<1>1. ASSUME NEW u \in Task, u # t, Repairs(u)' PROVE goal'[u] = "clear"
    <2>1. Inside(u) /\ Inside(u)'
        BY <1>1 DEF OthersStay, Inside, Ladder, Repairs
    <2>2. ~Inside(t) /\ ~Inside(t)'
        BY <1>1, <2>1 DEF IInv, QueueInv, LockIsMine, IsNext
    <2>3. Repairs(u)
        BY <1>1, <2>2 DEF OthersStay, Repairs
    <2> QED BY <1>1, <2>3 DEF OthersStay, RepairInv, Repairs
<1>2. \A u \in Task : goal'[u] = "clear" => "clear" \in Ops
    BY DEF OthersStay, RepairInv
<1>3. \A u \in Task : Repairs(u)' => goal'[u] = "clear"
    BY <1>1
<1> QED BY <1>2, <1>3 DEF RepairInv, Repairs

\* No step but a repair opens a link beside the ladder, and none reopens a closed one.
LEMMA RepairStep ==
    ASSUME Assumptions, IInv, IInv', RepairInv, [Next]_vars
    PROVE  RepairInv'
<1>0. /\ pc \in [Task -> Place] /\ op \in [Task -> Op]
      /\ goal \in [Task -> {"none", "connect", "disconnect", "clear"}]
    BY NearTypes
<1>1. ASSUME NEW t \in Task, Calls(t) PROVE RepairInv'
    <2>1. OthersStay(t) /\ UNCHANGED <<closed, client, after>> /\ pc'[t] \in {"lock", "acting"}
        BY <1>0, <1>1 DEF Calls, CallRun, CallClear, CallClose, Want, Goto, OthersStay, ladderVars
    <2>2. goal'[t] = "clear" => "clear" \in Ops
        BY <1>0, <1>1 DEF Calls, CallRun, CallClear, CallClose, Want, RepairInv
    <2> QED BY <2>1, <2>2, RepairStepOf DEF Repairs, RepairInv
<1>2. ASSUME NEW t \in Task, Busy(t), TaskStep(t) PROVE RepairInv'
    <2>1. OthersStay(t) /\ goal'[t] \in {goal[t], "none", "connect"}
        <3>1. OthersStay(t)
            BY <1>2, OwnerStepIsCloser
        <3>2. goal'[t] \in {goal[t], "none", "connect"}
            BY <1>0, <1>2 DEF TaskStep, Enter, TornDown, FirstRung, NextRung, Rung, Opened, OpenFails,
               Subscribed, Offer, Written, WriteFails, NoHandshake, RungFails, TearDown, Shaken,
               ShakeCancelled, BondDone, RepairEnds, ActionEnds, ActionBreaks, Proceed, Leave, End, Busy, taskVars
        <3> QED BY <3>1, <3>2
    <2>2. goal'[t] = "clear" => "clear" \in Ops
        BY <2>1 DEF RepairInv
    <2>3. Inside(t) \/ Inside(t)' \/ after' = after
        BY <1>0, <1>2 DEF TaskStep, Enter, TornDown, Rung, Opened, OpenFails,
           Subscribed, Written, WriteFails, NoHandshake, TearDown, Goto, Shaken,
           ShakeCancelled, BondDone, RepairEnds, ActionEnds, ActionBreaks, Busy, Inside, Ladder
    <2>4. closed' => client' = None
        <3>1. CASE Opened(t)
            BY <3>1 DEF Opened, IInv, CloseInv, Busy
        <3>2. CASE TornDown(t)
            BY <3>2 DEF TornDown, IInv, LinkInv
        <3>3. CASE ~Opened(t) /\ ~TornDown(t)
            BY <1>2, <3>3 DEF TaskStep, Enter, Rung, OpenFails, Subscribed, Offer, Written, WriteFails,
               NoHandshake, RungFails, TearDown, Shaken, ShakeCancelled, BondDone, RepairEnds, ActionEnds,
               ActionBreaks, RepairInv
        <3> QED BY <3>1, <3>2, <3>3
    <2>5. Repairs(t)' => goal'[t] = "clear"
        <3>1. CASE Enter(t)
            BY <1>0, <3>1 DEF Enter, Proceed, End, TearDown, Goto, Repairs
        <3>2. CASE TornDown(t)
            BY <1>0, <3>2 DEF TornDown, FirstRung, NextRung, Leave, End, Goto, Repairs, RepairInv
        <3>3. CASE Rung(t)
            BY <1>0, <3>3 DEF Rung, Opened, OpenFails, Subscribed, Offer, Written, WriteFails,
               NoHandshake, RungFails, TearDown, Shaken, Proceed, ShakeCancelled, Leave, End, Goto,
               taskVars, Repairs
        <3>4. CASE BondDone(t)
            BY <1>0, <3>4 DEF BondDone, RepairEnds, Leave, End, Goto, Repairs
        <3> QED BY <1>2, <3>1, <3>2, <3>3, <3>4 DEF TaskStep, ActionEnds, ActionBreaks, Busy
    <2> QED BY <2>1, <2>2, <2>3, <2>4, <2>5, RepairStepOf
<1>3. ASSUME NEW t \in Task, ActionEnds(t) \/ ActionBreaks(t) PROVE RepairInv'
    <2>1. /\ OthersStay(t) /\ UNCHANGED <<closed, client, after>> /\ pc'[t] \in {"lock", "idle"}
          /\ goal'[t] \in {"none", "disconnect"}
        BY <1>0, <1>3 DEF ActionEnds, ActionBreaks, End, Goto, OthersStay, ladderVars
    <2> QED BY <2>1, RepairStepOf DEF Repairs, RepairInv
<1>4. ASSUME NEW t \in Task, Abandon(t) PROVE RepairInv'
    <2>1. /\ OthersStay(t) /\ UNCHANGED <<closed, client>> /\ pc'[t] = "idle" /\ goal'[t] = "none"
          /\ Inside(t) \/ after' = after
        BY <1>0, <1>4 DEF Abandon, RepairEnds, Leave, End, Goto, OthersStay, ladderVars, Inside, Ladder
    <2> QED BY <2>1, RepairStepOf DEF Repairs, RepairInv
<1>5. ASSUME UNCHANGED <<pc, goal, after, closed>>, client' \in {client, None} PROVE RepairInv'
    BY <1>5 DEF RepairInv
<1>6. ASSUME NEW t \in Task, BondOpened(t) PROVE RepairInv'
    BY <1>5, <1>6 DEF BondOpened, ladderVars, taskVars
<1>7. ASSUME NEW l \in Link, Drop(l) PROVE RepairInv'
    BY <1>5, <1>7 DEF Drop, OnDisconnect, taskVars
<1>8. CASE Answered \/ UNCHANGED vars
    BY <1>5, <1>8 DEF Answered, vars, ladderVars, taskVars
<1>9. ASSUME NEW t \in Task, TaskStep(t) PROVE RepairInv'
    BY <1>2, <1>3, <1>9 DEF TaskStep, Enter, TornDown, Rung, Opened, OpenFails, Subscribed,
       Written, WriteFails, NoHandshake, Shaken, ShakeCancelled, BondDone, RepairEnds, Busy
<1> QED BY <1>1, <1>4, <1>6, <1>7, <1>8, <1>9 DEF Next

\* Only a repair, of a client whose callers may repair, forgets the bond.
THEOREM RepairInvariant == Spec => []RepairInv
<1>1. Init => RepairInv
    BY DEF Init, RepairInv
<1>2. Assumptions
    BY NoneAssumption, CharsAssumption, OpsAssumption DEF Assumptions
<1>3. IInv /\ IInv' /\ RepairInv /\ [Next]_vars => RepairInv'
    BY <1>2, RepairStep
<1> QED BY <1>1, <1>3, Invariant, PTL DEF Spec

\* client.py:377-380, async_close: once it has returned, a link of the client is one
\* that a repair has opened for itself.
THEOREM ClosedStaysClosed == Spec => []ClosedButForRepairs
<1>1. IInv /\ RepairInv => ClosedButForRepairs
    BY DEF IInv, LinkInv, RepairInv, ClosedButForRepairs
<1> QED BY <1>1, Invariant, RepairInvariant, PTL

\* What async_close says of itself is true of a client that is never repaired.
THEOREM ClosedUnlessRepaired ==
    ASSUME "clear" \notin Ops
    PROVE  Spec => []ClosedForGood
<1>1. IInv /\ RepairInv => ClosedForGood
    BY DEF IInv, LinkInv, RepairInv, ClosedForGood
<1> QED BY <1>1, Invariant, RepairInvariant, PTL
=============================================================================
