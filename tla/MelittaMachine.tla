--------------------------- MODULE MelittaMachine ---------------------------
(***************************************************************************)
(* The request/response layer of machine.py: asyncio tasks share one BLE   *)
(* link through MelittaMachine._request.  A request takes the FIFO request *)
(* lock, registers a future under the KEY of the answer it waits for,      *)
(* writes its frame and waits.  Answers carry the key of the command, not  *)
(* the identity of the request, so an answer that is late meets whichever  *)
(* request is waiting under the same key.                                  *)
(*                                                                         *)
(* A step is what runs between two awaits.  The link, the machine and the  *)
(* wire of answers are the environment; `to' in a frame is a ghost that    *)
(* remembers which task asked, None once that request has ended.           *)
(***************************************************************************)
EXTENDS FifoLock

CONSTANTS
    Task,           \* asyncio tasks that call into the machine
    Reg,            \* register, recipe and text ids
    Challenge,      \* random 4-byte handshake challenges
    StaleRetries,   \* _STALE_ANSWER_RETRIES: asks one numerical read may make
    MaxWire,        \* bound on answers in flight (the model's, not the code's)
    None            \* no task, no key, no argument

ASSUME NoneAssumption == None \notin Task /\ None \notin Reg /\ None \notin Challenge
ASSUME RetriesAssumption == StaleRetries \in Nat \ {0}

VARIABLES
    link,        \* "up" when the client has a write characteristic to write to
    machineKey,  \* environment: session key the machine holds on this link
    wire,        \* environment: answers on their way to us, oldest first
    keyPrefix,   \* _key_prefix
    queue,       \* _request_lock: FIFO of tasks, the head owns it or is next
    waiters,     \* _waiters: answer key -> task whose future is registered
    pc,          \* where a task stands in its call
    op,          \* the call: command and argument
    asks,        \* requests the current read has made
    future,      \* state of the task's current future
    answer,      \* the frame its future was resolved with
    result       \* outcome of the task's last call

clientVars == <<keyPrefix, queue, waiters, pc, op, asks, future, answer, result>>
vars == <<link, machineKey, wire, clientVars>>

\* HU handshake, HR numerical read (HA alike), HC recipe read (HF, HV alike),
\* HX status, HW any acknowledged write (HB, HJ, HE, HZ alike).
Command == {"HU", "HR", "HC", "HX", "HW"}
WaitKey == {"HU", "HR", "HC", "HX", "ack"}
KeyOf(cmd) == IF cmd = "HW" THEN "ack" ELSE cmd

Arg == Reg \cup Challenge \cup {None}
Frame == [key : WaitKey, arg : Arg, ok : BOOLEAN, to : Task \cup {None}]
Status == [key |-> "HX", arg |-> None, ok |-> TRUE, to |-> None]
NoFrame == [key |-> "none", arg |-> None, ok |-> FALSE, to |-> None]

-----------------------------------------------------------------------------
Init ==
    /\ link = "down" /\ machineKey = None /\ wire = <<>>
    /\ keyPrefix = None
    /\ queue = <<>>
    /\ waiters = [k \in WaitKey |-> None]
    /\ pc = [t \in Task |-> "idle"]
    /\ op = [t \in Task |-> [cmd |-> "HX", arg |-> None]]
    /\ asks = [t \in Task |-> 1]
    /\ future = [t \in Task |-> "none"]
    /\ answer = [t \in Task |-> NoFrame]
    /\ result = [t \in Task |-> "none"]

OwnKey(t) == KeyOf(op[t].cmd)
Handshaking(t) == pc[t] # "idle" /\ op[t].cmd = "HU"

\* The answers on the wire once t has stopped waiting for its own.
Orphaned(t) ==
    [i \in 1 .. Len(wire) |->
        IF wire[i].to = t THEN [wire[i] EXCEPT !.to = None] ELSE wire[i]]

Registered(t) == \E k \in WaitKey : waiters[k] = t

\* MelittaMachine.reset: every pending future is cancelled, none stays registered.
FuturesCancelled ==
    [t \in Task |-> IF Registered(t) /\ future[t] = "pending"
                    THEN "cancelled" ELSE future[t]]

\* The lock is taken when the queue reaches the task.
NoLock(t) == queue # <<>>
LockIsMine(t) == IsNext(queue, t)

-----------------------------------------------------------------------------
(* Calls.  A public method runs synchronously up to the request lock.      *)

Enqueue(t, cmd, arg) ==
    /\ pc[t] = "idle"
    /\ pc' = [pc EXCEPT ![t] = "queued"]
    /\ op' = [op EXCEPT ![t] = [cmd |-> cmd, arg |-> arg]]
    /\ asks' = [asks EXCEPT ![t] = 1]
    /\ answer' = [answer EXCEPT ![t] = NoFrame]
    /\ result' = [result EXCEPT ![t] = "none"]
    /\ queue' = Append(queue, t)

Call(t, cmd, arg) ==
    /\ Enqueue(t, cmd, arg)
    /\ UNCHANGED <<link, machineKey, wire, keyPrefix, waiters, future>>

\* The client has a link without a session and tries a write characteristic:
\* reset, then the handshake with a fresh challenge.  The connect lock keeps
\* a second handshake out.
Handshake(t, c) ==
    /\ \A u \in Task : ~Handshaking(u)
    /\ link = "down" \/ keyPrefix = None
    /\ c # machineKey
    /\ \A i \in 1 .. Len(wire) : wire[i].arg # c
    /\ link' = "up"
    /\ keyPrefix' = None
    /\ waiters' = [k \in WaitKey |-> None]
    /\ future' = FuturesCancelled
    /\ Enqueue(t, "HU", c)
    /\ UNCHANGED <<machineKey, wire>>

\* The request lock is ours: register the future and build the frame.
Acquire(t) ==
    /\ pc[t] = "queued" /\ LockIsMine(t)
    /\ waiters' = [waiters EXCEPT ![OwnKey(t)] = t]
    /\ future' = [future EXCEPT ![t] = "pending"]
    /\ pc' = [pc EXCEPT ![t] = IF link = "up" THEN "sending" ELSE "broken"]
    /\ UNCHANGED <<link, machineKey, wire, keyPrefix, queue, op, asks, answer, result>>

-----------------------------------------------------------------------------
(* The end of a request: `finally' drops the future from the table and     *)
(* `async with' hands the lock on.                                         *)

LeakedWaiters(t) == waiters
WaitersAfter(t) == [waiters EXCEPT ![OwnKey(t)] = None]
LockKept(t) == queue
QueueAfter(t) == Tail(queue)

EndRequest(t) ==
    /\ waiters' = WaitersAfter(t)
    /\ future' = [future EXCEPT ![t] = "none"]
    /\ wire' = Orphaned(t)

Return(t, outcome) ==
    /\ EndRequest(t)
    /\ queue' = QueueAfter(t)
    /\ pc' = [pc EXCEPT ![t] = "idle"]
    /\ result' = [result EXCEPT ![t] = outcome]

Fail(t, outcome) ==
    /\ Return(t, outcome)
    /\ answer' = [answer EXCEPT ![t] = NoFrame]
    /\ UNCHANGED <<link, machineKey, keyPrefix, op, asks>>

\* _write raises: no usable link, or bleak reports an error.
WriteFails(t) ==
    /\ pc[t] \in {"sending", "broken"}
    /\ Fail(t, "error")

\* Every chunk is written.  The machine answers a handshake always and other
\* frames only under the session key; or it stays silent.  A handshake it has
\* seen installs the key it offers, whether or not its answer gets through.
Hears(t) == op[t].cmd = "HU" \/ (keyPrefix # None /\ keyPrefix = machineKey)

Answers(t) ==
    /\ Hears(t)
    /\ Len(wire) < MaxWire
    /\ \E ok \in (IF op[t].cmd = "HW" THEN BOOLEAN ELSE {TRUE}) :
          wire' = Append(wire, [key |-> OwnKey(t), arg |-> op[t].arg,
                                ok |-> ok, to |-> t])
    /\ machineKey' = IF op[t].cmd = "HU" THEN op[t].arg ELSE machineKey

StaysSilent(t) ==
    /\ wire' = wire
    /\ \/ machineKey' = machineKey
       \/ op[t].cmd = "HU" /\ machineKey' = op[t].arg

Sent(t) ==
    /\ pc[t] = "sending"
    /\ Answers(t) \/ StaysSilent(t)
    /\ pc' = [pc EXCEPT ![t] = "waiting"]
    /\ UNCHANGED <<link, keyPrefix, queue, waiters, op, asks, future, answer, result>>

\* wait_for expires.  It can win against an answer that is already there.
TimesOut(t) ==
    /\ pc[t] = "waiting"
    /\ Fail(t, "timeout")

\* reset() cancelled the future the task waits on: CancelledError.
SeesCancel(t) ==
    /\ pc[t] = "waiting" /\ future[t] = "cancelled"
    /\ Fail(t, "cancelled")

\* The task itself is cancelled: by the asyncio.timeout around a handshake, or
\* by Home Assistant stopping the service call it runs in.
Abandon(t) ==
    /\ pc[t] # "idle"
    /\ \/ pc[t] = "queued" /\ \E i \in 1 .. Len(queue) :
            /\ queue[i] = t
            /\ queue' = Without(queue, i)
            /\ pc' = [pc EXCEPT ![t] = "idle"]
            /\ result' = [result EXCEPT ![t] = "cancelled"]
            /\ answer' = [answer EXCEPT ![t] = NoFrame]
            /\ UNCHANGED <<link, machineKey, wire, keyPrefix, waiters, op, asks, future>>
       \/ pc[t] # "queued" /\ Fail(t, "cancelled")

-----------------------------------------------------------------------------
(* The answer is there and the task runs again.                            *)

AnyRegister(t) == TRUE
NamesItsRegister(t) == answer[t].arg = op[t].arg
EchoUnchecked(t) == TRUE
EchoesChallenge(t) == answer[t].arg = op[t].arg

AsksOnceMore(t) == asks[t] <= StaleRetries
MayAskAgain(t) == asks[t] < StaleRetries

Accepted(t, outcome) ==
    /\ Return(t, outcome)
    /\ UNCHANGED <<link, machineKey, op, asks, answer>>

\* handshake(): the key of the answer is installed if it echoes the challenge.
Handshaken(t) ==
    /\ op[t].cmd = "HU"
    /\ \/ EchoesChallenge(t) /\ keyPrefix' = answer[t].arg /\ Accepted(t, "ok")
       \/ ~EchoesChallenge(t) /\ Fail(t, "error")

\* read_numerical(): an answer for another register is dropped and the read
\* asks again, from the end of the lock's queue, as often as it may.
KeepsItsTurn(t) == queue
BackInLine(t) == Append(QueueAfter(t), t)

AskAgain(t) ==
    /\ EndRequest(t)
    /\ queue' = BackInLine(t)
    /\ pc' = [pc EXCEPT ![t] = "queued"]
    /\ asks' = [asks EXCEPT ![t] = @ + 1]
    /\ answer' = [answer EXCEPT ![t] = NoFrame]
    /\ UNCHANGED <<link, machineKey, keyPrefix, op, result>>

ReadNumerical(t) ==
    /\ op[t].cmd = "HR"
    /\ \/ NamesItsRegister(t) /\ Accepted(t, "ok") /\ UNCHANGED keyPrefix
       \/ ~NamesItsRegister(t) /\ MayAskAgain(t) /\ AskAgain(t)
       \/ ~NamesItsRegister(t) /\ ~MayAskAgain(t) /\ Fail(t, "timeout")

\* read_recipe(), read_status(), read_raw(): whatever came is the answer.
ReadUnchecked(t) ==
    /\ op[t].cmd \in {"HC", "HX"}
    /\ Accepted(t, "ok") /\ UNCHANGED keyPrefix

\* _request_ack(): N raises NotAcknowledged.
Acknowledged(t) ==
    /\ op[t].cmd = "HW"
    /\ Accepted(t, IF answer[t].ok THEN "ok" ELSE "nack") /\ UNCHANGED keyPrefix

Resume(t) ==
    /\ pc[t] = "waiting" /\ future[t] = "done"
    /\ Handshaken(t) \/ ReadNumerical(t) \/ ReadUnchecked(t) \/ Acknowledged(t)

-----------------------------------------------------------------------------
(* Environment.                                                            *)

\* _on_frame: the oldest answer resolves the future registered under its key;
\* without one it is dropped.
Deliver ==
    /\ wire # <<>>
    /\ wire' = Tail(wire)
    /\ LET f == Head(wire)
           t == waiters[f.key]
       IN /\ waiters' = [waiters EXCEPT ![f.key] = None]
          /\ IF t # None /\ future[t] = "pending"
             THEN /\ future' = [future EXCEPT ![t] = "done"]
                  /\ answer' = [answer EXCEPT ![t] = f]
             ELSE UNCHANGED <<future, answer>>
    /\ UNCHANGED <<link, machineKey, keyPrefix, queue, pc, op, asks, result>>

\* The machine pushes a status frame nobody asked for.
Push ==
    /\ link = "up" /\ machineKey # None
    /\ Len(wire) < MaxWire
    /\ wire' = Append(wire, Status)
    /\ UNCHANGED <<link, machineKey, clientVars>>

\* The link goes away, dropped by the machine or torn down by the client:
\* reset(), answers in flight are lost, a write in progress will raise.
LinkDown ==
    /\ link = "up"
    /\ link' = "down" /\ machineKey' = None /\ wire' = <<>>
    /\ keyPrefix' = None
    /\ waiters' = [k \in WaitKey |-> None]
    /\ future' = FuturesCancelled
    /\ pc' = [t \in Task |-> IF pc[t] = "sending" THEN "broken" ELSE pc[t]]
    /\ UNCHANGED <<queue, op, asks, answer, result>>

-----------------------------------------------------------------------------
TaskStep(t) ==
    Acquire(t) \/ WriteFails(t) \/ Sent(t) \/ TimesOut(t) \/ SeesCancel(t) \/ Resume(t)

Calls(t) ==
    \/ \E r \in Reg, cmd \in {"HR", "HC", "HW"} : Call(t, cmd, r)
    \/ Call(t, "HX", None)
    \/ \E c \in Challenge : Handshake(t, c)

Next ==
    \/ \E t \in Task : Calls(t) \/ TaskStep(t) \/ Abandon(t)
    \/ Deliver \/ Push \/ LinkDown

Spec == Init /\ [][Next]_vars

\* The event loop runs every task that can run, bleak ends every write, and
\* the timer of wait_for expires.
FairSpec == Spec /\ \A t \in Task : WF_vars(TaskStep(t))

-----------------------------------------------------------------------------
TypeOK ==
    /\ link \in {"up", "down"}
    /\ machineKey \in Challenge \cup {None}
    /\ wire \in Seq(Frame)
    /\ keyPrefix \in Challenge \cup {None}
    /\ queue \in Seq(Task)
    /\ waiters \in [WaitKey -> Task \cup {None}]
    /\ pc \in [Task -> {"idle", "queued", "sending", "broken", "waiting"}]
    /\ op \in [Task -> [cmd : Command, arg : Arg]]
    /\ \A t \in Task : op[t].cmd = "HU" => op[t].arg \in Challenge
    /\ asks \in [Task -> 1 .. StaleRetries]
    /\ future \in [Task -> {"none", "pending", "done", "cancelled"}]
    /\ answer \in [Task -> Frame \cup {NoFrame}]
    /\ result \in [Task -> {"none", "ok", "nack", "timeout", "error", "cancelled"}]

\* One exchange at a time (machine.py:199-211): a registered future belongs to
\* the task that holds the request lock, under the key of its own command, and
\* a task that waits on a pending future can still be found by its answer.
OneExchange ==
    /\ \A k \in WaitKey : waiters[k] # None =>
          /\ LockIsMine(waiters[k])
          /\ OwnKey(waiters[k]) = k
          /\ pc[waiters[k]] \in {"sending", "broken", "waiting"}
    /\ \A t \in Task : future[t] = "pending" => waiters[OwnKey(t)] = t

\* No cross talk: the frame a task is given was the answer to its own request
\* or to one that had already ended, never to another that is still waiting.
NoCrossTalk == \A t \in Task : answer[t].to \in {t, None}

\* A numerical read that returns a value returns that of its own register,
\* whatever answers of earlier reads were in flight (machine.py:278-293).
RightRegister ==
    \A t \in Task : op[t].cmd = "HR" /\ result[t] = "ok" => answer[t].arg = op[t].arg

\* While the link is up, a session key held by the client is the one the
\* machine holds (machine.py:226-252, reset 117-125): no late handshake answer
\* and no session of an earlier link leaves the two sides apart.
KeyAgreement == link = "up" /\ keyPrefix # None => keyPrefix = machineKey

\* Every call ends, whatever the machine and the link do.
CallsEnd == \A t \in Task : pc[t] # "idle" ~> pc[t] = "idle"

\* What a call still has before it: the asks a read may add, the tasks before
\* it in the lock's queue, and how far the one at the head has come.
Phase(t) == CASE pc[t] = "queued"  -> 4 [] pc[t] = "sending" -> 3
              [] pc[t] = "broken"  -> 2 [] pc[t] = "waiting" -> 1
              [] pc[t] = "idle"    -> 0
HeadPhase == Phase(queue[1])
Left(t) == <<asks[t], Position(queue, t), HeadPhase>>
Nearer(t) ==
    \/ asks'[t] > asks[t]
    \/ asks'[t] = asks[t] /\ Position(queue', t) < Position(queue, t)
    \/ /\ asks'[t] = asks[t] /\ Position(queue', t) = Position(queue, t)
       /\ HeadPhase' < HeadPhase

\* No call waits in vain: nobody gets before a request that waits for the lock,
\* the task that has the lock brings every one nearer to its end with each of
\* its steps, and a read that asks again does so a bounded number of times.  So
\* a call ends after so many steps of the others, whatever the machine and the
\* link do, and the retries of stale answers do not keep the lock for ever.
ComesNearer ==
    [][\A t \in Task : pc[t] # "idle" /\ pc'[t] # "idle" =>
          /\ Nearer(t) \/ UNCHANGED Left(t)
          /\ (\E u \in Task : TaskStep(u)) => Nearer(t)]_vars

\* Nobody compares the recipe that is read (machine.py:320-325, against
\* docs/PROTOCOL.md:404-407: "Check the register id in every response").  A read
\* that returns another recipe was given the answer of a request that had ended;
\* an answer to its own request is what it asked for.
WrongOnlyIfStale ==
    \A t \in Task : op[t].cmd = "HC" /\ result[t] = "ok" /\ answer[t].arg # op[t].arg =>
                       answer[t].to = None
-----------------------------------------------------------------------------
(* The inductive invariant that carries the safety properties above for    *)
(* every set of tasks, registers and challenges.                           *)

Active(t) == pc[t] \in {"sending", "broken", "waiting"}

\* The queue holds each task once, only tasks in a call, and at its head
\* every task that is past the lock.
QueueInv ==
    /\ Distinct(queue)
    /\ \A t \in Members(queue) : pc[t] # "idle"
    /\ \A t \in Task : Active(t) => LockIsMine(t)

\* A task in a call is in the queue, so its turn comes.
EveryoneInLine == \A t \in Task : pc[t] # "idle" => t \in Members(queue)

\* The table of futures and the futures themselves agree.
WaiterInv ==
    /\ \A k \in WaitKey : waiters[k] # None =>
          Active(waiters[k]) /\ OwnKey(waiters[k]) = k /\ future[waiters[k]] = "pending"
    /\ \A t \in Task : future[t] = "pending" => waiters[OwnKey(t)] = t
    /\ \A t \in Task : future[t] # "none" => Active(t)

\* An answer in flight to a request that has not ended is to the lock's owner.
WireInv ==
    /\ \A i \in 1 .. Len(wire) : wire[i].to # None => pc[wire[i].to] = "waiting"
    /\ NoCrossTalk

\* A task in a call has no outcome yet; a returned read names its register.
ResultInv ==
    /\ \A t \in Task : pc[t] # "idle" => result[t] = "none"
    /\ RightRegister

\* One handshake at a time, without a key until it ends; an answer that echoes
\* its challenge, in flight or received, offers the key the machine holds.
KeyInv ==
    /\ KeyAgreement
    /\ \A t, u \in Task : Handshaking(t) /\ Handshaking(u) => t = u
    /\ \A t \in Task : Handshaking(t) => keyPrefix = None
    /\ \A t \in Task : Handshaking(t) =>
          /\ \A i \in 1 .. Len(wire) :
                wire[i].key = "HU" /\ wire[i].arg = op[t].arg => machineKey = op[t].arg
          /\ link = "up" /\ future[t] = "done" /\ answer[t].arg = op[t].arg =>
                machineKey = op[t].arg

\* An answer to a request names what that request asked for, on its way and when
\* it is received.
OwnAnswersMatch ==
    \A t \in Task :
        /\ \A i \in 1 .. Len(wire) : wire[i].to = t => wire[i].arg = op[t].arg
        /\ answer[t].to = t => answer[t].arg = op[t].arg

IInv == TypeOK /\ QueueInv /\ WaiterInv /\ WireInv /\ ResultInv /\ KeyInv
=============================================================================
