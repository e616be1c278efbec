------------------------------ MODULE BleClient ------------------------------
(***************************************************************************)
(* The connection layer of client.py.  Every use of the machine passes     *)
(* through MelittaBleClient.async_connect, which under the FIFO connect    *)
(* lock tears down what is left of the last link and climbs a ladder of    *)
(* two rungs: without and with pairing.  A rung opens a link, subscribes   *)
(* and offers the handshake to one write characteristic after another.     *)
(* The link may drop between any two steps; its callback is not under the  *)
(* lock and resets the client whatever is going on.                        *)
(*                                                                         *)
(* A step is what runs between two awaits.  The exchange of a handshake is *)
(* the state `hs'; its frames are the subject of MelittaMachine.           *)
(***************************************************************************)
EXTENDS FifoLock

CONSTANTS
    Task,             \* asyncio tasks that use the client
    Link,             \* BLE links; a link that is gone can be used again
    Chars,            \* number of writable characteristics of the service
    Ops,              \* operations the tasks perform, see Op
    Stubborn,         \* links whose disconnect() may raise or be cut short
    None

Op == {"poll", "run", "clear", "close"}

ASSUME NoneAssumption == None \notin Link
ASSUME CharsAssumption == Chars \in Nat \ {0}
ASSUME OpsAssumption == Ops \subseteq Op /\ Stubborn \subseteq Link

VARIABLES
    up,        \* environment: the links that are connected
    client,    \* _client: the link in use, or None
    key,       \* machine._key_prefix: the link it was negotiated on, or None
    closing,   \* _closing
    closed,    \* async_close has returned
    queue,     \* _connect_lock: FIFO of tasks, the head owns it or is next
    victim,    \* the link being disconnected
    private,   \* the link async_clear_bond has opened for itself
    rung,      \* 0: pair=False, 1: pair=True
    char,      \* index of the write characteristic being tried
    hs,        \* the handshake on it
    offered,   \* the link that handshake was written to
    silent,    \* silent_machine
    after,     \* what follows the teardown in progress
    pc, op, goal, outcome

ladderVars == <<rung, char, hs, offered, silent, after>>
taskVars == <<pc, op, goal, outcome>>
vars == <<up, client, key, closing, closed, queue, victim, private,
          ladderVars, taskVars>>

Ladder == {"teardown", "open", "subscribe", "shake"}
Place == {"idle", "lock", "acting", "bond"} \cup Ladder

Init ==
    /\ up = {}
    /\ client = None /\ key = None
    /\ closing = FALSE /\ closed = FALSE
    /\ queue = <<>> /\ victim = None /\ private = None
    /\ rung = 0 /\ char = 1 /\ hs = "none" /\ offered = None /\ silent = FALSE
    /\ after = "none"
    /\ pc = [t \in Task |-> "idle"]
    /\ op = [t \in Task |-> "run"]
    /\ goal = [t \in Task |-> "none"]
    /\ outcome = [t \in Task |-> "none"]

\* MelittaBleClient.connected
connected == client # None /\ client \in up /\ key # None

\* The lock is taken when the queue reaches the task.
NoLock(t) == queue # <<>>
LockIsMine(t) == IsNext(queue, t)

\* machine.reset: a handshake that waits for its answer is cancelled.
Cancelled == IF hs \in {"writing", "pending"} THEN "cancelled" ELSE hs

Goto(t, place) == pc' = [pc EXCEPT ![t] = place]

-----------------------------------------------------------------------------
(* Leaving the connect lock, and what the caller of async_connect does.    *)

FreshLadder ==
    /\ rung' = 0 /\ char' = 1 /\ hs' = "none" /\ offered' = None
    /\ silent' = FALSE /\ after' = "none"

End(t, result) ==
    /\ Goto(t, "idle")
    /\ outcome' = [outcome EXCEPT ![t] = result]
    /\ goal' = [goal EXCEPT ![t] = "none"]
    /\ UNCHANGED op

\* `async with' hands the lock on, whichever way the block is left.
LockKept == queue
LockHandedOn == Tail(queue)

Leave(t, result) ==
    /\ FreshLadder
    /\ queue' = LockHandedOn
    /\ End(t, result)

RunsWhileClosing == TRUE
MayRun == ~closing

\* async_connect has returned.  async_run starts its action; a poll, which
\* called async_connect itself, first enters async_run: it is refused when the
\* client is closing and connects once more when the session is gone again.
Proceed(t, session, q) ==
    \/ /\ op[t] = "run" \/ (MayRun /\ session)
       /\ Goto(t, "acting") /\ queue' = q
       /\ UNCHANGED <<op, goal, outcome>>
    \/ /\ op[t] = "poll" /\ ~MayRun
       /\ End(t, "refused") /\ queue' = q
    \/ /\ op[t] = "poll" /\ MayRun /\ ~session
       /\ Goto(t, "lock") /\ queue' = Append(q, t)
       /\ op' = [op EXCEPT ![t] = "run"]
       /\ goal' = [goal EXCEPT ![t] = "connect"]
       /\ UNCHANGED outcome

\* _async_disconnect_locked: forget the link and the session, then await the
\* disconnect.  `after' says what the caller does next.
KeyKept == key
KeyForgotten == None
NothingToClose == None
LinkToClose == client

TearDown(t, next) ==
    /\ client' = None /\ key' = KeyForgotten
    /\ victim' = LinkToClose
    /\ hs' = "none"
    /\ after' = next
    /\ Goto(t, "teardown")

-----------------------------------------------------------------------------
(* Calls.                                                                  *)

Want(t, o, g) ==
    /\ Goto(t, "lock")
    /\ op' = [op EXCEPT ![t] = o]
    /\ goal' = [goal EXCEPT ![t] = g]
    /\ outcome' = [outcome EXCEPT ![t] = "none"]
    /\ queue' = Append(queue, t)

\* async_run; a poll comes through async_connect, and Home Assistant starts no
\* poll once the coordinator has been shut down.
CallRun(t, o) ==
    /\ pc[t] = "idle" /\ o \in Ops \cap {"run", "poll"}
    /\ IF o = "run" THEN MayRun ELSE ~closing
    /\ \/ /\ connected
          /\ Goto(t, "acting")
          /\ op' = [op EXCEPT ![t] = "run"]
          /\ outcome' = [outcome EXCEPT ![t] = "none"]
          /\ UNCHANGED <<queue, goal>>
       \/ /\ ~connected
          /\ Want(t, o, "connect")
    /\ UNCHANGED <<up, client, key, closing, closed, victim, private, ladderVars>>

\* async_clear_bond: the device is picked before the lock is asked for.
CallClear(t) ==
    /\ pc[t] = "idle" /\ "clear" \in Ops
    /\ Want(t, "clear", "clear")     \* without a device the call fails here
    /\ UNCHANGED <<up, client, key, closing, closed, victim, private, ladderVars>>

\* async_close
CallClose(t) ==
    /\ pc[t] = "idle" /\ "close" \in Ops /\ ~closing
    /\ closing' = TRUE
    /\ Want(t, "close", "disconnect")
    /\ UNCHANGED <<up, client, key, closed, victim, private, ladderVars>>

\* The lock is ours.  Whoever wants a session looks again whether one is there.
TearsDownAnyway == FALSE
LooksAgain == connected

Enter(t) ==
    /\ pc[t] = "lock" /\ LockIsMine(t)
    /\ \/ /\ goal[t] = "connect" /\ LooksAgain
          /\ Proceed(t, TRUE, LockHandedOn)
          /\ UNCHANGED <<client, key, victim, hs, after>>
       \/ /\ goal[t] = "connect" /\ ~LooksAgain
          /\ TearDown(t, "open")
          /\ UNCHANGED <<queue, op, goal, outcome>>
       \/ /\ goal[t] = "disconnect"
          /\ TearDown(t, "leave")
          /\ UNCHANGED <<queue, op, goal, outcome>>
       \/ /\ goal[t] = "clear"
          /\ TearDown(t, "bond")
          /\ UNCHANGED <<queue, op, goal, outcome>>
    /\ UNCHANGED <<up, closing, closed, private, rung, char, offered, silent>>

\* The disconnect has returned, or has raised what the code swallows, or was cut
\* short: then the link may still be there, and nobody remembers it.
Closes(link) ==
    \/ up' = up \ {link}
    \/ link \in Stubborn /\ UNCHANGED up

\* _pick_device finds an adapter that sees the machine, or none.
FirstRung(t) ==
    \/ Goto(t, "open") /\ UNCHANGED <<queue, op, goal, outcome, ladderVars>>
    \/ Leave(t, "failed")

StaysOnRung(t) ==
    /\ char' = 1
    /\ Goto(t, "open")
    /\ UNCHANGED <<queue, op, goal, outcome, rung, hs, offered, silent, after>>
NextRung(t) ==
    \/ /\ rung = 0
       /\ rung' = 1 /\ char' = 1
       /\ Goto(t, "open")
       /\ UNCHANGED <<queue, op, goal, outcome, hs, offered, silent, after>>
    \/ /\ rung = 1
       /\ Leave(t, "failed")

TornDown(t) ==
    /\ pc[t] = "teardown"
    /\ Closes(victim) /\ victim' = None
    /\ \/ after = "open" /\ FirstRung(t)
       \/ after = "retry" /\ NextRung(t)
       \/ after = "bond" /\ Goto(t, "bond") /\ UNCHANGED <<queue, op, goal, outcome, ladderVars>>
       \/ after = "leave" /\ Leave(t, IF op[t] = "close" THEN "ok" ELSE "failed")
    /\ closed' = (closed \/ (after = "leave" /\ op[t] = "close"))
    /\ UNCHANGED <<client, key, closing, private>>

-----------------------------------------------------------------------------
(* One rung: _async_open_session.                                          *)

\* The rung fails with an error the ladder catches.
RungFails(t, wentSilent) ==
    /\ silent' = (silent \/ wentSilent)
    /\ TearDown(t, "retry")
    /\ UNCHANGED <<rung, queue, op, goal, outcome>>

Opened(t) ==
    /\ pc[t] = "open"
    /\ \E l \in Link \ up :
          /\ up' = up \cup {l}
          /\ client' = l
    /\ Goto(t, "subscribe")
    /\ UNCHANGED <<key, closing, closed, queue, victim, private, ladderVars,
                   op, goal, outcome>>

\* establish_connection raises or runs into connect_timeout; or the service
\* has no usable characteristic, or start_notify raises.
OpenFails(t) ==
    /\ pc[t] \in {"open", "subscribe"}
    /\ RungFails(t, FALSE)
    /\ UNCHANGED <<up, closing, closed, private, char, offered>>

\* _write has a link to write to
Writable == client # None /\ client \in up

\* Characteristic c: reset, then the handshake.  Without a link to write to it
\* fails at once, and so does every characteristic after it.
OneTooMany(c) == c <= Chars + 1
IsChar(c) == c <= Chars

Offer(t, c) ==
    /\ key' = None
    /\ \/ /\ IsChar(c) /\ Writable
          /\ char' = c /\ hs' = "writing" /\ offered' = client
          /\ Goto(t, "shake")
          /\ UNCHANGED <<client, victim, rung, silent, after, queue, op, goal, outcome>>
       \/ /\ ~IsChar(c) \/ ~Writable
          /\ RungFails(t, TRUE)
          /\ UNCHANGED <<char, offered>>

Subscribed(t) ==
    /\ pc[t] = "subscribe"
    /\ Offer(t, 1)
    /\ UNCHANGED <<up, closing, closed, private>>

Written(t) ==
    /\ pc[t] = "shake" /\ hs = "writing"
    /\ hs' = "pending"
    /\ UNCHANGED <<up, client, key, closing, closed, queue, victim, private,
                   rung, char, offered, silent, after, taskVars>>

\* write_gatt_char raises: no MachineError, so no other characteristic is tried.
WriteFails(t) ==
    /\ pc[t] = "shake" /\ hs \in {"writing", "cancelled"}
    /\ RungFails(t, FALSE)
    /\ UNCHANGED <<up, closing, closed, private, char, offered>>

\* The machine answers over this characteristic.
Answered ==
    /\ hs = "pending" /\ offered \in up
    /\ hs' = "answered"
    /\ UNCHANGED <<up, client, key, closing, closed, queue, victim, private,
                   rung, char, offered, silent, after, taskVars>>

\* No answer within frame_timeout, or one that does not verify, or a write
\* that outlasts connect_timeout: the next characteristic.
NoHandshake(t) ==
    /\ pc[t] = "shake" /\ hs \in {"writing", "pending", "answered"}
    /\ Offer(t, char + 1)
    /\ UNCHANGED <<up, closing, closed, private>>

\* The key of the answer is installed.  The link may be lost since it came.
Shaken(t) ==
    /\ pc[t] = "shake" /\ hs = "answered"
    /\ key' = offered
    /\ Proceed(t, Writable, LockHandedOn)
    /\ FreshLadder
    /\ UNCHANGED <<up, client, closing, closed, victim, private>>

\* reset() cancelled the future of the handshake.  CancelledError is none of
\* the errors the ladder, async_run or the coordinator catch.
ShakeCancelled(t) ==
    /\ pc[t] = "shake" /\ hs = "cancelled"
    /\ Leave(t, "dropped")
    /\ UNCHANGED <<up, client, key, closing, closed, victim, private>>

-----------------------------------------------------------------------------
(* The action of async_run.                                                *)

\* It returns, or raises a MachineError: the session is kept.  A request that
\* was waiting when the link was lost raises CancelledError.
ActionEnds(t) ==
    /\ pc[t] = "acting"
    /\ \/ \E result \in {"ok", "failed"} : End(t, result)
       \/ key = None /\ End(t, "dropped")
    /\ UNCHANGED <<up, client, key, closing, closed, queue, victim, private, ladderVars>>

\* BleakError or TimeoutError: the session is dropped, whichever it is by then.
ActionBreaks(t) ==
    /\ pc[t] = "acting"
    /\ Goto(t, "lock")
    /\ goal' = [goal EXCEPT ![t] = "disconnect"]
    /\ queue' = Append(queue, t)
    /\ UNCHANGED <<up, client, key, closing, closed, victim, private, ladderVars,
                   op, outcome>>

-----------------------------------------------------------------------------
(* _async_clear_bond: a link of its own, without the client's callback.    *)

BondOpened(t) ==
    /\ pc[t] = "bond" /\ private = None
    /\ \E l \in Link \ up : up' = up \cup {l} /\ private' = l
    /\ UNCHANGED <<client, key, closing, closed, queue, victim, ladderVars, taskVars>>

\* Out of reach; or unpaired, or not, and then disconnected in any case: an error
\* of unpair() may be raised, one of disconnect() is suppressed.
PrivateLink == private
RepairEnds(t, results) ==
    /\ pc[t] = "bond"
    /\ Closes(PrivateLink) /\ private' = None
    /\ \E result \in results : Leave(t, result)
    /\ UNCHANGED <<client, key, closing, closed, victim>>

BondDone(t) == RepairEnds(t, {"ok", "failed"})

-----------------------------------------------------------------------------
(* Environment.                                                            *)

\* A link is lost.  For a link of the client _on_disconnect runs, whichever
\* link the client has by now; the link of a repair has no callback, and a link
\* nobody remembers may be one of those.
MayBeRepairs(l) == l = private \/ ("clear" \in Ops /\ l \notin {client, victim})
OnDisconnect == client' = None /\ key' = None /\ hs' = Cancelled

Drop(l) ==
    /\ l \in up
    /\ up' = up \ {l}
    /\ \/ l # private /\ OnDisconnect
       \/ MayBeRepairs(l) /\ UNCHANGED <<client, key, hs>>
    /\ UNCHANGED <<closing, closed, queue, victim, private, rung, char, offered, silent,
                   after, taskVars>>

\* The task is cancelled from outside.  In the queue it leaves the queue; in
\* the ladder nothing tears the half-open link down; a repair disconnects its
\* link first; a disconnect is cut short.
Abandon(t) ==
    \/ /\ pc[t] = "lock"
       /\ \E i \in 1 .. Len(queue) : queue[i] = t /\ queue' = Without(queue, i)
       /\ End(t, "cancelled")
       /\ UNCHANGED <<up, client, key, closing, closed, victim, private, ladderVars>>
    \/ /\ pc[t] \in {"open", "subscribe", "shake"}
       /\ Leave(t, "cancelled")
       /\ UNCHANGED <<up, client, key, closing, closed, victim, private>>
    \/ /\ pc[t] = "teardown"
       /\ Closes(victim) /\ victim' = None
       /\ Leave(t, "cancelled")
       /\ UNCHANGED <<client, key, closing, closed, private>>
    \/ RepairEnds(t, {"cancelled"})
    \/ /\ pc[t] = "acting"
       /\ End(t, "cancelled")
       /\ UNCHANGED <<up, client, key, closing, closed, queue, victim, private, ladderVars>>

-----------------------------------------------------------------------------
Rung(t) ==
    \/ Opened(t) \/ OpenFails(t) \/ Subscribed(t) \/ Written(t) \/ WriteFails(t)
    \/ NoHandshake(t) \/ Shaken(t) \/ ShakeCancelled(t)

TaskStep(t) ==
    Enter(t) \/ TornDown(t) \/ Rung(t) \/ ActionEnds(t) \/ ActionBreaks(t) \/ BondDone(t)

Calls(t) == (\E o \in Ops : CallRun(t, o)) \/ CallClear(t) \/ CallClose(t)

Next ==
    \/ \E t \in Task : Calls(t) \/ TaskStep(t) \/ BondOpened(t) \/ Abandon(t)
    \/ Answered
    \/ \E l \in Link : Drop(l)

Spec == Init /\ [][Next]_vars

\* Every await of the code ends: asyncio.timeout bounds a connect and a
\* handshake, wait_for a request, and bleak its own GATT calls.
FairSpec == Spec /\ \A t \in Task : WF_vars(TaskStep(t))

-----------------------------------------------------------------------------
LinkTypes ==
    /\ up \subseteq Link
    /\ client \in Link \cup {None} /\ key \in Link \cup {None}
    /\ victim \in Link \cup {None} /\ private \in Link \cup {None}
    /\ closing \in BOOLEAN /\ closed \in BOOLEAN

LadderTypes ==
    /\ rung \in {0, 1} /\ char \in 1 .. Chars
    /\ hs \in {"none", "writing", "pending", "answered", "cancelled"}
    /\ offered \in Link \cup {None}
    /\ silent \in BOOLEAN
    /\ after \in {"none", "open", "retry", "bond", "leave"}

TaskTypes ==
    /\ op \in [Task -> Op]
    /\ goal \in [Task -> {"none", "connect", "disconnect", "clear"}]
    /\ outcome \in [Task -> {"none", "ok", "failed", "refused", "dropped", "cancelled"}]

TypeOK ==
    /\ queue \in Seq(Task) /\ pc \in [Task -> Place]
    /\ LinkTypes /\ LadderTypes /\ TaskTypes

Busy(t) == pc[t] \notin {"idle", "acting"}
Inside(t) == pc[t] \in Ladder \cup {"bond"}

\* One task at a time opens, closes or re-bonds links (client.py:111, 236, 374).
OneLadder == \A t, u \in Task : Inside(t) /\ Inside(u) => t = u

\* A usable session has a key that was negotiated on the link it uses, however
\* drops, late callbacks and cancelled connects fall (client.py:79-85, 348-364).
SessionOnItsLink == connected => key = client

\* The machine accepts one central, and a link that stays connected when nobody
\* refers to it keeps it busy.  A failed rung, a cancelled connect, a close and a
\* repair forget only a link whose own disconnect had no effect, which the code
\* takes in silence (client.py:278-280, 389-392); and the link in use is
\* forgotten besides when another one drops: _on_disconnect does not look at
\* whose callback it is (client.py:394-399).
Remembered == {client, victim, private}
NoLinkForgotten ==
    [][\A l \in Link : l \in up \cap Remembered /\ l \in up' \ Remembered' =>
          \/ l \in {victim, private} \cap Stubborn
          \/ l = client /\ \E k \in up \ {l} : Drop(k)]_vars

\* client.py:378: "Disconnect permanently; further connect attempts are
\* refused."  Once async_close has returned the client opens no link.
ClosedForGood == closed => client = None /\ private = None

\* A live session ends because a link is lost, or because a task asked for the
\* disconnect: never because another task was late to want it (client.py:111-114).
LiveSessionKept ==
    [][connected /\ ~connected' =>
         \/ up' # up
         \/ \E t \in Task : pc[t] = "lock" /\ pc'[t] = "teardown"
                            /\ goal[t] \in {"disconnect", "clear"}]_vars

\* What is true of it: a closed client has no link but the one a repair opens for
\* itself.  So nothing but async_clear_bond breaks the promise of async_close.
ClosedButForRepairs ==
    closed =>
        /\ client = None
        /\ private # None => \E t \in Task : pc[t] = "bond" /\ goal[t] = "clear"

\* Every call ends and hands the lock on, whatever the link does.
CallsEnd == \A t \in Task : pc[t] # "idle" ~> pc[t] = "idle"

\* How far a call is from its end.  It may want the lock more than once: a poll
\* connects again when its session is lost at once, an action that breaks
\* disconnects.
Round(t) ==
    CASE pc[t] = "idle"   -> 0
      [] pc[t] = "acting" -> 2
      [] Busy(t) /\ goal[t] # "connect" -> 1
      [] Busy(t) /\ goal[t] = "connect" /\ op[t] # "poll" -> 3
      [] Busy(t) /\ goal[t] = "connect" /\ op[t] = "poll" -> 4

\* The steps the owner of the lock has left, at most: a rung opens a link,
\* subscribes, gives each characteristic a write, a wait and its end, and is
\* torn down.
RungSteps == 3 * Chars + 3
HandshakeSteps == CASE hs = "writing" -> 3
                    [] hs = "pending" -> 2
                    [] hs \in {"answered", "cancelled"} -> 1
                    [] hs = "none"    -> 0
OwnerSteps(t) ==
    LET nextRung == IF rung = 0 THEN RungSteps ELSE 0
    IN  CASE pc[t] = "lock"      -> 2 * RungSteps + 2
          [] pc[t] = "teardown" /\ after # "retry" -> 2 * RungSteps + 1
          [] pc[t] = "open"      -> nextRung + RungSteps
          [] pc[t] = "subscribe" -> nextRung + RungSteps - 1
          [] pc[t] = "shake"     -> nextRung + 3 * (Chars - char) + HandshakeSteps + 1
          [] pc[t] = "teardown" /\ after = "retry" -> nextRung + 1
          [] pc[t] = "bond"      -> 1
HeadSteps == OwnerSteps(queue[1])

Left(t) == IF Busy(t) THEN <<Round(t), Position(queue, t), HeadSteps>> ELSE <<Round(t)>>
Nearer(t) ==
    \/ Round(t)' < Round(t)
    \/ /\ Round(t)' = Round(t) /\ Busy(t)
       /\ \/ Position(queue', t) < Position(queue, t)
          \/ Position(queue', t) = Position(queue, t) /\ HeadSteps' < HeadSteps

\* No call waits in vain for the connect lock: each step of the task that has it
\* brings every call nearer to its end, as does each step of its own, and nothing
\* takes it further away, be it a lost link, a late caller or a session gone again.
\* The ladder has two rungs and each characteristic one turn on a rung, a poll
\* connects twice at most, and an action that breaks disconnects once.
ComesNearer ==
    [][\A t \in Task : pc[t] # "idle" /\ pc'[t] # "idle" =>
          /\ Nearer(t) \/ UNCHANGED Left(t)
          /\ TaskStep(t) \/ (Busy(t) /\ \E u \in Task : Busy(u) /\ TaskStep(u)) =>
                Nearer(t)]_vars

\* The session is what BleSession promises.
Session == INSTANCE BleSession WITH session <- IF connected THEN client ELSE None,
                                    shut <- closed
OneSession == Session!Spec

\* client.py:102-104: async_connect "tries the cheap unbonded path first and
\* escalates only when the session does not come up": a connect that ends
\* without a session has tried both rungs.
Escalates ==
    [][\A t \in Task :
         /\ pc[t] \in {"open", "subscribe", "shake"} /\ pc'[t] = "idle"
         /\ outcome'[t] \in {"failed", "dropped"}
         => rung = 1]_vars
-----------------------------------------------------------------------------
(* The inductive invariant behind OneLadder, SessionOnItsLink, OneSession. *)

\* The queue is the tasks in a call that needs the lock; who is past the lock
\* is at its head.
QueueInv ==
    /\ Distinct(queue)
    /\ Members(queue) = {t \in Task : Busy(t)}
    /\ \A t \in Task : Inside(t) => LockIsMine(t)

\* The link in use is connected, and nobody sets up a link while there is a
\* key; a handshake is on the client's link, if that is still there.
LinkInv ==
    /\ client # None => client \in up
    /\ key # None => client \in {key, None}
    /\ \A t \in Task : Inside(t) => key = None
    /\ \A t \in Task : pc[t] \in {"teardown", "open", "bond"} => client = None
    /\ hs # "none" => client \in {offered, None} /\ \E t \in Task : pc[t] = "shake"
    /\ private # None => \E t \in Task : pc[t] = "bond"

\* Nobody who wants a session waits behind a close, or after one.
NoneBehindClose ==
    \A t, u \in Task : Before(queue, t, u) /\ op[t] = "close" => goal[u] # "connect"

CloseInv ==
    /\ \A t \in Task :
          \/ pc[t] \in {"open", "subscribe", "shake"}
          \/ pc[t] = "teardown" /\ after \in {"open", "retry"}
          => goal[t] = "connect"
    /\ closed => closing /\ \A t \in Task : Busy(t) => goal[t] # "connect"
    /\ \A t \in Task : op[t] = "close" => closing
    /\ NoneBehindClose

IInv == TypeOK /\ QueueInv /\ LinkInv /\ CloseInv

\* Only a repair gets to open a link of its own; a closed client opens none.
RepairInv ==
    /\ \A t \in Task : pc[t] = "bond" \/ (pc[t] = "teardown" /\ after = "bond") =>
                         goal[t] = "clear"
    /\ \A t \in Task : goal[t] = "clear" => "clear" \in Ops
    /\ closed => client = None
=============================================================================
