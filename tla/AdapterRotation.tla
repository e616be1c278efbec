--------------------------- MODULE AdapterRotation ---------------------------
(***************************************************************************)
(* Which adapter a connect goes through (client.py, _pick_device and the   *)
(* end of async_connect; __init__.py, _device_provider).  The adapter of   *)
(* the last session comes first, else the candidates take turns; adapters  *)
(* the machine has refused to bond with are left out until all of them     *)
(* have been.  The client, with its turn and its last adapter, is built    *)
(* anew for every setup of the entry; the refused ones outlive it.         *)
(***************************************************************************)
EXTENDS Naturals, FiniteSets

CONSTANTS
    Adapters,    \* number of adapters and proxies, in Home Assistant's order
    Turns,       \* a common multiple of 1 .. Adapters: _rotation is kept modulo it
    MaxChanges,  \* bound on changes of what is in range
    None

Adapter == 1 .. Adapters

ASSUME AdaptersAssumption == Adapters \in Nat \ {0} /\ None \notin Adapter
ASSUME ChangesAssumption == MaxChanges \in Nat
ASSUME TurnsAssumption == Turns \in Nat \ {0} /\ \A n \in Adapter : Turns % n = 0

VARIABLES
    seen,       \* environment: adapters that can hear the machine
    changes,    \* how often that has changed
    refused,    \* hass.data[REFUSED_SOURCES][address]
    phase,      \* "away": no client, "setup": its first refresh, "loaded",
                \* "failed": no client, and Home Assistant does not retry
    lastGood,   \* last_good_source
    rotation,   \* _rotation, modulo Turns
    device,     \* the adapter the connect in progress goes through, or None
    session,    \* the adapter that carries the session, or None
    repairing,  \* async_clear_bond has picked its device and waits for the lock
    failure,    \* how the last connect failed
    untried     \* ghost: adapters in range and not tried since there was a session

vars == <<seen, changes, refused, phase, lastGood, rotation, device, session,
          repairing, failure, untried>>

Init ==
    /\ seen \in SUBSET Adapter /\ changes = 0
    /\ refused = {}
    /\ phase = "away" /\ lastGood = None /\ rotation = 0
    /\ device = None /\ session = None /\ repairing = FALSE
    /\ failure = "none"
    /\ untried = seen

-----------------------------------------------------------------------------
\* _device_provider: once every adapter in range has been refused, the refusals
\* are forgotten and all of them are candidates again.
Usable == seen \ refused
Candidates == IF Usable = {} THEN seen ELSE Usable
RefusedAfterLook == IF Usable = {} /\ seen # {} THEN {} ELSE refused

InOrder(S, n) == CHOOSE a \in S : Cardinality({b \in S : b < a}) = n

\* _pick_device
Pick ==
    IF lastGood \in Candidates THEN lastGood
    ELSE InOrder(Candidates, rotation % Cardinality(Candidates))

-----------------------------------------------------------------------------
\* async_setup_entry, up to the first refresh
Setup ==
    /\ phase \in {"away", "failed"} /\ seen # {}
    /\ refused' = RefusedAfterLook
    /\ phase' = "setup" /\ lastGood' = None /\ rotation' = 0
    /\ UNCHANGED <<seen, changes, device, session, repairing, failure, untried>>

\* A connect picks its device; without one it fails, and the setup with it.
Look ==
    /\ phase \in {"setup", "loaded"} /\ session = None /\ device = None
    /\ \/ /\ seen # {}
          /\ device' = Pick
          /\ refused' = RefusedAfterLook
          /\ untried' = untried \ {Pick}
          /\ UNCHANGED phase
       \/ /\ seen = {} /\ phase = "setup"
          /\ phase' = "away"
          /\ UNCHANGED <<device, refused, untried>>
    /\ UNCHANGED <<seen, changes, lastGood, rotation, session, repairing, failure>>

Succeed ==
    /\ device # None
    /\ lastGood' = device /\ session' = device /\ device' = None
    /\ phase' = "loaded"
    /\ untried' = {} /\ failure' = "none"
    /\ UNCHANGED <<seen, changes, refused, rotation, repairing>>

\* Both rungs failed: the next adapter's turn, and a refusal is reported.
SameTurn == rotation
NextTurn == (rotation + 1) % Turns
Unreported == refused
Reported == refused \cup {device}
StillPreferred == lastGood
PreferredAfter == IF lastGood = device THEN None ELSE lastGood

Fail(kind) ==
    /\ device # None
    /\ rotation' = NextTurn
    /\ \/ /\ kind = "refused"
          /\ lastGood' = PreferredAfter
          /\ refused' = Reported
       \/ /\ kind = "plain"
          /\ UNCHANGED <<lastGood, refused>>
    /\ failure' = kind
    /\ device' = None
    /\ phase' = IF phase = "setup" THEN "away" ELSE phase
    /\ UNCHANGED <<seen, changes, session, repairing, untried>>

\* The link drops during the handshake, and CancelledError passes every except:
\* the turn stays where it is, and a setup is not retried.
Break ==
    /\ device # None
    /\ failure' = "broken"
    /\ device' = None
    /\ phase' = IF phase = "setup" THEN "failed" ELSE phase
    /\ UNCHANGED <<seen, changes, refused, lastGood, rotation, session, repairing, untried>>

\* async_clear_bond looks for a device before it waits for the connect lock.
Repair ==
    /\ phase = "loaded" /\ ~repairing /\ seen # {}
    /\ repairing' = TRUE
    /\ refused' = RefusedAfterLook
    /\ UNCHANGED <<seen, changes, phase, lastGood, rotation, device, session, failure, untried>>

SessionGone ==
    /\ session' = None
    /\ untried' = IF session = None THEN untried ELSE seen

Repaired ==
    /\ repairing /\ device = None
    /\ repairing' = FALSE
    /\ lastGood' = None
    /\ SessionGone
    /\ UNCHANGED <<seen, changes, refused, phase, rotation, device, failure>>

\* The entry is unloaded, to be set up again; or the first refresh got its session
\* and no answer.
Unload ==
    /\ phase = "loaded" /\ device = None /\ ~repairing
    /\ phase' = "away"
    /\ SessionGone
    /\ UNCHANGED <<seen, changes, refused, lastGood, rotation, device, repairing, failure>>

Drop ==
    /\ session # None
    /\ SessionGone
    /\ UNCHANGED <<seen, changes, refused, phase, lastGood, rotation, device, repairing, failure>>

Hear ==
    /\ changes < MaxChanges
    /\ seen' \in SUBSET Adapter /\ seen' # seen
    /\ changes' = changes + 1
    /\ untried' = IF session = None THEN seen' ELSE {}
    /\ UNCHANGED <<refused, phase, lastGood, rotation, device, session, repairing, failure>>

-----------------------------------------------------------------------------
Ladder == Succeed \/ (\E kind \in {"plain", "refused"} : Fail(kind)) \/ Break

Next == Setup \/ Look \/ Ladder \/ Repair \/ Repaired \/ Unload \/ Drop \/ Hear

Spec == Init /\ [][Next]_vars

\* Home Assistant retries a setup that is not ready and polls a loaded entry; a
\* connect ends, and a repair gets the lock: lock and polls are BleClient's.
FairSpec ==
    /\ Spec
    /\ WF_vars(phase = "away" /\ Setup) /\ WF_vars(Look) /\ WF_vars(Ladder) /\ SF_vars(Repaired)

-----------------------------------------------------------------------------
TypeOK ==
    /\ seen \subseteq Adapter /\ changes \in 0 .. MaxChanges
    /\ refused \subseteq Adapter
    /\ phase \in {"away", "setup", "loaded", "failed"}
    /\ lastGood \in Adapter \cup {None} /\ rotation \in 0 .. Turns - 1
    /\ device \in Adapter \cup {None} /\ session \in Adapter \cup {None}
    /\ repairing \in BOOLEAN
    /\ failure \in {"none", "plain", "refused", "broken"}
    /\ untried \subseteq seen

\* An adapter that has been refused is not used: neither as the preferred one,
\* nor by a connect under way, nor by the session, although the refusals are
\* kept by Home Assistant and the preference by the client, which a setup
\* replaces, and a repair may forget the refusals at any moment.
RefusedNotUsed == refused \cap {lastGood, device, session} = {}

\* A connect goes through an adapter in range, and through one that has been
\* refused only when every adapter in range has been (__init__.py, 64-69): the
\* refusals are then forgotten at once.
PicksInRange ==
    [][ device = None /\ device' # None =>
          /\ device' \in seen
          /\ device' \in refused => seen \subseteq refused /\ refused' = {} ]_vars

\* The inductive invariant: one connect at a time and not beside a session,
\* which is on the preferred adapter; a repair only of a loaded entry.
OneAttempt ==
    /\ device # None => session = None /\ phase \in {"setup", "loaded"}
    /\ session # None => lastGood = session /\ phase = "loaded" /\ untried = {}
    /\ repairing => phase = "loaded"

IInv == TypeOK /\ OneAttempt /\ RefusedNotUsed

\* client.py:211-213: while no adapter is preferred, every candidate gets its
\* turn, whichever of the others fail and however, once no link drops during its
\* handshake any more.
TurnsComeRound ==
    <>[](failure # "broken") =>
        \A a \in Adapter :
            phase = "loaded" /\ a \in untried \ refused
            ~> a \notin untried \/ a \in refused \/ lastGood # None \/ phase # "loaded"

\* __init__.py:64-69: refusals keep no adapter in range from being tried, not
\* even when every setup starts with a new client: the refused ones step back
\* for the others, and come back when none is left.
RefusalsRotate ==
    <>[](failure \in {"none", "refused"}) =>
        \A a \in Adapter : a \in untried ~> a \notin untried

\* client.py:159-162: "Give up on this adapter and let the next connect try
\* another one, rather than asking the same one again every poll for ever."
EveryoneInTurn ==
    <>[](failure # "broken") =>
        \A a \in Adapter :
            phase = "loaded" /\ a \in untried ~> a \notin untried \/ phase # "loaded"
=============================================================================
