------------------------------ MODULE Entries ------------------------------
(***************************************************************************)
(* The life of the config entries: the flows that create them, their setup *)
(* and unload, and the one pairing agent they share.                       *)
(*                                                                         *)
(* Home Assistant runs the setups and unloads of one entry one after the   *)
(* other, those of different entries and the flows side by side.  It sets  *)
(* an entry up again, with a new client, when its setup was not ready; a   *)
(* setup that ends by CancelledError (the machine drops the link during    *)
(* the first refresh) it gives up, until the user reloads the entry.       *)
(***************************************************************************)
EXTENDS Naturals

CONSTANTS
    Machine,        \* Bluetooth addresses of machines
    Flow,           \* config flows that may be open at once
    MaxTrouble,     \* bound: failures of machines in reach, of BlueZ, ...
    None

Setups == {"first", "waiting", "agent", "registered", "platforms"}
Phase == {"absent", "unloaded", "retry", "failed", "broken", "loaded",
          "unloading", "closing", "stuck"} \cup Setups

ASSUME MachinesAssumption == None \notin Machine
ASSUME TroubleAssumption == MaxTrouble \in Nat

VARIABLES
    entries,        \* config entries there are for each machine
    flow,           \* the machine that each flow's form is open for
    phase,          \* where the entry of each machine is in its life
    open,           \* machines whose entry has a client that is not closed
    leaked,         \* machines that a client nobody refers to was left for
    agentLock,      \* pairing._lock
    agentKnown,     \* pairing._registered
    agents,         \* BlueZ: agents registered by this process
    abandoned,      \* history: registrations cut short by a cancellation
    inReach,        \* machines that are on and in range
    trouble         \* bound: troubles had

vars == <<entries, flow, phase, open, leaked, agentLock,
          agentKnown, agents, abandoned, inReach, trouble>>
agentVars == <<agentLock, agentKnown, agents, abandoned>>
world == <<inReach, trouble>>

Init == /\ entries = [m \in Machine |-> 0]
        /\ flow = [f \in Flow |-> None]
        /\ phase = [m \in Machine |-> "absent"]
        /\ open = {}
        /\ leaked = {}
        /\ agentLock = None
        /\ agentKnown = FALSE
        /\ agents = 0
        /\ abandoned = 0
        /\ inReach = Machine
        /\ trouble = 0

Enter(m, p) == phase' = [phase EXCEPT ![m] = p]
Affordable == trouble < MaxTrouble
Spend == trouble' = trouble + 1

-----------------------------------------------------------------------------
\* The config flow.  A form is for a machine that is in range and has no
\* entry: the one that was discovered, or the one that the user will pick.

Configured == {m \in Machine : entries[m] > 0}

ShowForm(f) ==
    /\ flow[f] = None
    /\ \E m \in inReach \ Configured : flow' = [flow EXCEPT ![f] = m]
    /\ UNCHANGED <<entries, phase, open, leaked, agentVars, world>>

\* The form may have sat open while the machine was added another way
\* (mutant: it is not looked at again).
AsOffered(m) == TRUE
StillNew(m) == m \notin Configured

Submit(f) ==
    /\ flow[f] # None
    /\ IF StillNew(flow[f])
       THEN /\ entries' = [entries EXCEPT ![flow[f]] = @ + 1]
            /\ Enter(flow[f], "unloaded")
       ELSE UNCHANGED <<entries, phase>>
    /\ flow' = [flow EXCEPT ![f] = None]
    /\ UNCHANGED <<open, leaked, agentVars, world>>

CloseForm(f) ==
    /\ flow[f] # None
    /\ flow' = [flow EXCEPT ![f] = None]
    /\ UNCHANGED <<entries, phase, open, leaked, agentVars, world>>

\* The user removes the entry.
Remove(m) ==
    /\ phase[m] \in {"unloaded", "retry", "failed", "broken"}
    /\ entries' = [entries EXCEPT ![m] = 0]
    /\ Enter(m, "absent")
    /\ UNCHANGED <<flow, open, leaked, agentVars, world>>

\* The user reloads an entry whose setup Home Assistant has given up.
Reload(m) ==
    /\ phase[m] \in {"failed", "broken"}
    /\ Enter(m, "unloaded")
    /\ UNCHANGED <<entries, flow, open, leaked, agentVars, world>>

-----------------------------------------------------------------------------
\* Setup.

\* async_setup_entry: without a device it is not ready, else it makes a
\* client and a coordinator and waits for the first refresh.
Setup(m) ==
    /\ phase[m] \in {"unloaded", "retry"}
    /\ IF m \in inReach
       THEN Enter(m, "first") /\ open' = open \cup {m}
       ELSE Enter(m, "retry") /\ UNCHANGED open
    /\ UNCHANGED <<entries, flow, leaked, agentVars, world>>

Refreshed(m) ==
    /\ phase[m] = "first"
    /\ m \in inReach
    /\ Enter(m, "platforms")
    /\ UNCHANGED <<entries, flow, open, leaked, agentVars, world>>

\* ConfigEntryNotReady: the client is closed (mutant: it is not), and Home
\* Assistant will try again.
NotClosed(m) == open
Closed(m) == open \ {m}

NotReady(m) ==
    /\ phase[m] = "first"
    /\ IF m \in inReach THEN Affordable /\ Spend ELSE UNCHANGED trouble
    /\ open' = Closed(m)
    /\ leaked' = IF m \in open' THEN leaked \cup {m} ELSE leaked
    /\ Enter(m, "retry")
    /\ UNCHANGED <<entries, flow, agentVars, inReach>>

\* CancelledError, from a link dropped under a request: nothing catches it,
\* and the setup is given up.
SetupCancelled(m) ==
    /\ phase[m] = "first"
    /\ Affordable /\ Spend
    /\ open' = open \ {m}
    /\ leaked' = leaked \cup {m}
    /\ Enter(m, "failed")
    /\ UNCHANGED <<entries, flow, agentVars, inReach>>

Loaded(m) ==
    /\ phase[m] = "platforms"
    /\ Enter(m, "loaded")
    /\ UNCHANGED <<entries, flow, open, leaked, agentVars, world>>

\* A platform raises, or the setup is cancelled: the setup has failed, and the
\* client is not closed.
PlatformsFail(m) ==
    /\ phase[m] = "platforms"
    /\ Affordable /\ Spend
    /\ open' = open \ {m}
    /\ leaked' = leaked \cup {m}
    /\ Enter(m, "broken")
    /\ UNCHANGED <<entries, flow, agentVars, inReach>>

-----------------------------------------------------------------------------
\* The pairing agent, for the connects that pair: the first refresh is one.

\* One registration at a time (mutant: any number).
AnyTime == TRUE
OneAtATime == agentLock = None

\* Every way out of async_ensure_agent unlocks (mutant: none does).
LockKept == agentLock
Unlocked == None

\* async_ensure_agent waits for the lock, and looks whether an agent has been
\* registered meanwhile.
WantAgent(m) ==
    /\ phase[m] = "first"
    /\ ~agentKnown
    /\ Enter(m, "waiting")
    /\ UNCHANGED <<entries, flow, open, leaked, agentVars, world>>

EnsureAgent(m) ==
    /\ phase[m] = "waiting"
    /\ OneAtATime
    /\ IF agentKnown THEN Enter(m, "first") /\ UNCHANGED agentLock
       ELSE Enter(m, "agent") /\ agentLock' = m
    /\ UNCHANGED <<entries, flow, open, leaked, agentKnown,
                   agents, abandoned, world>>

RegisterAgent(m) ==
    /\ phase[m] = "agent"
    /\ agents' = agents + 1
    /\ Enter(m, "registered")
    /\ UNCHANGED <<entries, flow, open, leaked, agentLock,
                   agentKnown, abandoned, world>>

\* Asking to be the default agent may fail; the agent is registered all the
\* same.
AgentReady(m) ==
    /\ phase[m] = "registered"
    /\ agentKnown' = TRUE
    /\ agentLock' = Unlocked
    /\ Enter(m, "first")
    /\ UNCHANGED <<entries, flow, open, leaked, agents,
                   abandoned, world>>

\* No system bus, or BlueZ refuses: pairing has to do without.
AgentFails(m) ==
    /\ phase[m] = "agent"
    /\ Affordable /\ Spend
    /\ agentLock' = Unlocked
    /\ Enter(m, "first")
    /\ UNCHANGED <<entries, flow, open, leaked, agentKnown,
                   agents, abandoned, inReach>>

\* Home Assistant cancels a setup that drags on: what was registered stays,
\* and is forgotten.
AgentCancelled(m) ==
    /\ phase[m] \in {"waiting", "agent", "registered"}
    /\ Affordable /\ Spend
    /\ agentLock' = IF phase[m] = "waiting" THEN agentLock ELSE Unlocked
    /\ abandoned' = IF phase[m] = "registered" THEN abandoned + 1 ELSE abandoned
    /\ open' = open \ {m}
    /\ leaked' = leaked \cup {m}
    /\ Enter(m, "failed")
    /\ UNCHANGED <<entries, flow, agentKnown, agents, inReach>>

-----------------------------------------------------------------------------
\* Unload, for a reload too: new options, or the user's wish.

Unload(m) ==
    /\ phase[m] = "loaded"
    /\ Enter(m, "unloading")
    /\ UNCHANGED <<entries, flow, open, leaked, agentVars, world>>

\* A platform that does not unload leaves the entry as it is.
UnloadRefused(m) ==
    /\ phase[m] = "unloading"
    /\ Affordable /\ Spend
    /\ Enter(m, "stuck")
    /\ UNCHANGED <<entries, flow, open, leaked, agentVars, inReach>>

\* async_shutdown: polling stops, and the client closes, behind whoever has
\* its connect lock.
Shutdown(m) ==
    /\ phase[m] = "unloading"
    /\ open' = open \ {m}
    /\ Enter(m, "closing")
    /\ UNCHANGED <<entries, flow, leaked, agentVars, world>>

\* The entry can be set up again, or removed.
Unloaded(m) ==
    /\ phase[m] = "closing"
    /\ Enter(m, "unloaded")
    /\ UNCHANGED <<entries, flow, open, leaked, agentVars, world>>

-----------------------------------------------------------------------------
\* The machines come and go; BlueZ restarts, and forgets its agents.

Come(m) == /\ m \notin inReach
           /\ inReach' = inReach \cup {m}
           /\ UNCHANGED <<entries, flow, phase, open, leaked, agentVars, trouble>>

Go(m) == /\ m \in inReach
         /\ inReach' = inReach \ {m}
         /\ UNCHANGED <<entries, flow, phase, open, leaked, agentVars, trouble>>

BlueZRestarts == /\ Affordable /\ Spend
                 /\ agents' = 0
                 /\ UNCHANGED <<entries, flow, phase, open, leaked, agentLock,
                                agentKnown, abandoned, inReach>>

-----------------------------------------------------------------------------
SetupStep(m) == \/ Setup(m) \/ Refreshed(m) \/ NotReady(m)
                \/ SetupCancelled(m) \/ Loaded(m) \/ PlatformsFail(m)
                \/ WantAgent(m) \/ EnsureAgent(m) \/ RegisterAgent(m)
                \/ AgentReady(m) \/ AgentFails(m) \/ AgentCancelled(m)

UnloadStep(m) == UnloadRefused(m) \/ Shutdown(m) \/ Unloaded(m)

Next == \/ \E f \in Flow : ShowForm(f) \/ Submit(f) \/ CloseForm(f)
        \/ \E m \in Machine : \/ SetupStep(m) \/ Unload(m) \/ UnloadStep(m)
                              \/ Remove(m) \/ Reload(m)
                              \/ Come(m) \/ Go(m)
        \/ BlueZRestarts

Spec == Init /\ [][Next]_vars

\* Home Assistant tries setups again, and what is begun goes on: connects and
\* requests have timeouts.
FairSpec == /\ Spec
            /\ \A m \in Machine : /\ WF_vars(SetupStep(m))
                                  /\ WF_vars(UnloadStep(m))

-----------------------------------------------------------------------------
\* Properties.

\* Type correctness.  The agent's lock is held by an entry that registers it.
TypeOK ==
    /\ entries \in [Machine -> Nat]
    /\ flow \in [Flow -> Machine \cup {None}]
    /\ phase \in [Machine -> Phase]
    /\ open \subseteq Machine /\ leaked \subseteq Machine
    /\ agentKnown \in BOOLEAN
    /\ agentLock \in Machine \cup {None}
    /\ agentLock # None => phase[agentLock] \in {"agent", "registered"}
    /\ agents \in Nat /\ abandoned \in Nat
    /\ inReach \subseteq Machine
    /\ trouble \in 0 .. MaxTrouble

\* However many forms are open for a machine, it gets one entry: two of them
\* would hold two clients on a machine that takes one link
\* (config_flow.py:63-65, 89-95, 113-117).
OneEntry == \A m \in Machine : /\ entries[m] <= 1
                               /\ entries[m] = 0 <=> phase[m] = "absent"

\* A client is open only for an entry that is being set up, is loaded or
\* could not be unloaded, and every such entry has one: however a setup or
\* unload goes, no two clients of one machine are open, except those that a
\* cancelled setup or a failed platform has left (__init__.py:96-131, 138-143).
ClientsOwned ==
    /\ open = {m \in Machine :
                 phase[m] \in Setups \cup {"loaded", "unloading", "stuck"}}
    /\ trouble = 0 => leaked = {}

\* Two entries that pair at once register one agent, not two; more only after
\* a registration was cancelled half way ("once per Home Assistant process",
\* pairing.py:94-104).
OneAgent == agents <= 1 + abandoned

\* The inductive invariant: whoever registers the agent has the lock, nobody
\* does for an agent that is known, and every agent but one was abandoned.
Registering == {m \in Machine : phase[m] \in {"agent", "registered"}}

AgentAccounted ==
    /\ \A m \in Registering : agentLock = m /\ ~agentKnown
    /\ agents <= abandoned + IF \/ agentKnown
                                \/ \E m \in Machine : phase[m] = "registered"
                             THEN 1 ELSE 0

IInv == TypeOK /\ OneEntry /\ ClientsOwned /\ AgentAccounted

\* An entry whose machine stays in reach comes up, unless its setup was
\* cancelled, a platform failed or its unload was refused: no registration of the agent by another
\* entry that failed or was cancelled, no retry and no reload leaves it
\* waiting.
ComesUp ==
    \A m \in Machine :
        <>[](m \in inReach /\ entries[m] > 0) =>
            []<>(phase[m] \in {"loaded", "failed", "broken", "stuck"})
=============================================================================
