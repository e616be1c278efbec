--------------------------- MODULE EntriesProofs ---------------------------
(***************************************************************************)
(* Proofs about Entries, for any machines, flows and number of troubles.   *)
(***************************************************************************)
EXTENDS Entries, TLAPS

-----------------------------------------------------------------------------
\* Init => IInv.
LEMMA Initially == Init => IInv
<1> SUFFICES ASSUME Init PROVE IInv
  OBVIOUS
<1>1. TypeOK
  <2>1. /\ entries \in [Machine -> Nat]
        /\ flow \in [Flow -> Machine \cup {None}]
        /\ phase \in [Machine -> Phase]
    BY DEF Init, Phase
  <2>2. trouble \in 0 .. MaxTrouble
    BY TroubleAssumption DEF Init
  <2>3. /\ open \subseteq Machine /\ leaked \subseteq Machine
        /\ agentKnown \in BOOLEAN
        /\ agentLock = None
        /\ agents \in Nat /\ abandoned \in Nat
        /\ inReach \subseteq Machine
    BY DEF Init
  <2> QED BY <2>1, <2>2, <2>3 DEF TypeOK
<1>2. OneEntry /\ ClientsOwned
  BY DEF Init, OneEntry, ClientsOwned, Setups
<1>3. AgentAccounted
  BY DEF Init, AgentAccounted, Registering
<1> QED BY <1>1, <1>2, <1>3 DEF IInv

\* Every step preserves it: one step of the proof per action.
LEMMA Step == IInv /\ [Next]_vars => IInv'
<1> SUFFICES ASSUME IInv, [Next]_vars PROVE IInv'
  OBVIOUS
<1> USE MachinesAssumption, TroubleAssumption
    DEF IInv, TypeOK, OneEntry, ClientsOwned,
        AgentAccounted, Registering, Setups, Phase, Enter,
        Affordable, Spend, agentVars, world
<1>1. ASSUME NEW f \in Flow, ShowForm(f)
      PROVE  IInv'
  BY <1>1, SMTT(60) DEF ShowForm, Configured
<1>2. ASSUME NEW f \in Flow, Submit(f)
      PROVE  IInv'
  BY <1>2, SMTT(60) DEF Submit, StillNew, Configured
<1>3. ASSUME NEW f \in Flow, CloseForm(f)
      PROVE  IInv'
  BY <1>3, SMTT(60) DEF CloseForm
<1>4. ASSUME NEW m \in Machine, Setup(m)
      PROVE  IInv'
  BY <1>4, SMTT(60) DEF Setup
<1>5. ASSUME NEW m \in Machine, Refreshed(m)
      PROVE  IInv'
  BY <1>5, SMTT(60) DEF Refreshed
<1>6. ASSUME NEW m \in Machine, NotReady(m)
      PROVE  IInv'
  BY <1>6, SMTT(60) DEF NotReady, Closed
<1>7. ASSUME NEW m \in Machine, SetupCancelled(m)
      PROVE  IInv'
  BY <1>7, SMTT(60) DEF SetupCancelled
<1>8. ASSUME NEW m \in Machine, Loaded(m)
      PROVE  IInv'
  BY <1>8, SMTT(60) DEF Loaded
<1>9. ASSUME NEW m \in Machine, WantAgent(m)
      PROVE  IInv'
  BY <1>9, SMTT(60) DEF WantAgent
<1>10. ASSUME NEW m \in Machine, EnsureAgent(m)
      PROVE  IInv'
  BY <1>10, SMTT(60) DEF EnsureAgent, OneAtATime
<1>11. ASSUME NEW m \in Machine, RegisterAgent(m)
      PROVE  IInv'
  BY <1>11, SMTT(60) DEF RegisterAgent
<1>12. ASSUME NEW m \in Machine, AgentReady(m)
      PROVE  IInv'
  BY <1>12, SMTT(60) DEF AgentReady, Unlocked
<1>13. ASSUME NEW m \in Machine, AgentFails(m)
      PROVE  IInv'
  BY <1>13, SMTT(60) DEF AgentFails, Unlocked
<1>14. ASSUME NEW m \in Machine, AgentCancelled(m)
      PROVE  IInv'
  BY <1>14, SMTT(60) DEF AgentCancelled, Unlocked
<1>15. ASSUME NEW m \in Machine, Unload(m)
      PROVE  IInv'
  BY <1>15, SMTT(60) DEF Unload
<1>16. ASSUME NEW m \in Machine, UnloadRefused(m)
      PROVE  IInv'
  BY <1>16, SMTT(60) DEF UnloadRefused
<1>17. ASSUME NEW m \in Machine, Shutdown(m)
      PROVE  IInv'
  BY <1>17, SMTT(60) DEF Shutdown
<1>18. ASSUME NEW m \in Machine, Unloaded(m)
      PROVE  IInv'
  BY <1>18, SMTT(60) DEF Unloaded
<1>19. ASSUME NEW m \in Machine, Remove(m)
      PROVE  IInv'
  BY <1>19, SMTT(60) DEF Remove
<1>20. ASSUME NEW m \in Machine, Reload(m)
      PROVE  IInv'
  BY <1>20, SMTT(60) DEF Reload
<1>21. ASSUME NEW m \in Machine, Come(m)
      PROVE  IInv'
  BY <1>21, SMTT(60) DEF Come
<1>22. ASSUME NEW m \in Machine, Go(m)
      PROVE  IInv'
  BY <1>22, SMTT(60) DEF Go
<1>23. ASSUME BlueZRestarts
      PROVE  IInv'
  BY <1>23, SMTT(60) DEF BlueZRestarts
<1>24. ASSUME NEW m \in Machine, PlatformsFail(m)
      PROVE  IInv'
  BY <1>24, SMTT(60) DEF PlatformsFail
<1>25. CASE UNCHANGED vars
  BY <1>25 DEF vars
<1> QED BY <1>1, <1>2, <1>3, <1>4, <1>5, <1>6, <1>7, <1>8, <1>9, <1>10, <1>11,
          <1>12, <1>13, <1>14, <1>15, <1>16, <1>17, <1>18, <1>19, <1>20, <1>21,
          <1>22, <1>23, <1>24, <1>25
    DEF Next, SetupStep, UnloadStep

-----------------------------------------------------------------------------
\* The inductive invariant: in every reachable state a registration of the
\* agent has the lock to itself and every agent is accounted for, and every
\* entry has the client that its phase calls for.
THEOREM Invariant == Spec => []IInv
BY Initially, Step, PTL DEF Spec

\* Type correctness: the agent's lock, in particular, is never left to an
\* entry that no longer registers the agent (pairing.py:104-141).
THEOREM TypeCorrect == Spec => []TypeOK
<1>1. IInv => TypeOK
  BY DEF IInv
<1> QED BY <1>1, Invariant, PTL

\* A machine never gets a second entry, whatever forms are open
\* (config_flow.py:63-65, 89-95, 113-117).
THEOREM EntriesUnique == Spec => []OneEntry
<1>1. IInv => OneEntry
  BY DEF IInv
<1> QED BY <1>1, Invariant, PTL

\* Every open client is the one of an entry in a phase that has one
\* (__init__.py:96-131, 138-143).
THEOREM ClientsHaveEntries == Spec => []ClientsOwned
<1>1. IInv => ClientsOwned
  BY DEF IInv
<1> QED BY <1>1, Invariant, PTL

\* One agent per process, apart from those of registrations that were
\* cancelled half way (pairing.py:94-104).
THEOREM AgentUnique == Spec => []OneAgent
<1>1. IInv => OneAgent
  BY DEF IInv, TypeOK, AgentAccounted, OneAgent
<1> QED BY <1>1, Invariant, PTL
=============================================================================
