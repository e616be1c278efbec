----------------------------- MODULE BleSession -----------------------------
(***************************************************************************)
(* What MelittaBleClient promises the rest of the integration: there is at *)
(* most one session, it comes up from nothing, it is never exchanged for   *)
(* another one under its users, and once the client has been shut down     *)
(* there is none again.                                                    *)
(***************************************************************************)
CONSTANTS
    Link,    \* BLE links a session can be on
    None     \* no session

VARIABLES
    session, \* the link of the session, or None
    shut     \* the client has been closed for good

Init == session = None /\ shut = FALSE

Open(l) ==
    /\ session = None /\ ~shut
    /\ session' = l
    /\ UNCHANGED shut

Lose ==
    /\ session # None
    /\ session' = None
    /\ UNCHANGED shut

Shut ==
    /\ shut' = TRUE
    /\ session' = None

Next == (\E l \in Link : Open(l)) \/ Lose \/ Shut

Spec == Init /\ [][Next]_<<session, shut>>
=============================================================================
