------------------------------- MODULE Orders -------------------------------
(***************************************************************************)
(* What brewing promises whoever asks for a drink.  A drink is made once   *)
(* at most, and as it was ordered; an order that is reported done has been *)
(* made.  One that is reported failed may be made all the same.  Nothing   *)
(* is promised of an order another one has disturbed, except that it is    *)
(* made once at most; and as long as only one has been asked for, nothing  *)
(* can disturb it.                                                         *)
(***************************************************************************)
CONSTANTS
    Task,       \* who asks
    None        \* no drink

VARIABLES
    asked,      \* who has asked for something, a drink or something else
    order,      \* the drink each has ordered, or None
    made,       \* the drink each has got, or None
    outcome,    \* "open", or what was reported: "done", "failed"
    disturbed   \* whose order another one has disturbed

vars == <<asked, order, made, outcome, disturbed>>

Init ==
    /\ asked = {}
    /\ order = [t \in Task |-> None]
    /\ made = [t \in Task |-> None]
    /\ outcome = [t \in Task |-> "open"]
    /\ disturbed = {}

\* Somebody asks, for a drink or for something else.
Ask(t) ==
    /\ t \notin asked
    /\ asked' = asked \cup {t}
    /\ order' = [order EXCEPT ![t] = order'[t]]
    /\ UNCHANGED <<made, outcome, disturbed>>

\* One that is asked for beside another may be disturbed by it.
MayDisturb(t) ==
    \/ disturbed' = disturbed
    \/ /\ \E u \in asked : u # t
       /\ disturbed' = disturbed \cup {t}

Disturb(t) ==
    /\ MayDisturb(t)
    /\ UNCHANGED <<asked, order, made, outcome>>

Make(t) ==
    /\ order[t] # None /\ made[t] = None
    /\ made'[t] # None
    /\ t \notin disturbed => made'[t] = order[t]
    /\ made' = [made EXCEPT ![t] = made'[t]]
    /\ UNCHANGED <<asked, order, outcome, disturbed>>

End(t) ==
    /\ t \in asked /\ outcome[t] = "open"
    /\ outcome'[t] \in {"done", "failed"}
    /\ outcome' = [outcome EXCEPT ![t] = outcome'[t]]
    /\ MayDisturb(t)
    /\ outcome'[t] = "done" /\ order[t] # None /\ t \notin disturbed' => made[t] # None
    /\ UNCHANGED <<asked, order, made>>

Next == \E t \in Task : Ask(t) \/ Disturb(t) \/ Make(t) \/ End(t)

Spec == Init /\ [][Next]_vars
=============================================================================
