---------------------------- MODULE Coordinator ----------------------------
(***************************************************************************)
(* The polling coordinator: what of the machine the entities show, how old *)
(* it may be, and how a command makes the next poll read again what it has *)
(* changed.                                                                *)
(*                                                                         *)
(* A poll connects, reads the status, the machine's type while that is not *)
(* known, and then the groups of registers that are due: the settings      *)
(* after SettingsTicks or when invalidated, the counters only when         *)
(* invalidated.  Polls exclude one another, but commands, pushed statuses, *)
(* people at the machine and lost links come between any two requests of a *)
(* poll.  Time is counted in ticks, and the machine's registers in the     *)
(* number of times they have changed.                                      *)
(***************************************************************************)
EXTENDS Naturals, Sequences, FiniteSets

CONSTANTS
    Settings,       \* the slow registers, in the order they are read
    Counters,       \* the cup counters, in the order they are read
    Written,        \* the setting that Home Assistant writes
    OnFailure,      \* what a failed read does to the value shown
    SettingsTicks,  \* SETTINGS_REFRESH_SECONDS
    StaleTicks,     \* STALE_AFTER_SECONDS
    MaxChanges,     \* bound: changes of one register
    MaxTrouble,     \* bound: failures, lost links and visits to the machine
    Default,        \* the positional name "Profile N"
    None

SetOf(group) == {group[i] : i \in 1 .. Len(group)}
Register == SetOf(Settings) \cup SetOf(Counters)
Group == {"settings", "counters"}
InGroup(group) == IF group = "settings" THEN Settings ELSE Counters
Process == {"READY", "BUSY"}
Command == {"write", "brew"}

ASSUME GroupsAssumption == /\ Settings \in Seq(Register) /\ Settings # <<>>
                           /\ Counters \in Seq(Register) /\ Counters # <<>>
                           /\ SetOf(Settings) \cap SetOf(Counters) = {}
                           /\ Written \in SetOf(Settings)
                           /\ OnFailure \in [Register ->
                                               {"cleared", "kept", "default"}]
ASSUME TicksAssumption == SettingsTicks \in Nat \ {0} /\ StaleTicks \in Nat \ {0}
ASSUME BoundsAssumption == MaxChanges \in Nat /\ MaxTrouble \in Nat
ASSUME NoneAssumption == /\ None \notin Nat \cup Process \cup Command
                         /\ Default \notin Nat \cup {None}

VARIABLES
    phase,          \* the await the poll stands at
    todo,           \* the registers it has left to read in this group
    polled,         \* the status answered, not adopted yet
    status,         \* data.status
    typeKnown,      \* data.machine_type is known
    shown,          \* data.auto_off_after, .care_counts, .profile_names, ...
    settingsAge,    \* ticks since _settings_read_at
    countersDue,    \* _counters_due
    firstDone,      \* _first_refresh_done
    succeeded,      \* last_update_success
    successAge,     \* ticks since _last_success_at
    rendered,       \* the entities, as last written, are available
    command,        \* the command that is being carried out
    acted,          \* the machine has acted on it
    register,       \* the machine: how often each register has changed
    process,        \* the machine: what it is doing
    inReach,        \* the machine: it is on, and in range
    trouble,        \* bound: troubles had
    excused,        \* history: registers shown may be behind, and rightly so, or
    overtaken       \* history: as their command returned while they were read

vars == <<phase, todo, polled, status, typeKnown, shown, settingsAge,
          countersDue, firstDone, succeeded, successAge, rendered, command,
          acted, register, process, inReach, trouble, excused, overtaken>>
history == <<excused, overtaken>>
data == <<status, typeKnown, shown>>
schedule == <<settingsAge, countersDue, firstDone, succeeded, successAge>>
calls == <<command, acted>>
environment == <<register, process, inReach, trouble>>

Init == /\ phase = "idle"
        /\ todo = <<>>
        /\ polled = None
        /\ status = None
        /\ typeKnown = FALSE
        /\ shown = [r \in Register |-> None]
        /\ settingsAge = None
        /\ countersDue = TRUE
        /\ firstDone = FALSE
        /\ succeeded = TRUE
        /\ successAge = None
        /\ rendered = FALSE
        /\ command = None
        /\ acted = FALSE
        /\ register = [r \in Register |-> 0]
        /\ process = "READY"
        /\ inReach = TRUE
        /\ trouble = 0
        /\ excused = {}
        /\ overtaken = {}

-----------------------------------------------------------------------------
\* What is due, and what is recent.

\* data_is_fresh, for the outcome of the last poll and the age of the last
\* good one.
IsFresh(ok, age) == ok \/ (age # None /\ age < StaleTicks)
Fresh == IsFresh(succeeded, successAge)

\* Entities are available while the data are fresh and there is a status.
Available == Fresh /\ status # None

\* The settings are due when they were never read, were invalidated, or were
\* read long ago (mutant: the age is not looked at).
NeverRead == settingsAge = None
SettingsDue == settingsAge = None \/ settingsAge >= SettingsTicks

\* A group that is due waits for the first refresh to be over (mutants: it
\* does not; the counters are never read again).
DueAtOnce(group) == IF group = "settings" THEN SettingsDue ELSE countersDue
Due(group) == firstDone /\ DueAtOnce(group)

\* What a register shows after a read that failed.
AfterFailure(r) == CASE OnFailure[r] = "cleared" -> None
                     [] OnFailure[r] = "kept"    -> shown[r]
                     [] OnFailure[r] = "default" -> Default

-----------------------------------------------------------------------------
\* The poll.

\* Entities are written when the coordinator tells its listeners, and a poll
\* tells them unless it fails after one that failed.
Tells(ok) == rendered' = IF ok \/ succeeded
                         THEN IsFresh(ok, successAge') /\ status' # None
                         ELSE rendered

Idle == phase' = "idle" /\ todo' = <<>> /\ polled' = None

\* The first refresh belongs to the setup of the entry, and when it fails its
\* coordinator is discarded.  ConfigEntryNotReady lets Home Assistant set the
\* entry up again, with a new one; a setup that was cancelled is not retried.
Discarded(next) == /\ ~firstDone
                   /\ phase' = next /\ todo' = <<>> /\ polled' = None
                   /\ status' = None
                   /\ typeKnown' = FALSE
                   /\ rendered' = FALSE
                   /\ UNCHANGED <<shown, schedule, history>>

\* UpdateFailed (mutant: the age of the last good poll starts over).
AgeRestarts == 0
AgeGoesOn == successAge
PollFails == \/ Discarded("idle")
             \/ /\ firstDone
                /\ Idle
                /\ UNCHANGED <<data, settingsAge, countersDue, firstDone, history>>
                /\ succeeded' = FALSE
                /\ successAge' = AgeGoesOn
                /\ Tells(FALSE)

\* CancelledError: the link was lost under a request of the poll itself.
PollCancelled == \/ Discarded("gone")
                 \/ /\ firstDone
                    /\ Idle
                    /\ UNCHANGED <<data, schedule, rendered, history>>

\* The poll runs from the end of one phase to the next request it has to
\* make, or to its end.  A group counts as read, and as no longer due, when
\* its last register has been read.
GoOn(from) ==
    LET next == IF from = "status" /\ ~typeKnown THEN "type"
                ELSE IF from \in {"status", "type"} /\ Due("settings")
                     THEN "settings"
                ELSE IF from # "counters" /\ Due("counters") THEN "counters"
                ELSE "idle"
    IN  /\ phase' = next
        /\ todo' = IF next \in Group THEN InGroup(next) ELSE <<>>
        /\ polled' = None
        /\ settingsAge' = IF from = "settings" THEN 0 ELSE settingsAge
        /\ countersDue' = IF from = "counters" THEN FALSE ELSE countersDue
        /\ IF next = "idle"
           THEN /\ firstDone' = TRUE
                /\ succeeded' = TRUE
                /\ successAge' = 0
                /\ Tells(TRUE)
           ELSE UNCHANGED <<firstDone, succeeded, successAge, rendered>>

\* The timer, or a command that asked for a refresh.  One that is asked for
\* while a poll runs is dropped, and the timer's comes later.
StartPoll == /\ phase = "idle"
             /\ phase' = "connect"
             /\ UNCHANGED <<todo, polled, data, schedule, rendered, calls,
                            environment, history>>

Connected == /\ phase = "connect"
             /\ inReach
             /\ phase' = "status"
             /\ UNCHANGED <<todo, polled, data, schedule, rendered, calls,
                            environment, history>>

StatusAnswered == /\ phase = "status"
                  /\ inReach
                  /\ polled = None
                  /\ polled' = process
                  /\ UNCHANGED <<phase, todo, data, schedule, rendered, calls,
                                 environment, history>>

\* The poll's task runs again; a status may have been pushed since.
AdoptStatus == /\ phase = "status"
               /\ polled # None
               /\ status' = polled
               /\ GoOn("status")
               /\ UNCHANGED <<typeKnown, shown, calls, environment, history>>

\* The type is asked for again by every poll until it is known.
ReadType(ok) == /\ phase = "type"
                /\ ok => inReach
                /\ typeKnown' = ok
                /\ UNCHANGED <<status, shown, calls, register, process, inReach,
                               history>>
                /\ GoOn("type")

\* One register of a group.  No failure of a read ends the poll, a lost link
\* included: _safe_read_numerical and _async_refresh_profiles take every
\* MachineError for "no value", and MelittaConnectionError is one.
Read(ok) ==
    /\ phase \in Group
    /\ ok => inReach
    /\ LET r == Head(todo)
       IN  /\ shown' = [shown EXCEPT ![r] = IF ok THEN register[r]
                                            ELSE AfterFailure(r)]
           /\ excused' = IF ok THEN excused \ {r} ELSE excused \cup {r}
           /\ overtaken' = overtaken \ {r}
    /\ UNCHANGED <<status, typeKnown, calls, register, process, inReach>>
    /\ IF Len(todo) = 1 THEN GoOn(phase)
       ELSE /\ todo' = Tail(todo)
            /\ UNCHANGED <<phase, polled, schedule, rendered>>

\* A failure is trouble, unless the machine is out of reach anyway.
Spend == trouble' = IF inReach THEN trouble + 1 ELSE trouble
Affordable == inReach => trouble < MaxTrouble

ReadFails == /\ Affordable /\ Spend
             /\ Read(FALSE) \/ ReadType(FALSE)

ReadSucceeds == /\ Read(TRUE) \/ ReadType(TRUE)
                /\ UNCHANGED trouble

\* No connection, or no status: the poll fails.
NoAnswer == /\ Affordable /\ Spend
            /\ phase = "connect" \/ (phase = "status" /\ polled = None)
            /\ PollFails
            /\ UNCHANGED <<calls, register, process, inReach>>

\* The link drops while a request of the poll waits for its answer.
LinkLost == /\ trouble < MaxTrouble
            /\ trouble' = trouble + 1
            /\ phase \notin {"idle", "gone"} /\ polled = None
            /\ inReach' \in {TRUE, FALSE}
            /\ PollCancelled
            /\ UNCHANGED <<calls, register, process>>

-----------------------------------------------------------------------------
\* Pushed statuses, and everything else that tells the listeners.

Push == /\ inReach /\ phase \notin {"connect", "gone"}
        /\ status # process
        /\ status' = process
        /\ rendered' = (firstDone /\ Fresh)
        /\ UNCHANGED <<phase, todo, polled, typeKnown, shown, schedule, calls,
                       environment, history>>

\* A setting is staged, or a drink selected.
Touch == /\ firstDone
         /\ rendered' = Available
         /\ UNCHANGED <<phase, todo, polled, data, schedule, calls, environment,
                        history>>

-----------------------------------------------------------------------------
\* Commands: an entity or a service asks, the machine acts, the command
\* returns, invalidates what it may have changed, and asks for a refresh.

Ask(c) == /\ firstDone
          /\ command = None
          /\ command' = c
          /\ acted' = FALSE
          /\ UNCHANGED <<phase, todo, polled, data, schedule, rendered,
                         environment, history>>

Changes(rs) == /\ \A r \in rs : register[r] < MaxChanges
               /\ register' = [r \in Register |-> IF r \in rs THEN register[r] + 1
                                                  ELSE register[r]]
               /\ excused' = excused \cup rs
               /\ overtaken' = overtaken \ rs

Begins == process = "READY" /\ process' = "BUSY"

Act == /\ command # None /\ ~acted /\ inReach
       /\ acted' = TRUE
       /\ \/ command = "write" /\ Changes({Written}) /\ UNCHANGED process
          \/ command = "brew" /\ Begins /\ UNCHANGED <<register, history>>
       /\ UNCHANGED <<phase, todo, polled, data, schedule, rendered, command,
                      inReach, trouble>>

\* async_start_care and async_cancel look at the last status there is, which
\* need not be the machine's.  All their return does is ask for a refresh.
StartCare == /\ firstDone
             /\ status \in {None, "READY"}
             /\ inReach /\ Begins
             /\ UNCHANGED <<phase, todo, polled, data, schedule, rendered, calls,
                            register, inReach, trouble, history>>

Cancel == /\ firstDone
          /\ status # None
          /\ inReach /\ process = "BUSY"
          /\ process' = "READY"
          /\ UNCHANGED <<phase, todo, polled, data, schedule, rendered, calls,
                         register, inReach, trouble, history>>

\* The group a command changes, and what it invalidates (mutant: a write
\* invalidates nothing).
Concerns(c) == IF c = "brew" THEN "counters" ELSE "settings"
BrewsOnly(c) == IF c = "brew" THEN {"counters"} ELSE {}
Invalidated(c) == IF c = "brew" THEN {"counters"} ELSE {"settings"}

\* The end of a refresh that is under way overtakes the invalidation.
Return ==
    /\ command # None /\ acted
    /\ command' = None
    /\ acted' = FALSE
    /\ settingsAge' = IF "settings" \in Invalidated(command) THEN None
                      ELSE settingsAge
    /\ countersDue' = (countersDue \/ "counters" \in Invalidated(command))
    /\ LET group == SetOf(InGroup(Concerns(command)))
       IN  IF phase = Concerns(command)
           THEN overtaken' = overtaken \cup (excused \cap group) /\ UNCHANGED excused
           ELSE excused' = excused \ group /\ overtaken' = overtaken \ group
    /\ UNCHANGED <<phase, todo, polled, data, firstDone, succeeded, successAge,
                   rendered, environment>>

\* It fails: refused, not answered, or not connected; the machine may have
\* acted on it all the same.
Fail == /\ command # None
        /\ command' = None
        /\ acted' = FALSE
        /\ UNCHANGED <<phase, todo, polled, data, schedule, rendered,
                       environment, history>>

-----------------------------------------------------------------------------
\* The machine, and time.

\* What it does is over; a drink is counted then.
Finishes == /\ process = "BUSY"
            /\ process' = "READY"
            /\ \/ Changes(SetOf(Counters))
               \/ UNCHANGED <<register, history>>
            /\ UNCHANGED <<phase, todo, polled, data, schedule, rendered, calls,
                           inReach, trouble>>

\* Somebody changes a setting at the machine, or makes a drink there.
AtTheMachine ==
    /\ trouble < MaxTrouble
    /\ trouble' = trouble + 1
    /\ \/ \E r \in SetOf(Settings) : Changes({r}) /\ UNCHANGED process
       \/ Begins /\ UNCHANGED <<register, history>>
    /\ UNCHANGED <<phase, todo, polled, data, schedule, rendered, calls, inReach>>

Leaves == /\ inReach /\ trouble < MaxTrouble
          /\ inReach' = FALSE
          /\ trouble' = trouble + 1
          /\ UNCHANGED <<phase, todo, polled, data, schedule, rendered, calls,
                         register, process, history>>

ComesBack == /\ ~inReach
             /\ inReach' = TRUE
             /\ UNCHANGED <<phase, todo, polled, data, schedule, rendered, calls,
                            register, process, trouble, history>>

Older(age, limit) == IF age = None \/ age = limit THEN age ELSE age + 1

Tick == /\ settingsAge' = Older(settingsAge, SettingsTicks)
        /\ successAge' = Older(successAge, StaleTicks)
        /\ UNCHANGED <<phase, todo, polled, data, countersDue, firstDone,
                       succeeded, rendered, calls, environment, history>>

-----------------------------------------------------------------------------
PollStep == \/ Connected \/ StatusAnswered \/ AdoptStatus
            \/ ReadSucceeds \/ ReadFails \/ NoAnswer \/ LinkLost

Next == \/ StartPoll \/ PollStep
        \/ Push \/ Touch
        \/ \E c \in Command : Ask(c)
        \/ Act \/ Return \/ Fail \/ StartCare \/ Cancel
        \/ Finishes \/ AtTheMachine \/ Leaves \/ ComesBack
        \/ Tick

Spec == Init /\ [][Next]_vars

\* The timer starts polls, requests end at their timeouts, time goes on, and
\* the machine finishes what it does.
FairSpec == /\ Spec
            /\ WF_vars(StartPoll)
            /\ WF_vars(PollStep)
            /\ WF_vars(Act \/ Return \/ Fail)
            /\ WF_vars(Finishes)
            /\ WF_vars(Tick)

-----------------------------------------------------------------------------
\* Properties.

IsSuffix(s, group) == \E i \in 1 .. Len(group) : s = SubSeq(group, i, Len(group))

\* Type correctness.  A poll is at a register of its group, no group is read
\* before the first refresh is over, and only a read that failed shows
\* the default it has.
TypeOK ==
    /\ phase \in {"idle", "connect", "status", "type", "gone"} \cup Group
    /\ IF phase \in Group THEN firstDone /\ IsSuffix(todo, InGroup(phase))
       ELSE todo = <<>>
    /\ polled \in Process \cup {None}
    /\ polled # None => phase = "status"
    /\ status \in Process \cup {None}
    /\ typeKnown \in BOOLEAN
    /\ shown \in [Register -> 0 .. MaxChanges \cup {None, Default}]
    /\ \A r \in Register : shown[r] = Default => OnFailure[r] = "default"
    /\ settingsAge \in 0 .. SettingsTicks \cup {None}
    /\ successAge \in 0 .. StaleTicks \cup {None}
    /\ countersDue \in BOOLEAN /\ firstDone \in BOOLEAN
    /\ succeeded \in BOOLEAN /\ rendered \in BOOLEAN
    /\ firstDone <=> successAge # None
    /\ command \in Command \cup {None} /\ acted \in BOOLEAN
    /\ register \in [Register -> 0 .. MaxChanges]
    /\ process \in Process
    /\ inReach \in BOOLEAN
    /\ trouble \in 0 .. MaxTrouble
    /\ excused \subseteq Register
    /\ overtaken \subseteq excused

\* coordinator.py:251 and 256: "Force the next poll to re-read the settings
\* registers", "the cup counters".  A value that nothing will read again is
\* behind the machine only with an excuse: it was changed at the machine, its
\* last read failed, or the command that changed it has not returned or has
\* failed (coordinator.py:162-193, 470, 499, 537, 545).
BehindOnlyWithExcuse ==
    \A g \in Group : \A r \in SetOf(InGroup(g)) :
        firstDone /\ ~Due(g) /\ phase # g /\ r \notin excused \ overtaken =>
            shown[r] = register[r]

\* What is true of it: a command that returns while its group is being read
\* is all that breaks that promise.
BehindOnlyIfOvertaken ==
    \A g \in Group : \A r \in SetOf(InGroup(g)) :
        firstDone /\ ~Due(g) /\ phase # g /\ r \notin excused =>
            shown[r] = register[r]

\* The inductive invariant: a group that is being read is due until its end,
\* and the values read of it so far are the machine's, or excused.
DueWhileRead ==
    /\ ~firstDone => settingsAge = None /\ countersDue
    /\ phase \in Group => DueAtOnce(phase)

ReadSoFar ==
    phase \in Group =>
        \A r \in SetOf(InGroup(phase)) :
            r \notin SetOf(todo) /\ r \notin excused => shown[r] = register[r]

IInv == TypeOK /\ BehindOnlyIfOvertaken /\ DueWhileRead /\ ReadSoFar

\* A machine that stays in reach and idle is shown as it is: the settings are
\* read again every so often, which heals whatever failed, was changed at the
\* machine or was invalidated in vain, and a polled status that replaced a
\* newer one is replaced by the next (coordinator.py:162-172, 184-187); unless
\* the setup of the entry was cancelled, which nothing repeats.
SettingsSettle ==
    <>[](inReach /\ process = "READY" /\ phase # "gone") =>
        <>[](/\ \A r \in SetOf(Settings) : shown[r] = register[r]
             /\ status = process)

\* The data of a machine that stays away stop being fresh, whichever way
\* its polls fail (coordinator.py:199-206).
AbsenceNoticed == <>[](~inReach) => <>[](~Available)

\* test_init.py:640-643: a machine that stays away does go unavailable,
\* "Holding the last reading for ever would be worse than saying nothing".
\* README.md:24-25: "simply unavailable until it wakes up".
GoesUnavailable == <>[](~inReach) => <>[](~rendered)
=============================================================================
