---------------------------- MODULE BrewSequence ----------------------------
(***************************************************************************)
(* Selecting and brewing a drink.                                          *)
(*                                                                         *)
(* A selection reads the recipe of the drink and stages its settings.  A   *)
(* brew is four requests: read the stored recipe (HC), write it with the   *)
(* overrides into the machine's one scratch slot (HJ), write the name the  *)
(* machine shows (HB), start the process (HE); it sleeps between them, and *)
(* no lock covers the sequence.  Requests exclude one another, but an      *)
(* answer may come after its request was given up, and acknowledgements    *)
(* do not say what they acknowledge.                                       *)
(*                                                                         *)
(* Each task performs one operation.  The machine and the link are the     *)
(* environment: it may be deaf to a request, refuse a write, answer late,  *)
(* and the link may drop and come back between two steps.                  *)
(***************************************************************************)
EXTENDS Recipes, FiniteSets

CONSTANTS
    Task,
    Menu,           \* slots the Drink selector offers
    Keys,           \* slots of the profiles' direct keys
    Stored,         \* what the machine has stored in each slot
    Calls,          \* what a service call may give
    Edits,          \* settings the user may stage
    MaxWire         \* commands and answers under way, each

Slots == Menu \cup Keys
Cup == [key : 0..7, c1 : Component, c2 : Component]
Recipe == [type : Byte, c1 : Component, c2 : Component]
Override == [intensity : Intensities \cup {None},
             temperature : Temperatures \cup {None},
             ml : Nat \cup {None}, blend : Blends \cup {None}]
Call == [overrides : Override, cups : BOOLEAN \cup {None}]
Label == {"drink", "key"} \X Int
Drinks == [cup : Cup, name : Label \cup {None}, cups : BOOLEAN]

ASSUME NoneIsNoValue ==
    None \notin Int \cup BOOLEAN \cup Task \cup Recipe \cup Drinks
ASSUME SlotsAreIds == Slots \subseteq Int /\ Menu # {} /\ Keys # {}
ASSUME StoredType == Stored \in [Slots -> Recipe]
ASSUME CallsType == Calls \subseteq Call
ASSUME EditsType == Edits \subseteq Settings
ASSUME WireIsBounded == MaxWire \in Nat \ {0}

VARIABLES
    op,             \* the operation each task performs
    at,             \* the request of it the task is at
    held,           \* the recipe a brew has read
    lock,           \* the task whose request is out
    inbox,          \* commands on their way to the machine
    outbox,         \* answers on their way back
    up,             \* the session is usable
    settings,       \* coordinator.brew_settings
    selected,       \* the slot each selector shows
    scratch,        \* slot 400, and who wrote it
    label,          \* slot 401, and who wrote it
    made,           \* the drink each brew had the machine make
    source,         \* history: the slot the settings were staged from
    crossed         \* history: operations another one has disturbed

vars == <<op, at, held, lock, inbox, outbox, up, settings, selected,
          scratch, label, made, source, crossed>>
machine == <<scratch, label, made>>

NoOp == [kind |-> "none", slot |-> None, overrides |-> NoOverride,
         cups |-> FALSE]
Steps == {"read", "copy", "name", "start"}
Ends == {"idle", "done", "failed"}
Unwritten == [by |-> None, is |-> None]

Init == /\ op = [t \in Task |-> NoOp]
        /\ at = [t \in Task |-> "idle"]
        /\ held = [t \in Task |-> None]
        /\ lock = None
        /\ inbox = <<>>
        /\ outbox = <<>>
        /\ up = TRUE
        /\ settings = [intensity |-> 2, temperature |-> 1, ml |-> 40,
                       blend |-> 0, cups |-> FALSE]
        /\ selected = [menu  |-> CHOOSE s \in Menu : TRUE,
                       keys  |-> CHOOSE s \in Keys : TRUE]
        /\ scratch = Unwritten
        /\ label = Unwritten
        /\ made = [t \in Task |-> None]
        /\ source = None
        /\ crossed = {}

-----------------------------------------------------------------------------
\* What is asked for.

Selecting(t) == op[t].kind = "select" /\ at[t] = "read"

\* What the brew of t writes into the scratch slot, given the recipe it read
\* (mutant: the hopper of the second component is left as it is).
CupOneHopper(t, recipe) ==
    [key |-> RecipeKey(recipe.type),
     c1  |-> Overridden(recipe.c1, op[t].overrides),
     c2  |-> recipe.c2]
CupFrom(t, recipe) ==
    [key |-> RecipeKey(recipe.type),
     c1  |-> Overridden(recipe.c1, op[t].overrides),
     c2  |-> Overridden(recipe.c2, OnlyBlend(op[t].overrides))]

Drink(cup, name, cups) == [cup |-> cup, name |-> name, cups |-> cups]

\* What the user asked for, whatever happens on the way.
Asked(t) ==
    LET stored == Stored[op[t].slot]
        wishes == op[t].overrides
    IN  Drink([key |-> RecipeKey(stored.type),
               c1  |-> Overridden(stored.c1, wishes),
               c2  |-> Overridden(stored.c2, OnlyBlend(wishes))],
              LabelOf(op[t].slot), op[t].cups)

Begin(t, operation) ==
    /\ at[t] = "idle"
    /\ op' = [op EXCEPT ![t] = operation]
    /\ at' = [at EXCEPT ![t] = "read"]

\* async_select_drink, async_select_profile and async_select_profile_drink:
\* the selection shows at once, its recipe is read then.
Select(t, selector, slot) ==
    /\ Begin(t, [NoOp EXCEPT !.kind = "select", !.slot = slot])
    /\ selected' = [selected EXCEPT ![selector] = slot]
    /\ source' = IF \E u \in Task : Selecting(u) THEN None ELSE slot
    /\ UNCHANGED <<held, lock, inbox, outbox, up, settings, crossed, machine>>

\* async_brew and async_brew_profile, from a button or a service: what the
\* call leaves open comes from the selectors and from the staged settings.
Brew(t, slot, call) ==
    /\ Begin(t, [kind |-> "brew", slot |-> slot,
                 overrides |-> Filled(call.overrides, settings),
                 cups |-> Given(call.cups, settings.cups)])
    /\ UNCHANGED <<held, lock, inbox, outbox, up, settings, selected, source,
                   crossed, machine>>

\* async_press_direct_key: nothing staged is applied.
PressKey(t, slot) ==
    /\ Begin(t, [NoOp EXCEPT !.kind = "brew", !.slot = slot])
    /\ UNCHANGED <<held, lock, inbox, outbox, up, settings, selected, source,
                   crossed, machine>>

\* The strength, temperature, hopper, portion and two-cups entities.
Stage(edit) ==
    /\ settings' = edit
    /\ source' = None
    /\ UNCHANGED <<op, at, held, lock, inbox, outbox, up, selected, crossed,
                   machine>>

Ask(t) ==
    \/ \E slot \in Menu : Select(t, "menu", slot)
    \/ \E slot \in Keys : Select(t, "keys", slot)
    \/ \E slot \in Slots, call \in Calls : Brew(t, slot, call)
    \/ \E slot \in Keys : PressKey(t, slot)

-----------------------------------------------------------------------------
\* The requests of an operation.

\* Read, then write, name and start.
NextOf(step) == CASE step = "read"  -> "copy"
                  [] step = "copy"  -> "name"
                  [] step = "name"  -> "start"
                  [] step = "start" -> "done"

Command(t) ==
    [by |-> t, step |-> at[t],
     arg |-> CASE at[t] = "read"  -> op[t].slot
               [] at[t] = "copy"  -> CupFrom(t, held[t])
               [] at[t] = "name"  -> LabelOf(op[t].slot)
               [] at[t] = "start" -> op[t].cups]

\* The request is written: it waits for its answer, others wait for the lock.
Send(t) ==
    /\ at[t] \in Steps
    /\ lock = None
    /\ up
    /\ Len(inbox) < MaxWire
    /\ lock' = t
    /\ inbox' = Append(inbox, Command(t))
    /\ UNCHANGED <<op, at, held, outbox, up, settings, selected, source,
                   crossed, machine>>

\* Every way a request ends gives the lock back (mutant: it is kept).
LockKept == lock
Released == None

\* An operation that fails reports it, and leaves what it has written (mutant:
\* it tries its request again).
TriesAgain(t) == at' = at /\ source' = source
Fails(t) ==
    /\ at' = [at EXCEPT ![t] = "failed"]
    /\ source' = IF Selecting(t) THEN None ELSE source

\* There is no session when a step is due, and none can be had.
NotConnected(t) ==
    /\ at[t] \in Steps
    /\ lock = None
    /\ ~up
    /\ Fails(t)
    /\ UNCHANGED <<op, held, lock, inbox, outbox, up, settings, selected,
                   crossed, machine>>

TimeOut(t) ==
    /\ lock = t
    /\ lock' = Released
    /\ Fails(t)
    /\ UNCHANGED <<op, held, inbox, outbox, up, settings, selected, crossed,
                   machine>>

\* The answer a step waits for: acknowledgements name no command.
WaitKey(step) == IF step = "read" THEN "HC" ELSE "A"

\* A step whose answer is a refusal fails (mutant: it goes on).
NeverRefused(answer) == TRUE
Accepted(answer) == answer.ok

Resolve(t, answer) ==
    /\ lock' = Released
    /\ crossed' = IF answer.by = t /\ answer.step = at[t] THEN crossed
                  ELSE crossed \cup {t}
    /\ IF ~Accepted(answer) THEN Fails(t) /\ UNCHANGED <<held, settings>>
       ELSE IF Selecting(t)
       THEN /\ settings' = Seeded(settings, answer.recipe.c1)
            /\ at' = [at EXCEPT ![t] = "done"]
            /\ source' = IF answer.by = t THEN source ELSE None
            /\ UNCHANGED held
       ELSE /\ at' = [at EXCEPT ![t] = NextOf(at[t])]
            /\ held' = IF at[t] = "read"
                       THEN [held EXCEPT ![t] = answer.recipe] ELSE held
            /\ UNCHANGED <<settings, source>>

\* An answer arrives: the request that waits for its key gets it.
Deliver ==
    /\ outbox # <<>>
    /\ LET answer == Head(outbox)
       IN  IF lock # None /\ WaitKey(at[lock]) = WaitKey(answer.step)
           THEN Resolve(lock, answer)
           ELSE UNCHANGED <<at, held, lock, settings, source, crossed>>
    /\ outbox' = Tail(outbox)
    /\ UNCHANGED <<op, inbox, up, selected, machine>>

\* _on_disconnect: the session and what is under way on it are gone.
Drop ==
    /\ up
    /\ up' = FALSE
    /\ inbox' = <<>>
    /\ outbox' = <<>>
    /\ lock' = None
    /\ IF lock = None THEN UNCHANGED <<at, source>> ELSE Fails(lock)
    /\ UNCHANGED <<op, held, settings, selected, crossed, machine>>

\* A poll, or the next operation, opens a session again.
Reconnect ==
    /\ ~up
    /\ up' = TRUE
    /\ UNCHANGED <<op, at, held, lock, inbox, outbox, settings, selected,
                   source, crossed, machine>>

-----------------------------------------------------------------------------
\* The machine.

Answer(command, ok) ==
    [by |-> command.by, step |-> command.step, ok |-> ok,
     recipe |-> IF command.step = "read" THEN Stored[command.arg] ELSE None]

Replies(command, ok) ==
    /\ Len(outbox) < MaxWire
    /\ outbox' = Append(outbox, Answer(command, ok))

\* Overwriting what another brew has written disturbs that brew.
Overwritten(slot, t) ==
    IF slot.by = None \/ slot.by = t THEN {}
    ELSE IF made[slot.by] = None THEN {slot.by} ELSE {}

\* The machine carries a command out, and acknowledges a start even when it
\* has nothing in its scratch slot.
CarriesOut ==
    /\ inbox # <<>>
    /\ LET command == Head(inbox)
       IN  /\ Replies(command, TRUE)
           /\ CASE command.step = "read" -> UNCHANGED <<machine, crossed>>
                [] command.step = "copy" ->
                     /\ scratch' = [by |-> command.by, is |-> command.arg]
                     /\ crossed' = crossed \cup Overwritten(scratch, command.by)
                     /\ UNCHANGED <<label, made>>
                [] command.step = "name" ->
                     /\ label' = [by |-> command.by, is |-> command.arg]
                     /\ crossed' = crossed \cup Overwritten(label, command.by)
                     /\ UNCHANGED <<scratch, made>>
                [] command.step = "start" ->
                     /\ made' = IF scratch = Unwritten THEN made
                                ELSE [made EXCEPT ![command.by] =
                                        Drink(scratch.is, label.is,
                                              command.arg)]
                     /\ UNCHANGED <<scratch, label, crossed>>
    /\ inbox' = Tail(inbox)
    /\ UNCHANGED <<op, at, held, lock, up, settings, selected, source>>

\* The machine refuses a write: it is busy, say.
Refuses ==
    /\ inbox # <<>>
    /\ Head(inbox).step # "read"
    /\ Replies(Head(inbox), FALSE)
    /\ inbox' = Tail(inbox)
    /\ UNCHANGED <<op, at, held, lock, up, settings, selected, source, crossed,
                   machine>>

\* A command or an answer gets lost.
LoseCommand ==
    /\ inbox # <<>>
    /\ inbox' = Tail(inbox)
    /\ UNCHANGED <<op, at, held, lock, outbox, up, settings, selected, source,
                   crossed, machine>>

LoseAnswer ==
    /\ outbox # <<>>
    /\ outbox' = Tail(outbox)
    /\ UNCHANGED <<op, at, held, lock, inbox, up, settings, selected, source,
                   crossed, machine>>

-----------------------------------------------------------------------------
Next == \/ \E t \in Task : \/ Ask(t) \/ Send(t) \/ NotConnected(t) \/ TimeOut(t)
        \/ \E edit \in Edits : Stage(edit)
        \/ Deliver \/ Drop \/ Reconnect
        \/ CarriesOut \/ Refuses \/ LoseCommand \/ LoseAnswer

Spec == Init /\ [][Next]_vars

\* A request ends at its timeout at the latest, a task goes on, and a command
\* does not stay on its way.
FairSpec ==
    /\ Spec
    /\ \A t \in Task : WF_vars(Send(t) \/ NotConnected(t) \/ TimeOut(t))
    /\ WF_vars(CarriesOut \/ Refuses \/ LoseCommand)
    /\ WF_vars(Deliver \/ LoseAnswer)

-----------------------------------------------------------------------------
\* Properties.

Operation == [kind : {"none", "select", "brew"}, slot : Slots \cup {None},
              overrides : Override, cups : BOOLEAN]
CommandType == [by : Task, step : {"read"}, arg : Slots] \cup
               [by : Task, step : {"copy"}, arg : Cup] \cup
               [by : Task, step : {"name"}, arg : Label] \cup
               [by : Task, step : {"start"}, arg : BOOLEAN]
AnswerType == [by : Task, step : Steps, ok : BOOLEAN, recipe : Recipe \cup {None}]

\* Type correctness.  What a brew holds is a recipe from its copy on, and the
\* lock's owner is at one of its requests.
TypeOK ==
    /\ op \in [Task -> Operation]
    /\ at \in [Task -> Steps \cup Ends]
    /\ held \in [Task -> Recipe \cup {None}]
    /\ \A t \in Task : /\ at[t] # "idle" => op[t].slot \in Slots
                       /\ at[t] \in Steps \ {"read"} => held[t] # None
    /\ lock \in Task \cup {None}
    /\ lock # None => at[lock] \in Steps
    /\ inbox \in Seq(CommandType) /\ Len(inbox) <= MaxWire
    /\ outbox \in Seq(AnswerType) /\ Len(outbox) <= MaxWire
    /\ up \in BOOLEAN
    /\ settings \in Settings
    /\ selected \in [menu : Menu, keys : Keys]
    /\ scratch \in [by : Task, is : Cup] \cup {Unwritten}
    /\ label \in [by : Task, is : Label] \cup {Unwritten}
    /\ made \in [Task -> Drinks \cup {None}]
    /\ source \in Slots \cup {None}
    /\ crossed \subseteq Task

\* A brew nobody has disturbed makes what was asked for: the stored recipe
\* with the overrides, under its own name, in as many cups.  It covers the
\* four requests of MelittaMachine.brew, their order and their failures.
RightDrink ==
    \A t \in Task \ crossed : made[t] # None => made[t] = Asked(t)

\* A brew that reports success has been made, unless an acknowledgement that
\* was not its own has led it on.
DoneMeansMade ==
    \A t \in Task \ crossed :
        op[t].kind = "brew" /\ at[t] = "done" => made[t] # None

\* Brewing with what is staged is brewing component c as it is stored, the
\* hopper excepted, which is not staged from the recipe.
ChangesNothing(c) ==
    Overridden(c, Filled(NoOverride, settings)) =
        [c EXCEPT !.blend = IF settings.blend = 0 THEN @ ELSE settings.blend]

\* coordinator.py:63-67: the settings "are seeded from the machine whenever the
\* selected drink changes, so "no override" and "the machine's own value" stay
\* the same thing".  When the selections of drinks have ended, that of the
\* selected drink well, and nobody has staged anything or selected a direct
\* key, what is staged is what the machine has stored for the selected drink.
StagedIsSelected ==
    /\ Edits = {}
    /\ \A t \in Task : op[t].kind = "select" => op[t].slot \in Menu /\ ~Selecting(t)
    /\ \E t \in Task : op[t].kind = "select" /\ at[t] = "done"
                       /\ op[t].slot = selected.menu
    => ChangesNothing(Stored[selected.menu].c1)

\* What is true of it: a selection that no other one overtook or was overtaken
\* by, which got the answer to its own read, stages the values of that recipe
\* if they all have a name.  It takes seed_from, the call's defaults and
\* _apply_overrides to agree.
StagedIsStored ==
    source # None /\ (\A t \in Task : ~Selecting(t)) =>
        (Nameable(Stored[source].c1) => ChangesNothing(Stored[source].c1))

\* The inductive invariant.  A command is sent once, and its sender still
\* waits for the answer or has gone on; its argument is the operation's.
Past(step) == CASE step = "read"  -> {"copy", "name", "start", "done", "failed"}
                [] step = "copy"  -> {"name", "start", "done", "failed"}
                [] step = "name"  -> {"start", "done", "failed"}
                [] step = "start" -> {"done", "failed"}
Sent(t, step) == at[t] \in Past(step) \/ (at[t] = step /\ lock = t)
ArgOf(t, step) == CASE step = "read"  -> op[t].slot
                    [] step = "copy"  -> Asked(t).cup
                    [] step = "name"  -> Asked(t).name
                    [] step = "start" -> op[t].cups

Is(message, t, step) == message.by = t /\ message.step = step
OnItsWay(t, step) == \E i \in 1 .. Len(inbox) : Is(inbox[i], t, step)
Confirmed(t, step) ==
    \E i \in 1 .. Len(outbox) : Is(outbox[i], t, step) /\ outbox[i].ok

SentOnce ==
    \A t \in Task, step \in Steps :
        /\ \A i \in 1 .. Len(inbox) :
              Is(inbox[i], t, step) =>
                 /\ Sent(t, step)
                 /\ t \notin crossed \/ step = "read" => inbox[i].arg = ArgOf(t, step)
                 /\ \A j \in 1 .. Len(inbox) : Is(inbox[j], t, step) => i = j
        /\ \A i \in 1 .. Len(outbox) :
              Is(outbox[i], t, step) =>
                 /\ Sent(t, step)
                 /\ step = "read" => outbox[i].recipe = Stored[op[t].slot]

\* What a brew has written stays until it is made, unless it is crossed.
HasCopied(t) == \/ at[t] \in {"name", "start"}
                \/ Confirmed(t, "copy")
                \/ OnItsWay(t, "name") \/ OnItsWay(t, "start")
HasNamed(t) == at[t] = "start" \/ Confirmed(t, "name") \/ OnItsWay(t, "start")

Written ==
    \A t \in Task \ crossed :
        /\ at[t] \in Steps \ {"read"} => held[t] = Stored[op[t].slot]
        /\ made[t] = None /\ HasCopied(t) => scratch = [by |-> t, is |-> Asked(t).cup]
        /\ made[t] = None /\ HasNamed(t) => label = [by |-> t, is |-> Asked(t).name]
        /\ Confirmed(t, "start") => made[t] # None

MadeOnce == \A t \in Task : made[t] # None =>
                                Sent(t, "start") /\ ~OnItsWay(t, "start")

\* The settings come from one selection, which has ended or is the last one.
OneSource ==
    source # None =>
        /\ \A t, u \in Task : Selecting(t) /\ Selecting(u) => t = u
        /\ \A t \in Task : Selecting(t) => op[t].slot = source

IInv == /\ TypeOK /\ RightDrink /\ DoneMeansMade /\ StagedIsStored
        /\ SentOnce /\ Written /\ MadeOnce /\ OneSource

\* Nobody answers twice: while a task that is not crossed waits, what is under
\* way in its name is the command it has sent or the answer to it, and nothing
\* while it does not wait.
OwnAnswer ==
    \A t \in Task \ crossed : at[t] \in Steps =>
        /\ \A i \in 1 .. Len(inbox) :
              inbox[i].by = t => lock = t /\ inbox[i].step = at[t]
        /\ \A i \in 1 .. Len(outbox) :
              outbox[i].by = t =>
                 /\ lock = t /\ outbox[i].step = at[t]
                 /\ \A j \in 1 .. Len(outbox) : outbox[j].by = t => i = j
                 /\ \A j \in 1 .. Len(inbox) : inbox[j].by # t

\* Only a brew goes beyond its read, so only brews write and start.
OnlyBrews ==
    /\ \A t \in Task : /\ at[t] # "idle" => op[t].kind \in {"select", "brew"}
                       /\ at[t] \in Steps \ {"read"} => op[t].kind = "brew"
    /\ \A t \in Task, i \in 1 .. Len(inbox) :
          inbox[i].by = t /\ inbox[i].step # "read" => op[t].kind = "brew"

OrderInv == IInv /\ OwnAnswer /\ OnlyBrews

\* Selecting and brewing is what Orders promises: an order alone is made once
\* at most and as it was asked for, and nothing of its own disturbs it, be it
\* late, lost, refused or interrupted; so what RightDrink and DoneMeansMade
\* except is the doing of another operation.
Promise == INSTANCE Orders WITH
    asked     <- {t \in Task : at[t] # "idle"},
    order     <- [t \in Task |-> IF op[t].kind = "brew" THEN Asked(t) ELSE None],
    outcome   <- [t \in Task |-> IF at[t] \in {"done", "failed"} THEN at[t] ELSE "open"],
    disturbed <- crossed
KeepsPromise == Promise!Spec

\* Every operation ends: lost answers, refusals and drops included.
OperationsEnd ==
    \A t \in Task : at[t] \in Steps ~> at[t] \in {"done", "failed"}
=============================================================================
