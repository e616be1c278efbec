------------------------------ MODULE Recipes ------------------------------
(***************************************************************************)
(* The values a drink is made from: recipe components, the overrides a     *)
(* brew applies to them, the settings staged in Home Assistant, and the    *)
(* identifiers of recipes, profiles and registers.  Pure operators, used   *)
(* by BrewSequence; BrewSequenceProofs proves facts about them.            *)
(* Of a component the fields a brew can change are kept.                   *)
(***************************************************************************)
EXTENDS Integers, Sequences

CONSTANT None       \* "not given"

Byte == 0..255
PortionStep == 5                \* PORTION_STEP_ML
Intensities == 0..4
Temperatures == 0..2
Blends == 0..2                  \* 0: the recipe's own hopper
Component == [intensity : Byte, temperature : Byte, portion : Byte,
              blend : Byte]
Settings == [intensity : Intensities, temperature : Temperatures, ml : Nat,
             blend : Blends, cups : BOOLEAN]

-----------------------------------------------------------------------------
\* Identifiers.

Profiles == 0..8                \* 0 is "My Coffee"
Categories == 0..6
MenuSlots == 200..223
ProfileSlot(profile, category) == 302 + 10 * profile + category
ProfileNameId(profile) == 310 + 10 * (profile - 1)
ScratchSlot == 400
LabelSlot == 401
CounterId(type) == 100 + type
TotalCupsId == 150

\* The recipe_key byte that goes with a recipe_type when a recipe is written.
RecipeKey(type) ==
    CASE type \in 0..4   -> 0
      [] type \in 5..12  -> 1
      [] type \in 13..17 -> 2
      [] type \in 18..20 -> 3
      [] type = 21       -> 5
      [] type = 22       -> 4
      [] type = 23       -> 6
      [] OTHER           -> 7

\* What the machine shows while it brews: the name of the drink, or of the
\* direct key.
DrinkName(slot) == <<"drink", slot>>
KeyName(category) == <<"key", category>>
LabelOf(slot) == IF slot \in MenuSlots THEN DrinkName(slot)
                 ELSE KeyName((slot - 302) % 10)

-----------------------------------------------------------------------------
\* Overrides and staged settings.

Given(value, default) == IF value = None THEN default ELSE value

\* The portion byte for a cup of ml millilitres.
PortionByte(ml) ==
    LET steps == (ml + 2) \div PortionStep
    IN  IF steps < 1 THEN 1 ELSE IF steps > 255 THEN 255 ELSE steps

\* _apply_overrides: blend 0 counts as not given.
Overridden(c, o) ==
    [intensity   |-> Given(o.intensity, c.intensity),
     temperature |-> Given(o.temperature, c.temperature),
     portion     |-> IF o.ml = None THEN c.portion ELSE PortionByte(o.ml),
     blend       |-> IF o.blend \in {None, 0} THEN c.blend ELSE o.blend]

NoOverride == [intensity |-> None, temperature |-> None, ml |-> None,
               blend |-> None]

\* The second component of a drink only takes the hopper.
OnlyBlend(o) == [NoOverride EXCEPT !.blend = o.blend]

\* The overrides of a brew: what the call gives, else what is staged.
Filled(call, s) ==
    [intensity   |-> Given(call.intensity, s.intensity),
     temperature |-> Given(call.temperature, s.temperature),
     ml          |-> Given(call.ml, s.ml),
     blend       |-> IF Given(call.blend, s.blend) = 0 THEN None
                     ELSE Given(call.blend, s.blend)]

\* seed_from: the values of a component are adopted, but one that has no
\* name here is passed over (mutant: it is adopted).
SeedsAnything(s, c) ==
    [s EXCEPT !.intensity = c.intensity, !.temperature = c.temperature,
              !.ml = c.portion * PortionStep]
Seeded(s, c) ==
    [s EXCEPT
        !.intensity = IF c.intensity \in Intensities THEN c.intensity ELSE @,
        !.temperature = IF c.temperature \in Temperatures THEN c.temperature
                        ELSE @,
        !.ml = c.portion * PortionStep]

\* A component whose values all have a name in Home Assistant, and that
\* dispenses something.
Nameable(c) == /\ c.intensity \in Intensities
               /\ c.temperature \in Temperatures
               /\ c.portion > 0

-----------------------------------------------------------------------------
\* Profile labels.  A name is a sequence; a number appended to it, or a
\* placeholder's number, is one more element.

Placeholder(profile) == <<"Profile", "", profile>>
Numbered(name, profile) == name \o <<profile>>

\* The label of a profile in the selector: its name, numbered when a profile
\* before it has the same one.
OptionOf(names, profile) ==
    IF \E q \in DOMAIN names : q < profile /\ names[q] = names[profile]
    THEN Numbered(names[profile], profile)
    ELSE names[profile]

\* profile_for_option: the first profile that has this label, else None.
ProfileFor(names, option) ==
    LET same == {p \in DOMAIN names : OptionOf(names, p) = option}
    IN  IF same = {} THEN None
        ELSE CHOOSE p \in same : \A q \in same : p <= q

\* No name reads like another profile's name with a number appended.
NoLookalike(names) ==
    \A p, q \in DOMAIN names : names[p] # Numbered(names[q], q)
=============================================================================
