------------------------- MODULE BrewSequenceProofs -------------------------
(***************************************************************************)
(* Proofs about BrewSequence, for every set of tasks, stored recipes,      *)
(* calls and edits, and every bound on the wire; and about the operators   *)
(* of Recipes it is built from.                                            *)
(***************************************************************************)
EXTENDS BrewSequence, WellFoundedInduction, TLAPS

-----------------------------------------------------------------------------
(* Facts about the operators of Recipes, for every component, setting,     *)
(* profile and name.                                                       *)

\* The portion byte is a byte and never nothing, whatever the cup size
\* (_apply_overrides clamps it).
LEMMA PortionIsAByte ==
    ASSUME NEW ml \in Nat
    PROVE  PortionByte(ml) \in 1..255
  BY DEF PortionByte, PortionStep

\* A portion read from the machine, shown in millilitres and written back is
\* the same byte (RecipeComponent.portion_ml and _apply_overrides).
LEMMA PortionReturns ==
    ASSUME NEW p \in 1..255
    PROVE  PortionByte(p * PortionStep) = p
  <1>1. (p * 5 + 2) \div 5 = p
    BY Z3
  <1> QED
    BY <1>1 DEF PortionByte, PortionStep

\* Brewing a drink with the settings staged from it changes nothing but the
\* hopper, whatever was staged before: seed_from, the defaults of
\* _async_brew_slot and _apply_overrides agree on every value that has a name.
THEOREM SeededChangesNothing ==
    ASSUME None \notin Int,
           NEW c \in Component, Nameable(c),
           NEW s \in Settings
    PROVE  Overridden(c, Filled(NoOverride, Seeded(s, c))) =
             [c EXCEPT !.blend = IF s.blend = 0 THEN @ ELSE s.blend]
  <1> DEFINE z == Seeded(s, c)
             o == Filled(NoOverride, z)
  <1>1. /\ z.intensity = c.intensity
        /\ z.temperature = c.temperature
        /\ z.ml = c.portion * PortionStep
        /\ z.blend = s.blend
    BY DEF Seeded, Settings, Nameable
  <1>2. /\ o.intensity = c.intensity
        /\ o.temperature = c.temperature
        /\ o.ml = c.portion * PortionStep
        /\ o.blend = IF s.blend = 0 THEN None ELSE s.blend
    BY <1>1 DEF Filled, NoOverride, Given
  <1>3. /\ c.intensity \in Int /\ c.temperature \in Int
        /\ c.portion \in 1..255 /\ c.portion * PortionStep \in Int
        /\ s.blend \in Int
    BY DEF Component, Byte, Nameable, PortionStep, Settings, Blends
  <1>4. PortionByte(o.ml) = c.portion
    BY <1>2, <1>3, PortionReturns
  <1>5. Overridden(c, o) =
          [intensity |-> c.intensity, temperature |-> c.temperature,
           portion |-> c.portion,
           blend |-> IF s.blend = 0 THEN c.blend ELSE s.blend]
    BY <1>2, <1>3, <1>4 DEF Overridden, Given
  <1>6. [c EXCEPT !.blend = IF s.blend = 0 THEN @ ELSE s.blend] =
          [intensity |-> c.intensity, temperature |-> c.temperature,
           portion |-> c.portion,
           blend |-> IF s.blend = 0 THEN c.blend ELSE s.blend]
    BY DEF Component
  <1> QED
    BY <1>5, <1>6

\* The slots a brew reads, the two it writes and the registers that hold
\* profile names are different, for every profile and direct key: no brew
\* overwrites what a profile stores (directkey_recipe_id, profile_name_id).
THEOREM SlotsApart ==
    ASSUME NEW p \in Profiles, NEW c \in Categories,
           NEW q \in Profiles \ {0}
    PROVE  /\ ProfileSlot(p, c) # ProfileNameId(q)
           /\ ProfileSlot(p, c) \notin MenuSlots
           /\ ProfileSlot(p, c) \notin {ScratchSlot, LabelSlot}
           /\ ProfileNameId(q) \notin {ScratchSlot, LabelSlot}
           /\ \A r \in Profiles, d \in Categories :
                ProfileSlot(p, c) = ProfileSlot(r, d) => p = r /\ c = d
  BY DEF ProfileSlot, ProfileNameId, MenuSlots, ScratchSlot, LabelSlot,
         Profiles, Categories

\* Appending numbers keeps names with different numbers apart.
LEMMA NumbersDiffer ==
    ASSUME NEW S, NEW a \in Seq(S), NEW b \in Seq(S),
           NEW p \in S, NEW q \in S, Numbered(a, p) = Numbered(b, q)
    PROVE  p = q
  <1> DEFINE x == Numbered(a, p)
             y == Numbered(b, q)
  <1>1. Len(x) = Len(a) + 1 /\ x[Len(a) + 1] = p
    BY DEF Numbered
  <1>2. Len(y) = Len(b) + 1 /\ y[Len(b) + 1] = q
    BY DEF Numbered
  <1>3. Len(a) = Len(b)
    BY <1>1, <1>2
  <1> QED
    BY <1>1, <1>2, <1>3

\* Two profiles never share a label of the selector, and a label leads back to
\* its profile, as long as no name reads like another one with its number
\* appended (profile_options, profile_for_option).
THEOREM LabelsApart ==
    ASSUME NEW S, Nat \subseteq S,
           NEW P \in SUBSET Nat, NEW names \in [P -> Seq(S)],
           NoLookalike(names),
           NEW p \in P, NEW q \in P,
           OptionOf(names, p) = OptionOf(names, q)
    PROVE  p = q
  <1> DEFINE Repeated(r) == \E o \in P : o < r /\ names[o] = names[r]
  <1>1. \A r \in P : OptionOf(names, r) =
                       IF Repeated(r) THEN Numbered(names[r], r) ELSE names[r]
    BY DEF OptionOf
  <1>2. \A r, o \in P : names[r] # Numbered(names[o], o)
    BY DEF NoLookalike
  <1>3. CASE Repeated(p) /\ Repeated(q)
    <2>1. Numbered(names[p], p) = Numbered(names[q], q)
      BY <1>1, <1>3
    <2> QED
      BY <2>1, NumbersDiffer
  <1>4. CASE Repeated(p) /\ ~Repeated(q)
    BY <1>1, <1>2, <1>4
  <1>5. CASE ~Repeated(p) /\ Repeated(q)
    BY <1>1, <1>2, <1>5
  <1>6. CASE ~Repeated(p) /\ ~Repeated(q)
    <2>1. names[p] = names[q]
      BY <1>1, <1>6
    <2>2. ~(p < q) /\ ~(q < p)
      BY <2>1, <1>6
    <2> QED
      BY <2>2
  <1> QED
    BY <1>3, <1>4, <1>5, <1>6

\* Every nonempty set of natural numbers has a least element.
LEMMA LeastNumber ==
    ASSUME NEW T \in SUBSET Nat, T # {}
    PROVE  \E m \in T : \A k \in T : m <= k
  <1> DEFINE R == OpToRel(<, Nat)
  <1>1. IsWellFoundedOn(R, Nat)
    BY NatLessThanWellFounded
  <1>2. PICK m \in T : \A k \in T : ~(<<k, m>> \in R)
    <2> HIDE DEF R
    <2> QED BY <1>1, WFMin
  <1>3. \A k \in T : ~(k < m)
    BY <1>2 DEF OpToRel
  <1> HIDE DEF R
  <1> QED
    BY <1>3

\* A label always leads to a profile that shows it, the first one that does;
\* and back to its own as long as no name looks like another one with its
\* number appended (profile_for_option).
THEOREM LabelsLeadBack ==
    ASSUME None \notin Nat,
           NEW S, Nat \subseteq S,
           NEW P \in SUBSET Nat, NEW names \in [P -> Seq(S)],
           NEW p \in P
    PROVE  LET q == ProfileFor(names, OptionOf(names, p))
           IN  /\ q \in P /\ q <= p
               /\ OptionOf(names, q) = OptionOf(names, p)
               /\ NoLookalike(names) => q = p
  <1> DEFINE option == OptionOf(names, p)
             same == {r \in P : OptionOf(names, r) = option}
             q == ProfileFor(names, option)
  <1>1. DOMAIN names = P
    OBVIOUS
  <1>2. p \in same /\ same \subseteq P /\ same \in SUBSET Nat
    OBVIOUS
  <1>3. q = CHOOSE r \in same : \A s \in same : r <= s
    BY <1>1, <1>2 DEF ProfileFor
  <1>4. \E r \in same : \A s \in same : r <= s
    <2> HIDE DEF same
    <2> QED BY <1>2, LeastNumber
  <1>5. q \in same /\ \A s \in same : q <= s
    <2> HIDE DEF same, q
    <2> QED BY <1>3, <1>4, Zenon
  <1>6. q \in P /\ q <= p /\ OptionOf(names, q) = OptionOf(names, p)
    BY <1>2, <1>5
  <1>7. NoLookalike(names) => q = p
    <2> HIDE DEF q
    <2> QED BY <1>6, LabelsApart
  <1> QED
    BY <1>6, <1>7

\* No portion the machine knows is nearer to the cup size asked for than the
\* one that is written (_apply_overrides rounds, and clamps at both ends).
THEOREM PortionIsNearest ==
    ASSUME NEW ml \in Nat, NEW p \in 1..255
    PROVE  LET error == PortionByte(ml) * PortionStep - ml
               other == p * PortionStep - ml
           IN  /\ error <= other \/ error <= -other
               /\ -error <= other \/ -error <= -other
  <1>1. PortionByte(ml) = LET steps == (ml + 2) \div 5
                          IN  IF steps < 1 THEN 1 ELSE IF steps > 255 THEN 255 ELSE steps
    BY DEF PortionByte, PortionStep
  <1> QED
    BY <1>1, Z3 DEF PortionStep

-----------------------------------------------------------------------------
(* Data.                                                                   *)

LEMMA KeyIsAKey == ASSUME NEW type PROVE RecipeKey(type) \in 0..7
BY DEF RecipeKey

LEMMA OverriddenType ==
    ASSUME NEW c \in Component, NEW o \in Override
    PROVE  Overridden(c, o) \in Component
<1>1. Given(o.intensity, c.intensity) \in Byte
  BY DEF Given, Component, Override, Intensities, Byte
<1>2. Given(o.temperature, c.temperature) \in Byte
  BY DEF Given, Component, Override, Temperatures, Byte
<1>3. (IF o.ml = None THEN c.portion ELSE PortionByte(o.ml)) \in Byte
  <2>1. CASE o.ml = None
    BY <2>1 DEF Component
  <2>2. CASE o.ml # None
    <3>1. o.ml \in Nat
      BY <2>2 DEF Override
    <3>2. PortionByte(o.ml) \in 1..255
      BY <3>1, PortionIsAByte
    <3> QED BY <2>2, <3>2 DEF Byte
  <2> QED BY <2>1, <2>2
<1>4. (IF o.blend \in {None, 0} THEN c.blend ELSE o.blend) \in Byte
  BY DEF Component, Override, Blends, Byte
<1> QED BY <1>1, <1>2, <1>3, <1>4 DEF Overridden, Component

LEMMA NoOverrideType == NoOverride \in Override
BY DEF NoOverride, Override

LEMMA OnlyBlendType ==
    ASSUME NEW o \in Override
    PROVE  OnlyBlend(o) \in Override
BY DEF OnlyBlend, NoOverride, Override

LEMMA FilledType ==
    ASSUME NEW o \in Override, NEW s \in Settings
    PROVE  Filled(o, s) \in Override
<1>1. /\ Given(o.intensity, s.intensity) \in Intensities \cup {None}
      /\ Given(o.temperature, s.temperature) \in Temperatures \cup {None}
      /\ Given(o.ml, s.ml) \in Nat \cup {None}
      /\ Given(o.blend, s.blend) \in Blends \cup {None}
  BY DEF Given, Override, Settings
<1> QED BY <1>1 DEF Filled, Override

LEMMA SeededType ==
    ASSUME NEW s \in Settings, NEW c \in Component
    PROVE  Seeded(s, c) \in Settings
<1>1. c.portion * PortionStep \in Nat
  <2>1. c.portion \in Nat
    BY DEF Component, Byte
  <2> QED BY <2>1 DEF PortionStep
<1> QED BY <1>1 DEF Seeded, Settings

LEMMA LabelType ==
    ASSUME NEW slot \in Slots
    PROVE  LabelOf(slot) \in Label
<1>1. slot \in Int /\ (slot - 302) % 10 \in Int
  BY SlotsAreIds
<1> QED BY <1>1 DEF LabelOf, DrinkName, KeyName, Label

\* What is asked for is made of what is stored; and what a brew writes, of
\* what it has read.
LEMMA CupType ==
    ASSUME NEW t \in Task, NEW recipe \in Recipe, op[t].overrides \in Override
    PROVE  CupFrom(t, recipe) \in Cup
<1>1. recipe.c1 \in Component /\ recipe.c2 \in Component
  BY DEF Recipe
<1>2. Overridden(recipe.c1, op[t].overrides) \in Component
  BY <1>1, OverriddenType
<1>3. Overridden(recipe.c2, OnlyBlend(op[t].overrides)) \in Component
  BY <1>1, OnlyBlendType, OverriddenType
<1> QED BY <1>2, <1>3, KeyIsAKey DEF CupFrom, Cup

LEMMA AskedParts ==
    ASSUME NEW t \in Task
    PROVE  /\ Asked(t).cup = CupFrom(t, Stored[op[t].slot])
           /\ Asked(t).name = LabelOf(op[t].slot)
           /\ Asked(t).cups = op[t].cups
           /\ Asked(t) = Drink(Asked(t).cup, Asked(t).name, Asked(t).cups)
BY DEF Asked, CupFrom, Drink

-----------------------------------------------------------------------------
(* Steps and sequences.                                                    *)

LEMMA PastFacts ==
    /\ Past("read") = {"copy", "name", "start", "done", "failed"}
    /\ Past("copy") = {"name", "start", "done", "failed"}
    /\ Past("name") = {"start", "done", "failed"}
    /\ Past("start") = {"done", "failed"}
BY DEF Past

\* What was sent stays sent when a task goes on or ends.
LEMMA PastSteps ==
    ASSUME NEW step \in Steps
    PROVE  /\ {"done", "failed"} \subseteq Past(step)
           /\ "idle" \notin Past(step) /\ step \notin Past(step)
           /\ NextOf(step) \in Past(step)
           /\ \A place \in Past(step) \cap Steps : NextOf(place) \in Past(step)
BY PastFacts DEF Steps, NextOf

\* The first message is taken off a wire, or all are.
LEMMA Fewer ==
    ASSUME NEW S, NEW s \in Seq(S), NEW r,
           r = s \/ (s # <<>> /\ r = Tail(s)) \/ r = <<>>
    PROVE  /\ r \in Seq(S) /\ Len(r) <= Len(s)
           /\ \E d \in {0, 1} : \A i \in 1 .. Len(r) :
                 i + d \in 1 .. Len(s) /\ r[i] = s[i + d]
<1>1. CASE r = s
  <2>1. \A i \in 1 .. Len(r) : i + 0 \in 1 .. Len(s) /\ r[i] = s[i + 0]
    BY <1>1
  <2> QED BY <1>1, <2>1
<1>2. CASE s # <<>> /\ r = Tail(s)
  <2>1. /\ r \in Seq(S) /\ Len(r) = Len(s) - 1 /\ Len(s) \in Nat
        /\ \A i \in 1 .. Len(r) : r[i] = s[i + 1]
    BY <1>2
  <2>2. \A i \in 1 .. Len(r) : i + 1 \in 1 .. Len(s) /\ r[i] = s[i + 1]
    BY <2>1
  <2> QED BY <2>1, <2>2
<1>3. CASE r = <<>>
  <2>1. Len(r) = 0 /\ r \in Seq(S)
    BY <1>3
  <2>2. \A i \in 1 .. Len(r) : i + 0 \in 1 .. Len(s) /\ r[i] = s[i + 0]
    BY <2>1
  <2>3. Len(s) \in Nat
    OBVIOUS
  <2> QED BY <2>1, <2>2, <2>3
<1> QED BY <1>1, <1>2, <1>3

LEMMA More ==
    ASSUME NEW S, NEW s \in Seq(S), NEW e \in S
    PROVE  /\ Append(s, e) \in Seq(S)
           /\ Len(Append(s, e)) = Len(s) + 1 /\ Len(s) \in Nat
           /\ \A i \in 1 .. Len(s) : Append(s, e)[i] = s[i]
           /\ Append(s, e)[Len(s) + 1] = e
           /\ \A i \in 1 .. Len(s) + 1 : i \in 1 .. Len(s) \/ i = Len(s) + 1
OBVIOUS

LEMMA First ==
    ASSUME NEW S, NEW s \in Seq(S), s # <<>>
    PROVE  Head(s) = s[1] /\ 1 \in 1 .. Len(s) /\ Head(s) \in S
OBVIOUS

LEMMA CommandFacts ==
    ASSUME NEW c \in CommandType
    PROVE  /\ c.by \in Task /\ c.step \in Steps
           /\ c.step = "read" => c.arg \in Slots
           /\ c.step = "copy" => c.arg \in Cup
           /\ c.step = "name" => c.arg \in Label
           /\ c.step = "start" => c.arg \in BOOLEAN
BY DEF CommandType, Steps

LEMMA AnswerFacts ==
    ASSUME NEW a \in AnswerType
    PROVE  /\ a.by \in Task /\ a.step \in Steps /\ a.ok \in BOOLEAN
           /\ a.recipe \in Recipe \cup {None}
BY DEF AnswerType

-----------------------------------------------------------------------------
(* Steps on which nothing is sent, written or confirmed.                   *)

\* Operations may end, locks be given up, messages be lost.
LEMMA Quieter ==
    ASSUME IInv, TypeOK',
           UNCHANGED <<op, held, scratch, label, made>>,
           crossed \subseteq crossed',
           \A u \in Task :
              \/ at'[u] = at[u]
              \/ /\ at[u] \in Steps /\ at'[u] \in {"done", "failed"}
                 /\ op[u].kind = "brew" => at'[u] = "failed",
           \A u \in Task : lock = u => lock' = u \/ at'[u] \in {"done", "failed"},
           inbox' = inbox \/ (inbox # <<>> /\ inbox' = Tail(inbox)) \/ inbox' = <<>>,
           outbox' = outbox \/ (outbox # <<>> /\ outbox' = Tail(outbox))
                     \/ outbox' = <<>>
    PROVE  SentOnce' /\ Written' /\ MadeOnce' /\ RightDrink' /\ DoneMeansMade'
<1>t. TypeOK /\ SentOnce /\ Written /\ MadeOnce /\ RightDrink /\ DoneMeansMade
  BY DEF IInv
<1>1. PICK d \in {0, 1} : \A i \in 1 .. Len(inbox') :
                             i + d \in 1 .. Len(inbox) /\ inbox'[i] = inbox[i + d]
  <2>1. inbox \in Seq(CommandType)
    BY <1>t DEF TypeOK
  <2> QED BY <2>1, Fewer
<1>2. PICK e \in {0, 1} : \A i \in 1 .. Len(outbox') :
                             i + e \in 1 .. Len(outbox) /\ outbox'[i] = outbox[i + e]
  <2>1. outbox \in Seq(AnswerType)
    BY <1>t DEF TypeOK
  <2> QED BY <2>1, Fewer
<1>5. ASSUME NEW u \in Task, NEW step \in Steps, Sent(u, step)
      PROVE  Sent(u, step)'
  BY <1>5, PastSteps DEF Sent
<1>6. \A u \in Task, step \in Steps : ArgOf(u, step)' = ArgOf(u, step)
  BY DEF ArgOf, Asked
<1>7. \A u \in Task : Asked(u)' = Asked(u)
  BY DEF Asked
<1>8. SentOnce'
  <2> SUFFICES ASSUME NEW u \in Task, NEW step \in Steps
               PROVE  /\ \A i \in 1 .. Len(inbox') :
                            Is(inbox'[i], u, step) =>
                               /\ Sent(u, step)'
                               /\ u \notin crossed' \/ step = "read" =>
                                     inbox'[i].arg = ArgOf(u, step)'
                               /\ \A j \in 1 .. Len(inbox') :
                                     Is(inbox'[j], u, step) => i = j
                      /\ \A i \in 1 .. Len(outbox') :
                            Is(outbox'[i], u, step) =>
                               /\ Sent(u, step)'
                               /\ step = "read" =>
                                     outbox'[i].recipe = Stored[op'[u].slot]
    BY DEF SentOnce, Is
  <2>1. ASSUME NEW i \in 1 .. Len(inbox'), Is(inbox'[i], u, step)
        PROVE  /\ Sent(u, step)'
               /\ u \notin crossed' \/ step = "read" =>
                     inbox'[i].arg = ArgOf(u, step)'
               /\ \A j \in 1 .. Len(inbox') : Is(inbox'[j], u, step) => i = j
    <3>1. i + d \in 1 .. Len(inbox) /\ inbox'[i] = inbox[i + d]
      BY <1>1
    <3>2. /\ Sent(u, step)
          /\ u \notin crossed \/ step = "read" =>
                inbox[i + d].arg = ArgOf(u, step)
      BY <3>1, <2>1, <1>t DEF SentOnce
    <3>3. ASSUME NEW j \in 1 .. Len(inbox'), Is(inbox'[j], u, step)
          PROVE  i = j
      <4>1. j + d \in 1 .. Len(inbox) /\ inbox'[j] = inbox[j + d]
        BY <1>1
      <4>2. i + d = j + d
        BY <4>1, <3>1, <2>1, <3>3, <1>t DEF SentOnce
      <4> QED BY <4>2
    <3> QED BY <3>1, <3>2, <3>3, <1>5, <1>6
  <2>2. ASSUME NEW i \in 1 .. Len(outbox'), Is(outbox'[i], u, step)
        PROVE  /\ Sent(u, step)'
               /\ step = "read" => outbox'[i].recipe = Stored[op'[u].slot]
    <3>1. i + e \in 1 .. Len(outbox) /\ outbox'[i] = outbox[i + e]
      BY <1>2
    <3>2. /\ Sent(u, step)
          /\ step = "read" => outbox[i + e].recipe = Stored[op[u].slot]
      BY <3>1, <2>2, <1>t DEF SentOnce
    <3> QED BY <3>1, <3>2, <1>5
  <2> QED BY <2>1, <2>2
<1>9. ASSUME NEW u \in Task, NEW step \in Steps
      PROVE  /\ OnItsWay(u, step)' => OnItsWay(u, step)
             /\ Confirmed(u, step)' => Confirmed(u, step)
  <2>1. ASSUME NEW i \in 1 .. Len(inbox'), Is(inbox'[i], u, step)
        PROVE  OnItsWay(u, step)
    BY <2>1, <1>1 DEF OnItsWay
  <2>2. ASSUME NEW i \in 1 .. Len(outbox'), Is(outbox'[i], u, step), outbox'[i].ok
        PROVE  Confirmed(u, step)
    BY <2>2, <1>2 DEF Confirmed
  <2> QED BY <2>1, <2>2 DEF OnItsWay, Confirmed, Is
<1>10. \A u \in Task : /\ HasCopied(u)' => HasCopied(u)
                       /\ HasNamed(u)' => HasNamed(u)
  BY <1>9 DEF HasCopied, HasNamed, Steps
<1>11. Written'
  <2> SUFFICES ASSUME NEW u \in Task \ crossed'
               PROVE  /\ at'[u] \in Steps \ {"read"} => held'[u] = Stored[op'[u].slot]
                      /\ made'[u] = None /\ HasCopied(u)' =>
                            scratch' = [by |-> u, is |-> Asked(u).cup']
                      /\ made'[u] = None /\ HasNamed(u)' =>
                            label' = [by |-> u, is |-> Asked(u).name']
                      /\ Confirmed(u, "start")' => made'[u] # None
    BY DEF Written
  <2>1. u \in Task \ crossed
    OBVIOUS
  <2>2. at'[u] \in Steps \ {"read"} => at'[u] = at[u]
    BY DEF Steps
  <2>3. Confirmed(u, "start")' => Confirmed(u, "start")
    BY <1>9 DEF Steps
  <2> QED BY <2>1, <2>2, <2>3, <1>7, <1>10, <1>t DEF Written
<1>12. MadeOnce'
  <2> SUFFICES ASSUME NEW u \in Task, made'[u] # None
               PROVE  Sent(u, "start")' /\ ~OnItsWay(u, "start")'
    BY DEF MadeOnce
  <2>1. Sent(u, "start") /\ ~OnItsWay(u, "start")
    BY <1>t DEF MadeOnce
  <2> QED BY <2>1, <1>5, <1>9 DEF Steps
<1>13. RightDrink'
  BY <1>7, <1>t DEF RightDrink
<1>14. DoneMeansMade'
  BY <1>t DEF DoneMeansMade
<1> QED BY <1>8, <1>11, <1>12, <1>13, <1>14

-----------------------------------------------------------------------------
(* An operation begins.                                                    *)

LEMMA BeginKeeps ==
    ASSUME IInv, NEW t \in Task, NEW operation, Begin(t, operation),
           UNCHANGED <<held, lock, inbox, outbox, crossed, machine>>
    PROVE  SentOnce' /\ Written' /\ MadeOnce' /\ RightDrink' /\ DoneMeansMade'
<1>t. /\ TypeOK /\ SentOnce /\ Written /\ MadeOnce /\ RightDrink /\ DoneMeansMade
      /\ UNCHANGED <<scratch, label, made>>
  BY DEF IInv, machine
<1>1. /\ at[t] = "idle" /\ at'[t] = "read"
      /\ \A u \in Task \ {t} : at'[u] = at[u] /\ op'[u] = op[u]
  BY <1>t DEF Begin, TypeOK
<1>2. \A step \in Steps : ~Sent(t, step)
  BY <1>1, PastSteps DEF Sent, Steps
<1>3. ASSUME NEW u \in Task, NEW step \in Steps, Sent(u, step)
      PROVE  /\ u # t /\ Sent(u, step)' /\ ArgOf(u, step)' = ArgOf(u, step)
             /\ op'[u].slot = op[u].slot
  <2>1. u # t
    BY <1>2, <1>3
  <2>2. at'[u] = at[u] /\ op'[u] = op[u]
    BY <1>1, <2>1
  <2> QED BY <2>1, <2>2, <1>3 DEF Sent, ArgOf, Asked
<1>4. SentOnce'
  BY <1>3, <1>t DEF SentOnce, Is
<1>5. \A step \in Steps : ~OnItsWay(t, step) /\ ~Confirmed(t, step)
  BY <1>2, <1>t DEF OnItsWay, Confirmed, SentOnce
<1>6. \A u \in Task, step \in Steps :
         /\ OnItsWay(u, step)' = OnItsWay(u, step)
         /\ Confirmed(u, step)' = Confirmed(u, step)
  BY DEF OnItsWay, Confirmed, Is
<1>7. ~HasCopied(t)' /\ ~HasNamed(t)' /\ ~Confirmed(t, "start")'
  BY <1>1, <1>5, <1>6 DEF HasCopied, HasNamed, Steps
<1>8. \A u \in Task \ {t} : /\ HasCopied(u)' = HasCopied(u)
                            /\ HasNamed(u)' = HasNamed(u)
                            /\ Asked(u)' = Asked(u)
  BY <1>1, <1>6 DEF HasCopied, HasNamed, Asked, Steps
<1>9. Written'
  <2> SUFFICES ASSUME NEW u \in Task \ crossed'
               PROVE  /\ at'[u] \in Steps \ {"read"} => held'[u] = Stored[op'[u].slot]
                      /\ made'[u] = None /\ HasCopied(u)' =>
                            scratch' = [by |-> u, is |-> Asked(u).cup']
                      /\ made'[u] = None /\ HasNamed(u)' =>
                            label' = [by |-> u, is |-> Asked(u).name']
                      /\ Confirmed(u, "start")' => made'[u] # None
    BY DEF Written
  <2>1. CASE u = t
    BY <1>1, <1>7, <2>1
  <2>2. CASE u # t
    BY <1>1, <1>6, <1>8, <1>t, <2>2 DEF Written, Steps
  <2> QED BY <2>1, <2>2
<1>10. MadeOnce'
  <2> SUFFICES ASSUME NEW u \in Task, made'[u] # None
               PROVE  Sent(u, "start")' /\ ~OnItsWay(u, "start")'
    BY DEF MadeOnce
  <2>1. Sent(u, "start") /\ ~OnItsWay(u, "start") /\ "start" \in Steps
    BY <1>t DEF MadeOnce, Steps
  <2> QED BY <2>1, <1>3, <1>6
<1>11. made[t] = None
  BY <1>2, <1>t DEF MadeOnce, Steps
<1>12. RightDrink'
  BY <1>8, <1>11, <1>t DEF RightDrink
<1>13. DoneMeansMade'
  BY <1>1, <1>t DEF DoneMeansMade
<1> QED BY <1>4, <1>9, <1>10, <1>12, <1>13

-----------------------------------------------------------------------------
(* A request is sent.                                                      *)

LEMMA CommandTyped ==
    ASSUME TypeOK, NEW t \in Task, at[t] \in Steps
    PROVE  Command(t) \in CommandType
<1>1. op[t] \in Operation /\ op[t].slot \in Slots
  BY DEF TypeOK, Steps
<1>2. CASE at[t] = "read"
  BY <1>1, <1>2 DEF Command, CommandType
<1>3. CASE at[t] = "copy"
  <2>1. held[t] \in Recipe
    BY <1>3 DEF TypeOK, Steps
  <2>2. CupFrom(t, held[t]) \in Cup
    BY <1>1, <2>1, CupType DEF Operation
  <2> QED BY <1>3, <2>2 DEF Command, CommandType
<1>4. CASE at[t] = "name"
  <2>1. LabelOf(op[t].slot) \in Label
    BY <1>1, LabelType
  <2> QED BY <1>4, <2>1 DEF Command, CommandType
<1>5. CASE at[t] = "start"
  BY <1>1, <1>5 DEF Command, CommandType, Operation
<1> QED BY <1>2, <1>3, <1>4, <1>5 DEF Steps

LEMMA SendKeeps ==
    ASSUME IInv, NEW t \in Task, Send(t)
    PROVE  SentOnce' /\ Written' /\ MadeOnce' /\ RightDrink' /\ DoneMeansMade'
<1>t. /\ TypeOK /\ SentOnce /\ Written /\ MadeOnce /\ RightDrink /\ DoneMeansMade
      /\ UNCHANGED <<op, at, held, outbox, crossed, scratch, label, made>>
      /\ lock = None /\ lock' = t /\ t # None
      /\ at[t] \in Steps
      /\ inbox' = Append(inbox, Command(t))
  BY NoneIsNoValue DEF IInv, machine, Send
<1>1. /\ Len(inbox') = Len(inbox) + 1 /\ Len(inbox) \in Nat
      /\ \A i \in 1 .. Len(inbox) : inbox'[i] = inbox[i]
      /\ inbox'[Len(inbox) + 1] = Command(t)
      /\ \A i \in 1 .. Len(inbox') : i \in 1 .. Len(inbox) \/ i = Len(inbox) + 1
  <2>1. inbox \in Seq(CommandType) /\ Command(t) \in CommandType
    BY <1>t, CommandTyped DEF TypeOK
  <2> QED BY <2>1, <1>t, More
<1>2. \A u \in Task, step \in Steps : Is(Command(t), u, step) <=> u = t /\ step = at[t]
  BY DEF Is, Command
<1>3. \A u \in Task, step \in Steps : /\ Sent(u, step) => Sent(u, step)' /\ u # lock
                                      /\ ArgOf(u, step)' = ArgOf(u, step)
  BY <1>t, NoneIsNoValue DEF Sent, ArgOf, Asked
<1>4. ~Sent(t, at[t]) /\ Sent(t, at[t])'
  BY <1>t, PastSteps DEF Sent
<1>5. t \notin crossed \/ at[t] = "read" => Command(t).arg = ArgOf(t, at[t])
  <2>1. CASE at[t] = "copy" /\ t \notin crossed
    <3>1. held[t] = Stored[op[t].slot]
      BY <1>t, <2>1 DEF Written
    <3> QED BY <2>1, <3>1, AskedParts DEF Command, ArgOf
  <2>2. CASE at[t] \in {"read", "name", "start"}
    BY <2>2, AskedParts DEF Command, ArgOf
  <2> QED BY <2>1, <2>2, <1>t DEF Steps
<1>6. SentOnce'
  <2> SUFFICES ASSUME NEW u \in Task, NEW step \in Steps
               PROVE  /\ \A i \in 1 .. Len(inbox') :
                            Is(inbox'[i], u, step) =>
                               /\ Sent(u, step)'
                               /\ u \notin crossed' \/ step = "read" =>
                                     inbox'[i].arg = ArgOf(u, step)'
                               /\ \A j \in 1 .. Len(inbox') :
                                     Is(inbox'[j], u, step) => i = j
                      /\ \A i \in 1 .. Len(outbox') :
                            Is(outbox'[i], u, step) =>
                               /\ Sent(u, step)'
                               /\ step = "read" =>
                                     outbox'[i].recipe = Stored[op'[u].slot]
    BY DEF SentOnce, Is
  <2>1. ASSUME NEW i \in 1 .. Len(inbox'), Is(inbox'[i], u, step)
        PROVE  /\ Sent(u, step)'
               /\ u \notin crossed' \/ step = "read" =>
                     inbox'[i].arg = ArgOf(u, step)'
               /\ \A j \in 1 .. Len(inbox') : Is(inbox'[j], u, step) => i = j
    <3>1. CASE i \in 1 .. Len(inbox)
      <4>1. /\ Sent(u, step)
            /\ u \notin crossed \/ step = "read" => inbox[i].arg = ArgOf(u, step)
            /\ \A j \in 1 .. Len(inbox) : Is(inbox[j], u, step) => i = j
        BY <1>1, <1>t, <2>1, <3>1 DEF SentOnce
      <4>2. ~(u = t /\ step = at[t])
        BY <4>1, <1>4
      <4> QED BY <4>1, <4>2, <1>1, <1>2, <1>3, <1>t, <3>1
    <3>2. CASE i = Len(inbox) + 1
      <4>1. u = t /\ step = at[t]
        BY <1>1, <1>2, <2>1, <3>2
      <4>2. \A j \in 1 .. Len(inbox) : ~Is(inbox[j], u, step)
        BY <4>1, <1>4, <1>t DEF SentOnce
      <4>3. \A j \in 1 .. Len(inbox') : Is(inbox'[j], u, step) => i = j
        BY <4>2, <1>1, <3>2
      <4> QED BY <4>1, <4>3, <1>1, <1>3, <1>4, <1>5, <1>t, <3>2
    <3> QED BY <3>1, <3>2, <1>1
  <2>2. ASSUME NEW i \in 1 .. Len(outbox'), Is(outbox'[i], u, step)
        PROVE  /\ Sent(u, step)'
               /\ step = "read" => outbox'[i].recipe = Stored[op'[u].slot]
    BY <2>2, <1>3, <1>t DEF SentOnce
  <2> QED BY <2>1, <2>2
<1>7. ASSUME NEW u \in Task, NEW step \in Steps
      PROVE  /\ OnItsWay(u, step)' => OnItsWay(u, step) \/ (u = t /\ step = at[t])
             /\ Confirmed(u, step)' = Confirmed(u, step)
             /\ Asked(u)' = Asked(u)
  <2>1. ASSUME NEW i \in 1 .. Len(inbox'), Is(inbox'[i], u, step)
        PROVE  OnItsWay(u, step) \/ (u = t /\ step = at[t])
    BY <2>1, <1>1, <1>2 DEF OnItsWay
  <2>2. OnItsWay(u, step)' => OnItsWay(u, step) \/ (u = t /\ step = at[t])
    BY <2>1 DEF OnItsWay, Is
  <2> QED BY <2>2, <1>t DEF Confirmed, Is, Asked
<1>8. \A u \in Task : /\ HasCopied(u)' => HasCopied(u)
                      /\ HasNamed(u)' => HasNamed(u)
  BY <1>7, <1>t DEF HasCopied, HasNamed, Steps
<1>9. Written'
  BY <1>7, <1>8, <1>t DEF Written, Steps
<1>10. MadeOnce'
  <2> SUFFICES ASSUME NEW u \in Task, made'[u] # None
               PROVE  Sent(u, "start")' /\ ~OnItsWay(u, "start")'
    BY DEF MadeOnce
  <2>1. Sent(u, "start") /\ ~OnItsWay(u, "start") /\ "start" \in Steps
    BY <1>t DEF MadeOnce, Steps
  <2> QED BY <2>1, <1>3, <1>4, <1>7
<1>11. RightDrink' /\ DoneMeansMade'
  BY <1>7, <1>t DEF RightDrink, DoneMeansMade, Steps
<1> QED BY <1>6, <1>9, <1>10, <1>11

-----------------------------------------------------------------------------
(* The machine answers.                                                    *)

\* The first command leaves the inbox for good, and its answer is on its way.
LEMMA ReplyKeeps ==
    ASSUME IInv, NEW c, c = Head(inbox), inbox # <<>>, NEW ok \in BOOLEAN,
           Replies(c, ok), inbox' = Tail(inbox),
           UNCHANGED <<op, at, lock>>, crossed \subseteq crossed'
    PROVE  /\ c \in CommandType /\ Answer(c, ok) \in AnswerType
           /\ OnItsWay(c.by, c.step) /\ Sent(c.by, c.step)
           /\ c.by \notin crossed \/ c.step = "read" => c.arg = ArgOf(c.by, c.step)
           /\ SentOnce'
           /\ ~OnItsWay(c.by, c.step)'
           /\ \A u \in Task, step \in Steps :
                 /\ Sent(u, step)' = Sent(u, step)
                 /\ OnItsWay(u, step)' => OnItsWay(u, step)
                 /\ Confirmed(u, step)' =>
                       Confirmed(u, step) \/ (ok /\ u = c.by /\ step = c.step)
<1>t. /\ TypeOK /\ SentOnce /\ inbox \in Seq(CommandType) /\ outbox \in Seq(AnswerType)
      /\ outbox' = Append(outbox, Answer(c, ok))
  BY DEF IInv, TypeOK, Replies
<1>1. c = inbox[1] /\ 1 \in 1 .. Len(inbox) /\ c \in CommandType
  BY <1>t, First
<1>2. c.by \in Task /\ c.step \in Steps
  BY <1>1, CommandFacts
<1>3. /\ Sent(c.by, c.step)
      /\ c.by \notin crossed \/ c.step = "read" => c.arg = ArgOf(c.by, c.step)
      /\ \A j \in 1 .. Len(inbox) : Is(inbox[j], c.by, c.step) => j = 1
      /\ OnItsWay(c.by, c.step)
  <2>1. Is(inbox[1], c.by, c.step)
    BY <1>1 DEF Is
  <2>2. OnItsWay(c.by, c.step)
    BY <1>1, <2>1 DEF OnItsWay
  <2> QED BY <1>1, <1>2, <2>1, <2>2, <1>t DEF SentOnce
<1>4. /\ Len(inbox') = Len(inbox) - 1 /\ Len(inbox) \in Nat
      /\ \A i \in 1 .. Len(inbox') :
            i + 1 \in 1 .. Len(inbox) /\ i + 1 # 1 /\ inbox'[i] = inbox[i + 1]
  <2>1. /\ Len(inbox') = Len(inbox) - 1 /\ Len(inbox) \in Nat
        /\ \A i \in 1 .. Len(inbox') : inbox'[i] = inbox[i + 1]
    BY <1>t
  <2>2. \A i \in 1 .. Len(inbox) - 1 : i + 1 \in 1 .. Len(inbox) /\ i + 1 # 1
    BY <2>1
  <2> QED BY <2>1, <2>2
<1>5. Answer(c, ok) \in AnswerType
  <2>1. c.step = "read" => Stored[c.arg] \in Recipe
    BY <1>1, CommandFacts, StoredType
  <2> QED BY <1>2, <2>1 DEF Answer, AnswerType
<1>6. /\ \A i \in 1 .. Len(outbox) : outbox'[i] = outbox[i]
      /\ outbox'[Len(outbox) + 1] = Answer(c, ok)
      /\ \A i \in 1 .. Len(outbox') : i \in 1 .. Len(outbox) \/ i = Len(outbox) + 1
  BY <1>t, <1>5, More
<1>7. \A u \in Task, step \in Steps :
         /\ Sent(u, step)' = Sent(u, step) /\ ArgOf(u, step)' = ArgOf(u, step)
         /\ Is(Answer(c, ok), u, step) <=> u = c.by /\ step = c.step
  BY DEF Sent, ArgOf, Asked, Is, Answer
<1>8. c.step = "read" => Answer(c, ok).recipe = Stored[op[c.by].slot]
  BY <1>3 DEF Answer, ArgOf
<1>9. SentOnce'
  <2> SUFFICES ASSUME NEW u \in Task, NEW step \in Steps
               PROVE  /\ \A i \in 1 .. Len(inbox') :
                            Is(inbox'[i], u, step) =>
                               /\ Sent(u, step)'
                               /\ u \notin crossed' \/ step = "read" =>
                                     inbox'[i].arg = ArgOf(u, step)'
                               /\ \A j \in 1 .. Len(inbox') :
                                     Is(inbox'[j], u, step) => i = j
                      /\ \A i \in 1 .. Len(outbox') :
                            Is(outbox'[i], u, step) =>
                               /\ Sent(u, step)'
                               /\ step = "read" =>
                                     outbox'[i].recipe = Stored[op'[u].slot]
    BY DEF SentOnce, Is
  <2>1. ASSUME NEW i \in 1 .. Len(inbox'), Is(inbox'[i], u, step)
        PROVE  /\ Sent(u, step)'
               /\ u \notin crossed' \/ step = "read" =>
                     inbox'[i].arg = ArgOf(u, step)'
               /\ \A j \in 1 .. Len(inbox') : Is(inbox'[j], u, step) => i = j
    <3>1. i + 1 \in 1 .. Len(inbox) /\ inbox'[i] = inbox[i + 1]
      BY <1>4
    <3>2. /\ Sent(u, step)
          /\ u \notin crossed \/ step = "read" => inbox[i + 1].arg = ArgOf(u, step)
      BY <3>1, <2>1, <1>t DEF SentOnce
    <3>3. ASSUME NEW j \in 1 .. Len(inbox'), Is(inbox'[j], u, step)
          PROVE  i = j
      <4>1. j + 1 \in 1 .. Len(inbox) /\ inbox'[j] = inbox[j + 1]
        BY <1>4
      <4>2. i + 1 = j + 1
        BY <4>1, <3>1, <2>1, <3>3, <1>t DEF SentOnce
      <4> QED BY <4>2
    <3> QED BY <3>1, <3>2, <3>3, <1>7
  <2>2. ASSUME NEW i \in 1 .. Len(outbox'), Is(outbox'[i], u, step)
        PROVE  /\ Sent(u, step)'
               /\ step = "read" => outbox'[i].recipe = Stored[op'[u].slot]
    <3>1. CASE i \in 1 .. Len(outbox)
      BY <3>1, <2>2, <1>6, <1>7, <1>t DEF SentOnce
    <3>2. CASE i = Len(outbox) + 1
      BY <3>2, <2>2, <1>3, <1>6, <1>7, <1>8
    <3> QED BY <3>1, <3>2, <1>6
  <2> QED BY <2>1, <2>2
<1>10. ASSUME NEW u \in Task, NEW step \in Steps
       PROVE  /\ OnItsWay(u, step)' =>
                    OnItsWay(u, step) /\ ~(u = c.by /\ step = c.step)
              /\ Confirmed(u, step)' =>
                    Confirmed(u, step) \/ (ok /\ u = c.by /\ step = c.step)
  <2>1. ASSUME NEW i \in 1 .. Len(inbox'), Is(inbox'[i], u, step)
        PROVE  OnItsWay(u, step) /\ ~(u = c.by /\ step = c.step)
    BY <2>1, <1>3, <1>4 DEF OnItsWay
  <2>2. ASSUME NEW i \in 1 .. Len(outbox'), Is(outbox'[i], u, step), outbox'[i].ok
        PROVE  Confirmed(u, step) \/ (ok /\ u = c.by /\ step = c.step)
    <3>1. CASE i \in 1 .. Len(outbox)
      BY <3>1, <2>2, <1>6 DEF Confirmed
    <3>2. CASE i = Len(outbox) + 1
      <4>1. outbox'[i] = Answer(c, ok) /\ Answer(c, ok).ok = ok
        BY <3>2, <1>6 DEF Answer
      <4>2. u = c.by /\ step = c.step
        BY <4>1, <2>2, <1>7
      <4>3. ok
        BY <4>1, <2>2
      <4> QED BY <4>2, <4>3
    <3> QED BY <3>1, <3>2, <1>6
  <2> QED BY <2>1, <2>2 DEF OnItsWay, Confirmed, Is
<1>11. ~OnItsWay(c.by, c.step)'
  BY <1>2, <1>10
<1> QED BY <1>1, <1>3, <1>5, <1>7, <1>9, <1>10, <1>11

LEMMA RefusesKeeps ==
    ASSUME IInv, Refuses
    PROVE  SentOnce' /\ Written' /\ MadeOnce' /\ RightDrink' /\ DoneMeansMade'
<1>t. /\ Written /\ MadeOnce /\ RightDrink /\ DoneMeansMade
      /\ inbox # <<>> /\ inbox' = Tail(inbox) /\ Replies(Head(inbox), FALSE)
      /\ UNCHANGED <<op, at, held, lock, crossed, scratch, label, made>>
  BY DEF IInv, Refuses, machine
<1>1. /\ SentOnce'
      /\ \A u \in Task, step \in Steps : /\ Sent(u, step)' = Sent(u, step)
                                         /\ OnItsWay(u, step)' => OnItsWay(u, step)
                                         /\ Confirmed(u, step)' => Confirmed(u, step)
  BY <1>t, ReplyKeeps
<1>2. \A u \in Task : /\ HasCopied(u)' => HasCopied(u)
                      /\ HasNamed(u)' => HasNamed(u)
                      /\ Asked(u)' = Asked(u)
  BY <1>1, <1>t DEF HasCopied, HasNamed, Steps, Asked
<1>3. Written'
  BY <1>1, <1>2, <1>t DEF Written, Steps
<1>4. MadeOnce'
  BY <1>1, <1>t DEF MadeOnce, Steps
<1>5. RightDrink' /\ DoneMeansMade'
  BY <1>2, <1>t DEF RightDrink, DoneMeansMade
<1> QED BY <1>1, <1>3, <1>4, <1>5

\* Writing over what another brew has written disturbs that brew.
LEMMA OthersDisturbed ==
    ASSUME NEW slot, NEW t \in Task, NEW u \in Task, u # t,
           slot.by = u, made[u] = None
    PROVE  u \in Overwritten(slot, t)
BY NoneIsNoValue DEF Overwritten

LEMMA CarriesOutKeeps ==
    ASSUME IInv, CarriesOut
    PROVE  TypeOK' /\ SentOnce' /\ Written' /\ MadeOnce' /\ RightDrink'
           /\ DoneMeansMade'
<1>c. PICK c : c = Head(inbox)
  OBVIOUS
<1> DEFINE t == c.by
<1>t. /\ TypeOK /\ Written /\ MadeOnce /\ RightDrink /\ DoneMeansMade
      /\ inbox # <<>> /\ inbox' = Tail(inbox) /\ Replies(c, TRUE)
      /\ UNCHANGED <<op, at, held, lock, up, settings, selected, source>>
  BY <1>c DEF IInv, CarriesOut
<1>0. crossed \subseteq crossed' /\ crossed' \subseteq Task
  <2>1. crossed \subseteq Task
    BY <1>t DEF TypeOK
  <2>2. /\ Overwritten(scratch, t) \subseteq Task
        /\ Overwritten(label, t) \subseteq Task
    BY <1>t, NoneIsNoValue DEF TypeOK, Overwritten, Unwritten
  <2>3. \/ UNCHANGED crossed
        \/ crossed' = crossed \cup Overwritten(scratch, t)
        \/ crossed' = crossed \cup Overwritten(label, t)
    <3>1. c \in CommandType
      BY <1>c, <1>t, First DEF TypeOK
    <3>2. c.step \in Steps
      BY <3>1, CommandFacts
    <3> QED BY <1>c, <3>2 DEF CarriesOut, Steps
  <2> QED BY <2>1, <2>2, <2>3
<1>1. /\ c \in CommandType /\ Answer(c, TRUE) \in AnswerType
      /\ OnItsWay(t, c.step) /\ Sent(t, c.step)
      /\ t \notin crossed \/ c.step = "read" => c.arg = ArgOf(t, c.step)
      /\ SentOnce'
      /\ ~OnItsWay(t, c.step)'
      /\ \A u \in Task, step \in Steps :
            /\ Sent(u, step)' = Sent(u, step)
            /\ OnItsWay(u, step)' => OnItsWay(u, step)
            /\ Confirmed(u, step)' => Confirmed(u, step) \/ (u = t /\ step = c.step)
  <2>1. UNCHANGED <<op, at, lock>>
    BY <1>t
  <2> QED BY <1>0, <1>c, <1>t, <2>1, ReplyKeeps
<1>2. /\ t \in Task /\ t # None /\ c.step \in Steps
      /\ c.step = "copy" => c.arg \in Cup
      /\ c.step = "name" => c.arg \in Label
      /\ c.step = "start" => c.arg \in BOOLEAN
  BY <1>1, CommandFacts, NoneIsNoValue
<1>3. /\ inbox' \in Seq(CommandType) /\ Len(inbox') <= MaxWire
      /\ outbox' \in Seq(AnswerType) /\ Len(outbox') <= MaxWire
  <2>1. inbox \in Seq(CommandType) /\ outbox \in Seq(AnswerType)
        /\ Len(inbox) <= MaxWire /\ MaxWire \in Nat
    BY <1>t, WireIsBounded DEF TypeOK
  <2>2. Len(outbox) < MaxWire /\ outbox' = Append(outbox, Answer(c, TRUE))
    BY <1>t DEF Replies
  <2>3. inbox' \in Seq(CommandType) /\ Len(inbox') <= Len(inbox)
    BY <1>t, <2>1, Fewer
  <2>4. outbox' \in Seq(AnswerType) /\ Len(outbox') = Len(outbox) + 1
    BY <1>1, <2>1, <2>2, More
  <2>5. Len(inbox') \in Nat /\ Len(inbox) \in Nat /\ Len(outbox) \in Nat
    BY <2>1, <2>3
  <2>6. Len(inbox') <= MaxWire
    BY <2>1, <2>3, <2>5
  <2>7. Len(outbox') <= MaxWire
    BY <2>1, <2>2, <2>4, <2>5
  <2> QED BY <2>3, <2>4, <2>6, <2>7
<1>4. CASE /\ c.step = "read"
           /\ UNCHANGED <<scratch, label, made, crossed>>
  <2>1. \A u \in Task : /\ HasCopied(u)' => HasCopied(u)
                        /\ HasNamed(u)' => HasNamed(u)
                        /\ Asked(u)' = Asked(u)
    BY <1>1, <1>t, <1>4 DEF HasCopied, HasNamed, Asked, Steps
  <2>2. TypeOK'
    BY <1>3, <1>4, <1>t DEF TypeOK
  <2>3. Written'
    BY <1>1, <2>1, <1>t, <1>4 DEF Written, Steps
  <2>4. MadeOnce'
    BY <1>1, <1>t, <1>4 DEF MadeOnce, Steps
  <2>5. RightDrink' /\ DoneMeansMade'
    BY <2>1, <1>t, <1>4 DEF RightDrink, DoneMeansMade
  <2> QED BY <1>1, <2>2, <2>3, <2>4, <2>5
<1>5. CASE /\ c.step = "copy"
           /\ scratch' = [by |-> t, is |-> c.arg]
           /\ crossed' = crossed \cup Overwritten(scratch, t)
           /\ UNCHANGED <<label, made>>
  <2>1. \A u \in Task : /\ HasCopied(u)' => HasCopied(u) \/ u = t
                        /\ HasNamed(u)' => HasNamed(u)
                        /\ Asked(u)' = Asked(u)
    BY <1>1, <1>t, <1>5 DEF HasCopied, HasNamed, Asked, Steps
  <2>2. TypeOK'
    <3>1. scratch' \in [by : Task, is : Cup]
      BY <1>2, <1>5
    <3> QED BY <1>0, <1>3, <1>5, <1>t, <3>1 DEF TypeOK
  <2>3. Written'
    <3> SUFFICES ASSUME NEW u \in Task \ crossed'
                 PROVE  /\ at'[u] \in Steps \ {"read"} =>
                              held'[u] = Stored[op'[u].slot]
                        /\ made'[u] = None /\ HasCopied(u)' =>
                              scratch' = [by |-> u, is |-> Asked(u).cup']
                        /\ made'[u] = None /\ HasNamed(u)' =>
                              label' = [by |-> u, is |-> Asked(u).name']
                        /\ Confirmed(u, "start")' => made'[u] # None
      BY DEF Written
    <3>1. u \in Task \ crossed
      BY <1>5
    <3>2. ASSUME made'[u] = None, HasCopied(u)'
          PROVE  scratch' = [by |-> u, is |-> Asked(u).cup']
      <4>1. CASE u = t
        <5>1. c.arg = Asked(t).cup
          BY <1>1, <1>5, <3>1, <4>1 DEF ArgOf
        <5> QED BY <1>5, <2>1, <4>1, <5>1
      <4>2. CASE u # t
        <5>1. scratch = [by |-> u, is |-> Asked(u).cup]
          BY <2>1, <1>5, <1>t, <3>1, <3>2, <4>2 DEF Written
        <5>2. scratch.by = u /\ made[u] = None
          BY <5>1, <3>2, <1>5
        <5>3. u \in Overwritten(scratch, t)
          BY <1>2, <4>2, <5>2, OthersDisturbed
        <5> QED BY <1>5, <5>3
      <4> QED BY <4>1, <4>2
    <3>3. Confirmed(u, "start")' => Confirmed(u, "start")
      BY <1>1, <1>5 DEF Steps
    <3> QED BY <2>1, <1>5, <1>t, <3>1, <3>2, <3>3 DEF Written
  <2>4. MadeOnce'
    BY <1>1, <1>t, <1>5 DEF MadeOnce, Steps
  <2>5. RightDrink' /\ DoneMeansMade'
    BY <2>1, <1>t, <1>5 DEF RightDrink, DoneMeansMade
  <2> QED BY <1>1, <2>2, <2>3, <2>4, <2>5
<1>6. CASE /\ c.step = "name"
           /\ label' = [by |-> t, is |-> c.arg]
           /\ crossed' = crossed \cup Overwritten(label, t)
           /\ UNCHANGED <<scratch, made>>
  <2>1. \A u \in Task : /\ HasCopied(u)' => HasCopied(u)
                        /\ HasNamed(u)' => HasNamed(u) \/ u = t
                        /\ Asked(u)' = Asked(u)
    BY <1>1, <1>t, <1>6 DEF HasCopied, HasNamed, Asked, Steps
  <2>2. TypeOK'
    <3>1. label' \in [by : Task, is : Label]
      BY <1>2, <1>6
    <3> QED BY <1>0, <1>3, <1>6, <1>t, <3>1 DEF TypeOK
  <2>3. Written'
    <3> SUFFICES ASSUME NEW u \in Task \ crossed'
                 PROVE  /\ at'[u] \in Steps \ {"read"} =>
                              held'[u] = Stored[op'[u].slot]
                        /\ made'[u] = None /\ HasCopied(u)' =>
                              scratch' = [by |-> u, is |-> Asked(u).cup']
                        /\ made'[u] = None /\ HasNamed(u)' =>
                              label' = [by |-> u, is |-> Asked(u).name']
                        /\ Confirmed(u, "start")' => made'[u] # None
      BY DEF Written
    <3>1. u \in Task \ crossed
      BY <1>6
    <3>2. ASSUME made'[u] = None, HasNamed(u)'
          PROVE  label' = [by |-> u, is |-> Asked(u).name']
      <4>1. CASE u = t
        <5>1. c.arg = Asked(t).name
          BY <1>1, <1>6, <3>1, <4>1 DEF ArgOf
        <5> QED BY <1>6, <2>1, <4>1, <5>1
      <4>2. CASE u # t
        <5>1. label = [by |-> u, is |-> Asked(u).name]
          BY <2>1, <1>6, <1>t, <3>1, <3>2, <4>2 DEF Written
        <5>2. label.by = u /\ made[u] = None
          BY <5>1, <3>2, <1>6
        <5>3. u \in Overwritten(label, t)
          BY <1>2, <4>2, <5>2, OthersDisturbed
        <5> QED BY <1>6, <5>3
      <4> QED BY <4>1, <4>2
    <3>3. Confirmed(u, "start")' => Confirmed(u, "start")
      BY <1>1, <1>6 DEF Steps
    <3> QED BY <2>1, <1>6, <1>t, <3>1, <3>2, <3>3 DEF Written
  <2>4. MadeOnce'
    BY <1>1, <1>t, <1>6 DEF MadeOnce, Steps
  <2>5. RightDrink' /\ DoneMeansMade'
    BY <2>1, <1>t, <1>6 DEF RightDrink, DoneMeansMade
  <2> QED BY <1>1, <2>2, <2>3, <2>4, <2>5
<1>7. CASE /\ c.step = "start"
           /\ made' = IF scratch = Unwritten THEN made
                      ELSE [made EXCEPT ![t] = Drink(scratch.is, label.is, c.arg)]
           /\ UNCHANGED <<scratch, label, crossed>>
  <2>1. \A u \in Task : /\ HasCopied(u)' => HasCopied(u)
                        /\ HasNamed(u)' => HasNamed(u)
                        /\ Asked(u)' = Asked(u)
    BY <1>1, <1>t, <1>7 DEF HasCopied, HasNamed, Asked, Steps
  <2>2. ASSUME scratch # Unwritten
        PROVE  /\ Drink(scratch.is, label.is, c.arg) \in Drinks
               /\ Drink(scratch.is, label.is, c.arg) # None
    <3>1. scratch.is \in Cup
      BY <2>2, <1>t DEF TypeOK
    <3>2. label.is \in Label \cup {None}
      BY <1>t DEF TypeOK, Unwritten
    <3>3. Drink(scratch.is, label.is, c.arg) \in Drinks
      BY <3>1, <3>2, <1>2, <1>7 DEF Drink, Drinks
    <3> QED BY <3>3, NoneIsNoValue
  <2>3. /\ made' \in [Task -> Drinks \cup {None}]
        /\ \A u \in Task \ {t} : made'[u] = made[u]
        /\ made'[t] = IF scratch = Unwritten THEN made[t]
                      ELSE Drink(scratch.is, label.is, c.arg)
    <3>1. made \in [Task -> Drinks \cup {None}]
      BY <1>t DEF TypeOK
    <3> QED BY <3>1, <2>2, <1>2, <1>7
  <2>4. made[t] = None
    BY <1>1, <1>2, <1>7, <1>t DEF MadeOnce
  <2>5. ASSUME t \notin crossed
        PROVE  made'[t] # None /\ made'[t] = Asked(t)
    <3>1. /\ scratch = [by |-> t, is |-> Asked(t).cup]
          /\ label = [by |-> t, is |-> Asked(t).name]
      BY <1>1, <1>2, <1>7, <1>t, <2>4, <2>5 DEF Written, HasCopied, HasNamed
    <3>2. scratch # Unwritten
      <4>1. scratch.by = t
        BY <3>1
      <4>2. Unwritten.by = None
        BY DEF Unwritten
      <4> QED BY <4>1, <4>2, <1>2
    <3>3. c.arg = op[t].cups
      BY <1>1, <1>7, <2>5 DEF ArgOf
    <3>4. scratch.is = Asked(t).cup /\ label.is = Asked(t).name
      BY <3>1
    <3>5. Drink(scratch.is, label.is, c.arg) = Asked(t)
      BY <3>3, <3>4, <1>2, AskedParts
    <3> QED BY <3>2, <3>5, <2>2, <2>3
  <2>6. TypeOK'
    BY <1>3, <1>7, <1>t, <2>3 DEF TypeOK
  <2>7. Written'
    <3> SUFFICES ASSUME NEW u \in Task \ crossed'
                 PROVE  /\ at'[u] \in Steps \ {"read"} =>
                              held'[u] = Stored[op'[u].slot]
                        /\ made'[u] = None /\ HasCopied(u)' =>
                              scratch' = [by |-> u, is |-> Asked(u).cup']
                        /\ made'[u] = None /\ HasNamed(u)' =>
                              label' = [by |-> u, is |-> Asked(u).name']
                        /\ Confirmed(u, "start")' => made'[u] # None
      BY DEF Written
    <3>1. CASE u = t
      <4>1. made'[u] # None
        BY <1>7, <2>5, <3>1
      <4> QED BY <4>1, <1>7, <1>t, <3>1 DEF Written
    <3>2. CASE u # t
      <4>1. Confirmed(u, "start")' => Confirmed(u, "start")
        BY <1>1, <3>2 DEF Steps
      <4> QED BY <4>1, <2>1, <2>3, <1>7, <1>t, <3>2 DEF Written
    <3> QED BY <3>1, <3>2
  <2>8. MadeOnce'
    <3> SUFFICES ASSUME NEW u \in Task, made'[u] # None
                 PROVE  Sent(u, "start")' /\ ~OnItsWay(u, "start")'
      BY DEF MadeOnce
    <3>1. CASE u = t
      BY <1>1, <1>2, <1>7, <3>1
    <3>2. CASE u # t
      BY <1>1, <2>3, <1>t, <3>2 DEF MadeOnce, Steps
    <3> QED BY <3>1, <3>2
  <2>9. RightDrink'
    <3> SUFFICES ASSUME NEW u \in Task \ crossed', made'[u] # None
                 PROVE  made'[u] = Asked(u)'
      BY DEF RightDrink
    <3>1. CASE u = t
      BY <1>7, <2>1, <2>5, <3>1
    <3>2. CASE u # t
      BY <1>7, <2>1, <2>3, <1>t, <3>2 DEF RightDrink
    <3> QED BY <3>1, <3>2
  <2>10. DoneMeansMade'
    <3> SUFFICES ASSUME NEW u \in Task \ crossed', op'[u].kind = "brew", at'[u] = "done"
                 PROVE  made'[u] # None
      BY DEF DoneMeansMade
    <3>1. made[u] # None
      BY <1>7, <1>t DEF DoneMeansMade
    <3> QED BY <3>1, <2>3, <2>4
  <2> QED BY <1>1, <2>6, <2>7, <2>8, <2>9, <2>10
<1>8. \/ c.step = "read" /\ UNCHANGED <<scratch, label, made, crossed>>
      \/ /\ c.step = "copy"
         /\ scratch' = [by |-> t, is |-> c.arg]
         /\ crossed' = crossed \cup Overwritten(scratch, t)
         /\ UNCHANGED <<label, made>>
      \/ /\ c.step = "name"
         /\ label' = [by |-> t, is |-> c.arg]
         /\ crossed' = crossed \cup Overwritten(label, t)
         /\ UNCHANGED <<scratch, made>>
      \/ /\ c.step = "start"
         /\ made' = IF scratch = Unwritten THEN made
                    ELSE [made EXCEPT ![t] = Drink(scratch.is, label.is, c.arg)]
         /\ UNCHANGED <<scratch, label, crossed>>
  BY <1>2, <1>c DEF CarriesOut, machine, Steps
<1> QED BY <1>4, <1>5, <1>6, <1>7, <1>8

-----------------------------------------------------------------------------
(* An answer arrives.                                                      *)

LEMMA StepsHaveEnds ==
    /\ Steps \cap Ends = {}
    /\ "done" \in Ends /\ "failed" \in Ends
    /\ \A step \in Steps : NextOf(step) \in Steps \cup {"done"} /\ NextOf(step) # "read"
BY DEF Steps, Ends, NextOf

\* Nobody waits for it, or it ends the request it is given to.
LEMMA AnswerEnds ==
    ASSUME IInv, Deliver,
           \A u \in Task :
              \/ at'[u] = at[u] /\ (lock = u => lock' = u)
              \/ /\ lock = u /\ lock' = None /\ at' = [at EXCEPT ![u] = at'[u]]
                 /\ at'[u] \in {"done", "failed"}
                 /\ op[u].kind = "brew" => at'[u] = "failed",
           at' \in [Task -> Steps \cup Ends],
           lock' \in {lock, None}, held' = held,
           crossed \subseteq crossed' /\ crossed' \subseteq Task,
           settings' \in Settings, source' \in {source, None}
    PROVE  TypeOK' /\ SentOnce' /\ Written' /\ MadeOnce' /\ RightDrink'
           /\ DoneMeansMade'
<1>t. /\ TypeOK /\ outbox # <<>> /\ outbox' = Tail(outbox)
      /\ UNCHANGED <<op, inbox, up, selected, scratch, label, made>>
  BY DEF IInv, Deliver, machine
<1>1. outbox' \in Seq(AnswerType) /\ Len(outbox') <= MaxWire
  <2>1. outbox \in Seq(AnswerType) /\ Len(outbox) <= MaxWire /\ MaxWire \in Nat
    BY <1>t, WireIsBounded DEF TypeOK
  <2>2. outbox' \in Seq(AnswerType) /\ Len(outbox') <= Len(outbox)
    BY <1>t, <2>1, Fewer
  <2>3. Len(outbox') \in Nat /\ Len(outbox) \in Nat
    BY <2>1, <2>2
  <2> QED BY <2>1, <2>2, <2>3
<1>2. \A u \in Task : lock = u => at[u] \in Steps
  BY <1>t, NoneIsNoValue DEF TypeOK
<1>3. TypeOK'
  <2>1. \A u \in Task : /\ at'[u] # "idle" => op'[u].slot \in Slots
                        /\ at'[u] \in Steps \ {"read"} => held'[u] # None
    BY <1>2, <1>t, StepsHaveEnds DEF TypeOK, Steps
  <2>2. lock' \in Task \cup {None} /\ (lock' # None => at'[lock'] \in Steps)
    <3>1. CASE lock' = None
      BY <3>1
    <3>2. CASE lock' = lock /\ lock # None
      BY <3>2, <1>t DEF TypeOK
    <3> QED BY <3>1, <3>2
  <2>3. source' \in Slots \cup {None}
    BY <1>t DEF TypeOK
  <2> QED BY <1>1, <1>t, <2>1, <2>2, <2>3 DEF TypeOK
<1>4. \A u \in Task :
         \/ at'[u] = at[u]
         \/ /\ at[u] \in Steps /\ at'[u] \in {"done", "failed"}
            /\ op[u].kind = "brew" => at'[u] = "failed"
  BY <1>2
<1>5. \A u \in Task : lock = u => lock' = u \/ at'[u] \in {"done", "failed"}
  OBVIOUS
<1> QED BY <1>3, <1>4, <1>5, <1>t, Quieter

\* A brew takes it for its own, and goes on.
LEMMA AnswerLeadsOn ==
    ASSUME IInv, Deliver, NEW t \in Task, lock = t, NEW a, a = Head(outbox),
           a.ok, ~Selecting(t), Resolve(t, a), WaitKey(at[t]) = WaitKey(a.step)
    PROVE  TypeOK' /\ SentOnce' /\ Written' /\ MadeOnce' /\ RightDrink'
           /\ DoneMeansMade'
<1>t. /\ TypeOK /\ SentOnce /\ Written /\ MadeOnce /\ RightDrink /\ DoneMeansMade
      /\ outbox # <<>> /\ outbox' = Tail(outbox)
      /\ UNCHANGED <<op, inbox, up, selected, scratch, label, made, settings, source>>
      /\ lock' = None
      /\ at' = [at EXCEPT ![t] = NextOf(at[t])]
      /\ held' = IF at[t] = "read" THEN [held EXCEPT ![t] = a.recipe] ELSE held
      /\ crossed' = IF a.by = t /\ a.step = at[t] THEN crossed ELSE crossed \cup {t}
  BY DEF IInv, Deliver, machine, Resolve, Accepted, Released
<1>1. /\ outbox \in Seq(AnswerType) /\ a = outbox[1] /\ 1 \in 1 .. Len(outbox)
      /\ a \in AnswerType
  <2>1. outbox \in Seq(AnswerType)
    BY <1>t DEF TypeOK
  <2> QED BY <1>t, <2>1, First
<1>2. /\ a.by \in Task /\ a.step \in Steps
      /\ at[t] \in Steps /\ at'[t] = NextOf(at[t])
      /\ \A u \in Task \ {t} : at'[u] = at[u]
      /\ at' \in [Task -> Steps \cup Ends]
  <2>1. a.by \in Task /\ a.step \in Steps
    BY <1>1, AnswerFacts
  <2>2. at[t] \in Steps
    BY <1>t, NoneIsNoValue DEF TypeOK
  <2>3. NextOf(at[t]) \in Steps \cup Ends
    BY <2>2, StepsHaveEnds
  <2>4. at \in [Task -> Steps \cup Ends]
    BY <1>t DEF TypeOK
  <2> QED BY <2>1, <2>2, <2>3, <2>4, <1>t
<1>3. ASSUME at[t] = "read"
      PROVE  /\ a.step = "read" /\ a.recipe = Stored[op[a.by].slot]
             /\ a.recipe \in Recipe
  <2>1. a.step = "read"
    BY <1>3, <1>2 DEF WaitKey, Steps
  <2>2. Is(outbox[1], a.by, "read")
    BY <1>1, <2>1 DEF Is
  <2>3. Sent(a.by, "read") /\ a.recipe = Stored[op[a.by].slot]
    BY <1>1, <1>2, <2>1, <2>2, <1>t DEF SentOnce
  <2>4. op[a.by].slot \in Slots
    BY <1>2, <2>1, <2>3, <1>t, PastSteps DEF Sent, TypeOK
  <2> QED BY <2>1, <2>3, <2>4, StoredType
<1>4. outbox' \in Seq(AnswerType) /\ Len(outbox') <= MaxWire
      /\ \A i \in 1 .. Len(outbox') : i + 1 \in 1 .. Len(outbox)
                                      /\ outbox'[i] = outbox[i + 1]
  <2>1. Len(outbox) <= MaxWire /\ MaxWire \in Nat
    BY <1>t, WireIsBounded DEF TypeOK
  <2>2. outbox' \in Seq(AnswerType) /\ Len(outbox') = Len(outbox) - 1
        /\ Len(outbox) \in Nat
        /\ \A i \in 1 .. Len(outbox') : outbox'[i] = outbox[i + 1]
    BY <1>t, <1>1
  <2>3. \A i \in 1 .. Len(outbox) - 1 : i + 1 \in 1 .. Len(outbox)
    BY <2>2
  <2>4. Len(outbox') <= MaxWire
    BY <2>1, <2>2
  <2> QED BY <2>2, <2>3, <2>4
<1>5. /\ held' \in [Task -> Recipe \cup {None}]
      /\ \A u \in Task \ {t} : held'[u] = held[u]
      /\ held'[t] = IF at[t] = "read" THEN a.recipe ELSE held[t]
  <2>1. held \in [Task -> Recipe \cup {None}]
    BY <1>t DEF TypeOK
  <2> QED BY <2>1, <1>3, <1>t
<1>6. TypeOK'
  <2>1. ASSUME NEW u \in Task
        PROVE  /\ at'[u] # "idle" => op'[u].slot \in Slots
               /\ at'[u] \in Steps \ {"read"} => held'[u] # None
    <3>1. CASE u # t
      BY <1>2, <1>5, <1>t, <3>1 DEF TypeOK
    <3>2. CASE u = t
      <4>1. op[t].slot \in Slots
        BY <1>2, <1>t DEF TypeOK, Steps
      <4>2. held'[t] # None
        BY <1>2, <1>3, <1>5, <1>t, NoneIsNoValue DEF TypeOK
      <4> QED BY <4>1, <4>2, <1>t, <3>2
    <3> QED BY <3>1, <3>2
  <2>2. crossed' \subseteq Task
    BY <1>t DEF TypeOK
  <2> QED BY <1>2, <1>4, <1>5, <1>t, <2>1, <2>2 DEF TypeOK
<1>7. ASSUME NEW u \in Task, NEW step \in Steps
      PROVE  /\ Sent(u, step) => Sent(u, step)'
             /\ ArgOf(u, step)' = ArgOf(u, step)
             /\ OnItsWay(u, step)' = OnItsWay(u, step)
             /\ Confirmed(u, step)' => Confirmed(u, step)
             /\ Asked(u)' = Asked(u)
  <2>1. Sent(u, step) => Sent(u, step)'
    <3>1. CASE u # t
      BY <1>2, <3>1 DEF Sent
    <3>2. CASE u = t
      BY <1>2, <3>2, PastSteps DEF Sent
    <3> QED BY <3>1, <3>2
  <2>2. ASSUME NEW i \in 1 .. Len(outbox'), Is(outbox'[i], u, step), outbox'[i].ok
        PROVE  Confirmed(u, step)
    BY <2>2, <1>4 DEF Confirmed
  <2>3. Confirmed(u, step)' => Confirmed(u, step)
    BY <2>2 DEF Confirmed, Is
  <2> QED BY <2>1, <2>3, <1>t DEF ArgOf, Asked, OnItsWay, Is
<1>8. SentOnce'
  <2> SUFFICES ASSUME NEW u \in Task, NEW step \in Steps
               PROVE  /\ \A i \in 1 .. Len(inbox') :
                            Is(inbox'[i], u, step) =>
                               /\ Sent(u, step)'
                               /\ u \notin crossed' \/ step = "read" =>
                                     inbox'[i].arg = ArgOf(u, step)'
                               /\ \A j \in 1 .. Len(inbox') :
                                     Is(inbox'[j], u, step) => i = j
                      /\ \A i \in 1 .. Len(outbox') :
                            Is(outbox'[i], u, step) =>
                               /\ Sent(u, step)'
                               /\ step = "read" =>
                                     outbox'[i].recipe = Stored[op'[u].slot]
    BY DEF SentOnce, Is
  <2>1. ASSUME NEW i \in 1 .. Len(inbox'), Is(inbox'[i], u, step)
        PROVE  /\ Sent(u, step)'
               /\ u \notin crossed' \/ step = "read" =>
                     inbox'[i].arg = ArgOf(u, step)'
               /\ \A j \in 1 .. Len(inbox') : Is(inbox'[j], u, step) => i = j
    BY <2>1, <1>7, <1>t DEF SentOnce
  <2>2. ASSUME NEW i \in 1 .. Len(outbox'), Is(outbox'[i], u, step)
        PROVE  /\ Sent(u, step)'
               /\ step = "read" => outbox'[i].recipe = Stored[op'[u].slot]
    BY <2>2, <1>4, <1>7, <1>t DEF SentOnce
  <2> QED BY <2>1, <2>2
<1>9. t \notin crossed' => a.by = t /\ a.step = at[t] /\ Confirmed(t, at[t])
  <2>1. a.by = t /\ a.step = at[t] => Is(outbox[1], t, at[t]) /\ outbox[1].ok
    BY <1>1 DEF Is
  <2> QED BY <2>1, <1>1, <1>t DEF Confirmed
<1>10. Written'
  <2> SUFFICES ASSUME NEW u \in Task \ crossed'
               PROVE  /\ at'[u] \in Steps \ {"read"} => held'[u] = Stored[op'[u].slot]
                      /\ made'[u] = None /\ HasCopied(u)' =>
                            scratch' = [by |-> u, is |-> Asked(u).cup']
                      /\ made'[u] = None /\ HasNamed(u)' =>
                            label' = [by |-> u, is |-> Asked(u).name']
                      /\ Confirmed(u, "start")' => made'[u] # None
    BY DEF Written
  <2>1. u \in Task \ crossed
    BY <1>t
  <2>2. HasCopied(u)' => HasCopied(u)
    <3>1. at'[u] \in {"name", "start"} => at[u] \in {"name", "start"} \/ Confirmed(u, "copy")
      BY <1>2, <1>9 DEF NextOf, Steps
    <3> QED BY <3>1, <1>7 DEF HasCopied, Steps
  <2>3. HasNamed(u)' => HasNamed(u)
    <3>1. at'[u] = "start" => at[u] = "start" \/ Confirmed(u, "name")
      BY <1>2, <1>9 DEF NextOf, Steps
    <3> QED BY <3>1, <1>7 DEF HasNamed, Steps
  <2>4. at'[u] \in Steps \ {"read"} => held'[u] = Stored[op'[u].slot]
    <3>1. CASE u # t
      BY <1>2, <1>5, <1>t, <2>1, <3>1 DEF Written
    <3>2. CASE u = t /\ at[t] = "read"
      BY <1>3, <1>5, <1>9, <1>t, <3>2
    <3>3. CASE u = t /\ at[t] # "read"
      BY <1>2, <1>5, <1>t, <2>1, <3>3 DEF Written
    <3> QED BY <3>1, <3>2, <3>3
  <2>5. Confirmed(u, "start")' => Confirmed(u, "start")
    BY <1>7 DEF Steps
  <2> QED BY <2>1, <2>2, <2>3, <2>4, <2>5, <1>7, <1>t DEF Written, Steps
<1>11. MadeOnce'
  BY <1>7, <1>t DEF MadeOnce, Steps
<1>12. RightDrink'
  BY <1>7, <1>t DEF RightDrink, Steps
<1>13. DoneMeansMade'
  <2> SUFFICES ASSUME NEW u \in Task \ crossed', op'[u].kind = "brew", at'[u] = "done"
               PROVE  made'[u] # None
    BY DEF DoneMeansMade
  <2>1. u \in Task \ crossed
    BY <1>t
  <2>2. CASE u # t
    BY <1>2, <1>t, <2>1, <2>2 DEF DoneMeansMade
  <2>3. CASE u = t
    <3>1. at[t] = "start"
      BY <1>2, <2>3 DEF NextOf, Steps
    <3>2. Confirmed(t, "start")
      BY <1>9, <2>3, <3>1
    <3> QED BY <2>1, <2>3, <3>2, <1>t DEF Written
  <2> QED BY <2>2, <2>3
<1> QED BY <1>6, <1>8, <1>10, <1>11, <1>12, <1>13

-----------------------------------------------------------------------------
(* Where the staged settings come from.                                    *)

\* They come from nowhere in particular, or nothing about it changes.
LEMMA SourceKept ==
    ASSUME IInv,
           \/ source' = None
           \/ /\ UNCHANGED <<settings, source>>
              /\ \A u \in Task : /\ Selecting(u)' = Selecting(u)
                                 /\ Selecting(u) => op'[u].slot = op[u].slot
    PROVE  StagedIsStored' /\ OneSource'
<1>1. CASE source' = None
  BY <1>1 DEF StagedIsStored, OneSource
<1>2. CASE /\ UNCHANGED <<settings, source>>
           /\ \A u \in Task : /\ Selecting(u)' = Selecting(u)
                              /\ Selecting(u) => op'[u].slot = op[u].slot
  <2>1. StagedIsStored /\ OneSource
    BY DEF IInv
  <2>2. StagedIsStored'
    BY <1>2, <2>1 DEF StagedIsStored, ChangesNothing
  <2>3. OneSource'
    BY <1>2, <2>1 DEF OneSource
  <2> QED BY <2>2, <2>3
<1> QED BY <1>1, <1>2

\* A selection makes its slot their source, unless another one is under way.
LEMMA SelectSource ==
    ASSUME IInv, NEW t \in Task, NEW selector, NEW slot,
           Select(t, selector, slot)
    PROVE  StagedIsStored' /\ OneSource'
<1>1. CASE \E u \in Task : Selecting(u)
  BY <1>1, SourceKept DEF Select
<1>2. CASE ~ \E u \in Task : Selecting(u)
  <2>1. /\ source' = slot
        /\ op'[t].kind = "select" /\ op'[t].slot = slot /\ at'[t] = "read"
        /\ \A u \in Task \ {t} : op'[u] = op[u] /\ at'[u] = at[u]
    BY <1>2 DEF Select, Begin, NoOp, IInv, TypeOK
  <2>2. Selecting(t)' /\ \A u \in Task : Selecting(u)' => u = t
    BY <1>2, <2>1 DEF Selecting
  <2> QED BY <2>1, <2>2 DEF StagedIsStored, OneSource
<1> QED BY <1>1, <1>2

\* A selection that reads its recipe stages it.
LEMMA SeedSource ==
    ASSUME IInv, NEW t \in Task, Selecting(t), NEW a,
           a.recipe = Stored[op[a.by].slot], a.recipe \in Recipe,
           settings' = Seeded(settings, a.recipe.c1),
           at' = [at EXCEPT ![t] = "done"], op' = op,
           source' = IF a.by = t THEN source ELSE None
    PROVE  StagedIsStored' /\ OneSource'
<1> SUFFICES ASSUME source' # None
             PROVE  StagedIsStored' /\ OneSource'
  BY DEF StagedIsStored, OneSource
<1>1. /\ a.by = t /\ source' = source
      /\ op[t].slot = source
      /\ \A u \in Task : ~Selecting(u)'
  <2>1. \A u \in Task : Selecting(u) => u = t
    BY DEF IInv, OneSource
  <2>2. \A u \in Task : ~Selecting(u)'
    BY <2>1 DEF Selecting, IInv, TypeOK
  <2> QED BY <2>2 DEF IInv, OneSource
<1> DEFINE c == Stored[source].c1
<1>2. settings \in Settings /\ c = a.recipe.c1 /\ c \in Component
  BY <1>1 DEF IInv, TypeOK, Recipe
<1>3. ASSUME Nameable(c)
      PROVE  Overridden(c, Filled(NoOverride, settings')) =
                [c EXCEPT !.blend = IF settings'.blend = 0 THEN @
                                    ELSE settings'.blend]
  <2>1. settings'.blend = settings.blend
    BY <1>2 DEF Seeded, Settings
  <2>2. None \notin Int
    BY NoneIsNoValue
  <2>3. Overridden(c, Filled(NoOverride, Seeded(settings, c))) =
          [c EXCEPT !.blend = IF settings.blend = 0 THEN @ ELSE settings.blend]
    BY <1>2, <1>3, <2>2, SeededChangesNothing
  <2>4. settings' = Seeded(settings, c)
    BY <1>2
  <2> HIDE DEF c
  <2> QED BY <2>1, <2>3, <2>4
<1>4. StagedIsStored'
  BY <1>1, <1>3 DEF StagedIsStored, ChangesNothing
<1>5. OneSource'
  BY <1>1 DEF OneSource
<1> QED BY <1>4, <1>5

-----------------------------------------------------------------------------
(* The invariant, action by action.                                        *)

LEMMA Initially == Init => IInv
<1> SUFFICES ASSUME Init
             PROVE  IInv
  OBVIOUS
<1>1. /\ \A t \in Task : /\ at[t] = "idle" /\ made[t] = None
                         /\ op[t] = NoOp /\ held[t] = None
      /\ lock = None /\ inbox = <<>> /\ outbox = <<>> /\ source = None
      /\ Len(inbox) = 0 /\ Len(outbox) = 0
  BY DEF Init
<1>2. TypeOK
  <2>1. op \in [Task -> Operation]
    <3>1. NoOp \in Operation
      BY NoOverrideType DEF NoOp, Operation
    <3> QED BY <3>1 DEF Init
  <2>2. selected \in [menu : Menu, keys : Keys]
    BY SlotsAreIds DEF Init
  <2>3. settings \in Settings
    BY DEF Init, Settings, Intensities, Temperatures, Blends
  <2>4. inbox \in Seq(CommandType) /\ outbox \in Seq(AnswerType)
        /\ Len(inbox) <= MaxWire /\ Len(outbox) <= MaxWire
    BY <1>1, WireIsBounded
  <2>5. /\ at \in [Task -> Steps \cup Ends]
        /\ held \in [Task -> Recipe \cup {None}]
        /\ made \in [Task -> Drinks \cup {None}]
    BY DEF Init, Ends
  <2>6. \A t \in Task : /\ at[t] # "idle" => op[t].slot \in Slots
                        /\ at[t] \in Steps \ {"read"} => held[t] # None
    BY <1>1 DEF Steps
  <2>7. /\ up \in BOOLEAN /\ crossed \subseteq Task
        /\ scratch = Unwritten /\ label = Unwritten
    BY DEF Init
  <2> QED BY <1>1, <2>1, <2>2, <2>3, <2>4, <2>5, <2>6, <2>7 DEF TypeOK
<1>3. \A t \in Task, step \in Steps :
         ~OnItsWay(t, step) /\ ~Confirmed(t, step)
  BY <1>1 DEF OnItsWay, Confirmed
<1>4. RightDrink /\ DoneMeansMade /\ MadeOnce
  BY <1>1 DEF RightDrink, DoneMeansMade, MadeOnce
<1>5. StagedIsStored /\ OneSource
  BY <1>1 DEF StagedIsStored, OneSource
<1>6. SentOnce
  BY <1>1 DEF SentOnce
<1>7. Written
  <2>1. \A t \in Task : ~HasCopied(t) /\ ~HasNamed(t) /\ ~Confirmed(t, "start")
    BY <1>1, <1>3 DEF HasCopied, HasNamed, Steps
  <2> QED BY <1>1, <2>1 DEF Written, Steps
<1> QED BY <1>2, <1>4, <1>5, <1>6, <1>7 DEF IInv

\* Of an operation that begins, the types.
LEMMA BeginTyped ==
    ASSUME TypeOK, NEW t \in Task, NEW operation \in Operation,
           operation.slot \in Slots, Begin(t, operation),
           UNCHANGED <<held, lock, inbox, outbox, up, settings, crossed, machine>>,
           selected' \in [menu : Menu, keys : Keys],
           source' \in Slots \cup {None}
    PROVE  TypeOK'
<1>1. /\ op' = [op EXCEPT ![t] = operation] /\ at' = [at EXCEPT ![t] = "read"]
      /\ UNCHANGED <<scratch, label, made>>
  BY DEF Begin, machine
<1>2. op' \in [Task -> Operation] /\ at' \in [Task -> Steps \cup Ends]
  BY <1>1 DEF TypeOK, Steps
<1>3. ASSUME NEW u \in Task
      PROVE  /\ at'[u] # "idle" => op'[u].slot \in Slots
             /\ at'[u] \in Steps \ {"read"} => held'[u] # None
  <2>1. CASE u = t
    BY <1>1, <2>1 DEF TypeOK
  <2>2. CASE u # t
    BY <1>1, <2>2 DEF TypeOK
  <2> QED BY <2>1, <2>2
<1>4. lock' # None => at'[lock'] \in Steps
  <2>1. at'[t] \in Steps /\ \A u \in Task \ {t} : at'[u] = at[u]
    BY <1>1 DEF TypeOK, Steps
  <2> QED BY <2>1 DEF TypeOK
<1> QED BY <1>1, <1>2, <1>3, <1>4 DEF TypeOK

LEMMA AskKeeps ==
    ASSUME IInv, NEW t \in Task, Ask(t)
    PROVE  IInv'
<1>t. TypeOK /\ op \in [Task -> Operation] /\ settings \in Settings
      /\ selected \in [menu : Menu, keys : Keys]
      /\ source \in Slots \cup {None}
  BY DEF IInv, TypeOK
<1>1. ASSUME NEW selector \in {"menu", "keys"}, NEW slot \in Slots,
             selector = "menu" => slot \in Menu,
             selector = "keys" => slot \in Keys,
             Select(t, selector, slot)
      PROVE  IInv'
  <2> DEFINE operation == [NoOp EXCEPT !.kind = "select", !.slot = slot]
  <2>1. operation \in Operation /\ operation.slot \in Slots
    BY NoOverrideType DEF Operation, NoOp
  <2>2. /\ Begin(t, operation)
        /\ UNCHANGED <<held, lock, inbox, outbox, up, settings, crossed, machine>>
        /\ selected' = [selected EXCEPT ![selector] = slot]
        /\ source' \in {slot, None}
    BY <1>1 DEF Select
  <2>3. selected' \in [menu : Menu, keys : Keys]
    BY <1>1, <1>t, <2>2
  <2> HIDE DEF operation
  <2>4. TypeOK'
    BY <1>t, <2>1, <2>2, <2>3, BeginTyped
  <2>5. SentOnce' /\ Written' /\ MadeOnce' /\ RightDrink' /\ DoneMeansMade'
    BY <2>2, BeginKeeps
  <2>6. StagedIsStored' /\ OneSource'
    BY <1>1, SelectSource
  <2> QED BY <2>4, <2>5, <2>6 DEF IInv
<1>2. ASSUME NEW operation \in Operation, operation.slot \in Slots,
             operation.kind = "brew", Begin(t, operation),
             UNCHANGED <<held, lock, inbox, outbox, up, settings, selected,
                         source, crossed, machine>>
      PROVE  IInv'
  <2>1. TypeOK'
    BY <1>2, <1>t, BeginTyped
  <2>2. SentOnce' /\ Written' /\ MadeOnce' /\ RightDrink' /\ DoneMeansMade'
    BY <1>2, BeginKeeps
  <2>3. ASSUME NEW u \in Task
        PROVE  /\ Selecting(u)' = Selecting(u)
               /\ Selecting(u) => op'[u].slot = op[u].slot
    <3>1. CASE u = t
      BY <1>2, <3>1 DEF Selecting, Begin, IInv, TypeOK
    <3>2. CASE u # t
      BY <1>2, <3>2 DEF Selecting, Begin, IInv, TypeOK
    <3> QED BY <3>1, <3>2
  <2>4. StagedIsStored' /\ OneSource'
    BY <1>2, <2>3, SourceKept
  <2> QED BY <2>1, <2>2, <2>4 DEF IInv
<1>3. ASSUME NEW slot \in Menu, Select(t, "menu", slot)
      PROVE  IInv'
  BY <1>1, <1>3 DEF Slots
<1>4. ASSUME NEW slot \in Keys, Select(t, "keys", slot)
      PROVE  IInv'
  BY <1>1, <1>4 DEF Slots
<1>5. ASSUME NEW slot \in Slots, NEW call \in Calls, Brew(t, slot, call)
      PROVE  IInv'
  <2> DEFINE operation == [kind |-> "brew", slot |-> slot,
                           overrides |-> Filled(call.overrides, settings),
                           cups |-> Given(call.cups, settings.cups)]
  <2>1. slot \in Slots /\ call.overrides \in Override /\ call.cups \in BOOLEAN \cup {None}
    BY <1>5, <1>t, CallsType DEF Slots, Call
  <2>2. operation \in Operation /\ operation.slot \in Slots /\ operation.kind = "brew"
    <3>1. Filled(call.overrides, settings) \in Override
      BY <1>t, <2>1, FilledType
    <3>2. Given(call.cups, settings.cups) \in BOOLEAN
      BY <1>t, <2>1 DEF Given, Settings
    <3> QED BY <2>1, <3>1, <3>2 DEF Operation
  <2>3. /\ Begin(t, operation)
        /\ UNCHANGED <<held, lock, inbox, outbox, up, settings, selected,
                       source, crossed, machine>>
    BY <1>5 DEF Brew
  <2> HIDE DEF operation
  <2> QED BY <1>2, <2>2, <2>3
<1>6. ASSUME NEW slot \in Keys, PressKey(t, slot)
      PROVE  IInv'
  <2> DEFINE operation == [NoOp EXCEPT !.kind = "brew", !.slot = slot]
  <2>1. operation \in Operation /\ operation.slot \in Slots /\ operation.kind = "brew"
    BY NoOverrideType DEF Operation, NoOp, Slots
  <2>2. /\ Begin(t, operation)
        /\ UNCHANGED <<held, lock, inbox, outbox, up, settings, selected,
                       source, crossed, machine>>
    BY <1>6 DEF PressKey
  <2> HIDE DEF operation
  <2> QED BY <1>2, <2>1, <2>2
<1> QED BY <1>3, <1>4, <1>5, <1>6 DEF Ask

\* Operations fail, messages are lost, something else is staged.
LEMMA QuietKeeps ==
    ASSUME IInv,
           UNCHANGED <<op, held, selected, scratch, label, made, crossed>>,
           up' \in BOOLEAN, settings' \in Settings, source' \in {source, None},
           at' \in [Task -> Steps \cup Ends],
           \A u \in Task : \/ at'[u] = at[u]
                           \/ at[u] \in Steps /\ at'[u] = "failed",
           lock' \in {lock, None},
           \A u \in Task : lock = u => \/ lock' = u /\ at'[u] = at[u]
                                       \/ lock' = None /\ at'[u] = "failed",
           inbox' = inbox \/ (inbox # <<>> /\ inbox' = Tail(inbox)) \/ inbox' = <<>>,
           outbox' = outbox \/ (outbox # <<>> /\ outbox' = Tail(outbox))
                     \/ outbox' = <<>>,
           \/ source' = None
           \/ settings' = settings /\ \A u \in Task : Selecting(u)' = Selecting(u)
    PROVE  IInv'
<1>t. TypeOK
  BY DEF IInv
<1>1. /\ inbox' \in Seq(CommandType) /\ Len(inbox') <= MaxWire
      /\ outbox' \in Seq(AnswerType) /\ Len(outbox') <= MaxWire
  <2>1. /\ inbox \in Seq(CommandType) /\ Len(inbox) <= MaxWire /\ Len(inbox) \in Nat
        /\ outbox \in Seq(AnswerType) /\ Len(outbox) <= MaxWire /\ Len(outbox) \in Nat
        /\ MaxWire \in Nat
    BY <1>t, WireIsBounded DEF TypeOK
  <2>2. inbox' \in Seq(CommandType) /\ Len(inbox') <= Len(inbox)
    BY <2>1, Fewer
  <2>3. outbox' \in Seq(AnswerType) /\ Len(outbox') <= Len(outbox)
    BY <2>1, Fewer
  <2>4. Len(inbox') \in Nat /\ Len(outbox') \in Nat
    BY <2>2, <2>3
  <2> QED BY <2>1, <2>2, <2>3, <2>4
<1>2. \A u \in Task : /\ at'[u] # "idle" => op'[u].slot \in Slots
                      /\ at'[u] \in Steps \ {"read"} => held'[u] # None
  BY <1>t DEF TypeOK, Steps
<1>3. lock' \in Task \cup {None} /\ (lock' # None => at'[lock'] \in Steps)
  BY <1>t DEF TypeOK
<1>4. source' \in Slots \cup {None}
  BY <1>t DEF TypeOK
<1>5. TypeOK'
  BY <1>1, <1>2, <1>3, <1>4, <1>t DEF TypeOK
<1>6. \A u \in Task :
         \/ at'[u] = at[u]
         \/ /\ at[u] \in Steps /\ at'[u] \in {"done", "failed"}
            /\ op[u].kind = "brew" => at'[u] = "failed"
  OBVIOUS
<1>7. \A u \in Task : lock = u => lock' = u \/ at'[u] \in {"done", "failed"}
  OBVIOUS
<1>8. SentOnce' /\ Written' /\ MadeOnce' /\ RightDrink' /\ DoneMeansMade'
  BY <1>5, <1>6, <1>7, Quieter
<1>9. StagedIsStored' /\ OneSource'
  BY SourceKept
<1> QED BY <1>5, <1>8, <1>9 DEF IInv

\* A request, or the task that was about to make one, fails.
LEMMA FailsTyped ==
    ASSUME TypeOK, NEW t \in Task, at[t] \in Steps, Fails(t), op' = op
    PROVE  /\ at' \in [Task -> Steps \cup Ends]
           /\ at'[t] = "failed" /\ \A u \in Task \ {t} : at'[u] = at[u]
           /\ source' \in {source, None}
           /\ source' = None \/ \A u \in Task : Selecting(u)' = Selecting(u)
<1>1. at' = [at EXCEPT ![t] = "failed"] /\ at \in [Task -> Steps \cup Ends]
  BY DEF Fails, TypeOK
<1>2. /\ at' \in [Task -> Steps \cup Ends]
      /\ at'[t] = "failed" /\ \A u \in Task \ {t} : at'[u] = at[u]
  BY <1>1 DEF Ends
<1>3. source' = None \/ \A u \in Task : Selecting(u)' = Selecting(u)
  BY <1>2 DEF Fails, Selecting
<1>4. source' \in {source, None}
  BY DEF Fails
<1> QED BY <1>2, <1>3, <1>4

LEMMA StageKeeps ==
    ASSUME IInv, NEW edit \in Edits, Stage(edit)
    PROVE  IInv'
<1>1. /\ UNCHANGED <<op, at, held, lock, inbox, outbox, up, selected, scratch,
                     label, made, crossed>>
      /\ settings' \in Settings /\ source' = None
  BY EditsType DEF Stage, machine
<1>2. at \in [Task -> Steps \cup Ends] /\ up \in BOOLEAN
  BY DEF IInv, TypeOK
<1> QED BY <1>1, <1>2, QuietKeeps

LEMMA StaysTheSame ==
    ASSUME IInv, UNCHANGED <<op, at, held, lock, settings, selected, source,
                             scratch, label, made, crossed>>,
           up' \in BOOLEAN,
           inbox' = inbox \/ (inbox # <<>> /\ inbox' = Tail(inbox)),
           outbox' = outbox \/ (outbox # <<>> /\ outbox' = Tail(outbox))
    PROVE  IInv'
<1>1. at \in [Task -> Steps \cup Ends] /\ settings \in Settings
  BY DEF IInv, TypeOK
<1>2. \A u \in Task : Selecting(u)' = Selecting(u)
  BY DEF Selecting
<1> QED BY <1>1, <1>2, QuietKeeps

LEMMA FailureKeeps ==
    ASSUME IInv,
           \/ \E t \in Task : NotConnected(t) \/ TimeOut(t)
           \/ Drop
    PROVE  IInv'
<1>t. TypeOK /\ at \in [Task -> Steps \cup Ends] /\ settings \in Settings
      /\ up \in BOOLEAN
  BY DEF IInv, TypeOK
<1>l. /\ \A u \in Task : lock = u => at[u] \in Steps
      /\ lock # None => lock \in Task /\ at[lock] \in Steps
  BY NoneIsNoValue DEF IInv, TypeOK
<1>1. ASSUME NEW t \in Task, NotConnected(t)
      PROVE  IInv'
  <2>1. /\ at[t] \in Steps /\ lock = None /\ Fails(t)
        /\ UNCHANGED <<op, held, lock, inbox, outbox, up, settings, selected,
                       crossed, scratch, label, made>>
    BY <1>1 DEF NotConnected, machine
  <2>2. \A u \in Task : lock # u
    BY <2>1, NoneIsNoValue
  <2> QED BY <1>t, <2>1, <2>2, FailsTyped, QuietKeeps
<1>2. ASSUME NEW t \in Task, TimeOut(t)
      PROVE  IInv'
  <2>1. /\ at[t] \in Steps /\ lock = t /\ lock' = None /\ Fails(t)
        /\ UNCHANGED <<op, held, inbox, outbox, up, settings, selected,
                       crossed, scratch, label, made>>
    BY <1>2, <1>l DEF TimeOut, machine, Released
  <2> QED BY <1>t, <2>1, FailsTyped, QuietKeeps
<1>3. ASSUME Drop
      PROVE  IInv'
  <2>1. /\ inbox' = <<>> /\ outbox' = <<>> /\ lock' = None /\ up' \in BOOLEAN
        /\ UNCHANGED <<op, held, settings, selected, crossed, scratch, label,
                       made>>
    BY <1>3 DEF Drop, machine
  <2>2. CASE lock = None
    <3>1. UNCHANGED <<at, source>> /\ \A u \in Task : lock # u
      BY <1>3, <2>2, NoneIsNoValue DEF Drop
    <3>2. \A u \in Task : Selecting(u)' = Selecting(u)
      BY <2>1, <3>1 DEF Selecting
    <3> QED BY <1>t, <2>1, <3>1, <3>2, QuietKeeps
  <2>3. CASE lock # None
    <3>1. lock \in Task /\ at[lock] \in Steps
      BY <1>l, <2>3
    <3>2. Fails(lock)
      BY <1>3, <2>3, Zenon DEF Drop
    <3> QED BY <1>t, <2>1, <3>1, <3>2, FailsTyped, QuietKeeps
  <2> QED BY <2>2, <2>3
<1> QED BY <1>1, <1>2, <1>3

LEMMA SendIsKept ==
    ASSUME IInv, NEW t \in Task, Send(t)
    PROVE  IInv'
<1>t. /\ TypeOK /\ at[t] \in Steps /\ Len(inbox) < MaxWire
      /\ lock' = t /\ inbox' = Append(inbox, Command(t))
      /\ UNCHANGED <<op, at, held, outbox, up, settings, selected, source,
                     crossed, scratch, label, made>>
  BY DEF IInv, Send, machine
<1>1. inbox' \in Seq(CommandType) /\ Len(inbox') <= MaxWire
  <2>1. inbox \in Seq(CommandType) /\ Command(t) \in CommandType /\ MaxWire \in Nat
    BY <1>t, CommandTyped, WireIsBounded DEF TypeOK
  <2>2. /\ Append(inbox, Command(t)) \in Seq(CommandType)
        /\ Len(Append(inbox, Command(t))) = Len(inbox) + 1 /\ Len(inbox) \in Nat
    BY <2>1, More
  <2> QED BY <1>t, <2>1, <2>2
<1>2. TypeOK'
  BY <1>1, <1>t DEF TypeOK
<1>3. SentOnce' /\ Written' /\ MadeOnce' /\ RightDrink' /\ DoneMeansMade'
  BY SendKeeps
<1>4. \A u \in Task : Selecting(u)' = Selecting(u)
  BY <1>t DEF Selecting
<1>5. StagedIsStored' /\ OneSource'
  BY <1>4, <1>t, SourceKept
<1> QED BY <1>2, <1>3, <1>5 DEF IInv

LEMMA RefusesIsKept ==
    ASSUME IInv, Refuses
    PROVE  IInv'
<1>t. /\ TypeOK /\ inbox # <<>> /\ inbox' = Tail(inbox)
      /\ Replies(Head(inbox), FALSE)
      /\ UNCHANGED <<op, at, held, lock, up, settings, selected, source,
                     crossed, scratch, label, made>>
  BY DEF IInv, Refuses, machine
<1>1. Answer(Head(inbox), FALSE) \in AnswerType
  BY <1>t, ReplyKeeps
<1>2. inbox' \in Seq(CommandType) /\ Len(inbox') <= MaxWire
  <2>1. /\ inbox \in Seq(CommandType) /\ Len(inbox) <= MaxWire /\ MaxWire \in Nat
    BY <1>t, WireIsBounded DEF TypeOK
  <2>2. inbox' \in Seq(CommandType) /\ Len(inbox') <= Len(inbox)
    BY <1>t, <2>1, Fewer
  <2> QED BY <2>1, <2>2
<1>3. outbox' \in Seq(AnswerType) /\ Len(outbox') <= MaxWire
  <2>1. outbox \in Seq(AnswerType) /\ MaxWire \in Nat
        /\ Len(outbox) < MaxWire /\ outbox' = Append(outbox, Answer(Head(inbox), FALSE))
    BY <1>t, WireIsBounded DEF TypeOK, Replies
  <2>2. outbox' \in Seq(AnswerType) /\ Len(outbox') = Len(outbox) + 1
        /\ Len(outbox) \in Nat
    BY <1>1, <2>1, More
  <2>3. Len(outbox) + 1 <= MaxWire
    BY <2>1, <2>2
  <2> QED BY <2>2, <2>3
<1>4. TypeOK'
  BY <1>2, <1>3, <1>t DEF TypeOK
<1>5. SentOnce' /\ Written' /\ MadeOnce' /\ RightDrink' /\ DoneMeansMade'
  BY RefusesKeeps
<1>6. \A u \in Task : Selecting(u)' = Selecting(u)
  BY <1>t DEF Selecting
<1>7. StagedIsStored' /\ OneSource'
  BY <1>6, <1>t, SourceKept
<1> QED BY <1>4, <1>5, <1>7 DEF IInv

LEMMA CarriesOutIsKept ==
    ASSUME IInv, CarriesOut
    PROVE  IInv'
<1>1. UNCHANGED <<op, at, settings, source>>
  BY DEF CarriesOut
<1>2. \A u \in Task : Selecting(u)' = Selecting(u)
  BY <1>1 DEF Selecting
<1>3. StagedIsStored' /\ OneSource'
  BY <1>1, <1>2, SourceKept
<1> QED BY <1>3, CarriesOutKeeps DEF IInv

\* Nobody waits for the answer, it is a refusal, it ends a selection, or it
\* leads a brew on.
LEMMA DeliverKeeps ==
    ASSUME IInv, Deliver
    PROVE  IInv'
<1>a. PICK a : a = Head(outbox)
  OBVIOUS
<1>l. PICK t : t = lock
  OBVIOUS
<1>t. /\ TypeOK /\ SentOnce /\ outbox # <<>> /\ outbox \in Seq(AnswerType)
      /\ at \in [Task -> Steps \cup Ends] /\ settings \in Settings
      /\ crossed \subseteq Task /\ t \in Task \cup {None}
      /\ t # None => at[t] \in Steps
      /\ op' = op
  BY <1>l DEF IInv, TypeOK, Deliver
<1>w. IF t # None /\ WaitKey(at[t]) = WaitKey(a.step)
      THEN Resolve(t, a)
      ELSE UNCHANGED <<at, held, lock, settings, source, crossed>>
  BY <1>a, <1>l DEF Deliver
<1>1. CASE ~(t # None /\ WaitKey(at[t]) = WaitKey(a.step))
  <2>1. UNCHANGED <<at, held, lock, settings, source, crossed>>
    BY <1>1, <1>w
  <2>2. TypeOK' /\ SentOnce' /\ Written' /\ MadeOnce' /\ RightDrink' /\ DoneMeansMade'
    BY <1>t, <2>1, AnswerEnds
  <2>3. \A u \in Task : Selecting(u)' = Selecting(u)
    BY <1>t, <2>1 DEF Selecting
  <2>4. StagedIsStored' /\ OneSource'
    BY <1>t, <2>1, <2>3, SourceKept
  <2> QED BY <2>2, <2>4 DEF IInv
<1>2. CASE t # None /\ WaitKey(at[t]) = WaitKey(a.step)
  <2>t. /\ Resolve(t, a) /\ t \in Task /\ at[t] \in Steps
        /\ lock' = None /\ crossed \subseteq crossed' /\ crossed' \subseteq Task
        /\ lock = t
    BY <1>2, <1>w, <1>l, <1>t DEF Resolve, Released
  <2>1. CASE ~a.ok
    <3>1. Fails(t) /\ UNCHANGED <<held, settings>>
      BY <2>t, <2>1 DEF Resolve, Accepted
    <3>2. /\ at' \in [Task -> Steps \cup Ends]
          /\ at'[t] = "failed" /\ \A u \in Task \ {t} : at'[u] = at[u]
          /\ source' \in {source, None}
          /\ source' = None \/ \A u \in Task : Selecting(u)' = Selecting(u)
          /\ at' = [at EXCEPT ![t] = at'[t]]
      <4>1. at' = [at EXCEPT ![t] = at'[t]]
        BY <1>t, <2>t, <3>1 DEF Fails
      <4> QED BY <1>t, <2>t, <3>1, <4>1, FailsTyped
    <3>3. TypeOK' /\ SentOnce' /\ Written' /\ MadeOnce' /\ RightDrink' /\ DoneMeansMade'
      BY <1>t, <2>t, <3>1, <3>2, AnswerEnds
    <3>4. StagedIsStored' /\ OneSource'
      BY <1>t, <3>1, <3>2, SourceKept
    <3> QED BY <3>3, <3>4 DEF IInv
  <2>2. CASE a.ok /\ Selecting(t)
    <3>1. /\ settings' = Seeded(settings, a.recipe.c1)
          /\ at' = [at EXCEPT ![t] = "done"]
          /\ source' = IF a.by = t THEN source ELSE None
          /\ held' = held
      BY <2>t, <2>2 DEF Resolve, Accepted
    <3>2. a.recipe = Stored[op[a.by].slot] /\ a.recipe \in Recipe
      <4>1. a = outbox[1] /\ 1 \in 1 .. Len(outbox) /\ a \in AnswerType
        BY <1>a, <1>t, First
      <4>2. a.by \in Task /\ a.step = "read"
        <5>1. a.by \in Task /\ a.step \in Steps
          BY <4>1, AnswerFacts
        <5> QED BY <1>2, <2>2, <5>1 DEF Selecting, WaitKey, Steps
      <4>3. Is(outbox[1], a.by, "read")
        BY <4>1, <4>2 DEF Is
      <4>4. Sent(a.by, "read") /\ a.recipe = Stored[op[a.by].slot]
        BY <1>t, <4>1, <4>2, <4>3 DEF SentOnce, Steps
      <4>5. op[a.by].slot \in Slots
        BY <1>t, <4>2, <4>4, PastFacts DEF Sent, TypeOK
      <4> QED BY <4>4, <4>5, StoredType
    <3>3. /\ at' \in [Task -> Steps \cup Ends]
          /\ at'[t] = "done" /\ \A u \in Task \ {t} : at'[u] = at[u]
          /\ at' = [at EXCEPT ![t] = at'[t]]
          /\ op[t].kind # "brew"
      BY <1>t, <2>t, <2>2, <3>1 DEF Ends, Selecting
    <3>4. settings' \in Settings
      <4>1. a.recipe.c1 \in Component
        BY <3>2 DEF Recipe
      <4> QED BY <1>t, <3>1, <4>1, SeededType
    <3>5. source' \in {source, None}
      BY <3>1
    <3>6. TypeOK' /\ SentOnce' /\ Written' /\ MadeOnce' /\ RightDrink' /\ DoneMeansMade'
      BY <1>t, <2>t, <3>1, <3>3, <3>4, <3>5, AnswerEnds
    <3>7. StagedIsStored' /\ OneSource'
      BY <1>t, <2>t, <2>2, <3>1, <3>2, SeedSource
    <3> QED BY <3>6, <3>7 DEF IInv
  <2>3. CASE a.ok /\ ~Selecting(t)
    <3>1. TypeOK' /\ SentOnce' /\ Written' /\ MadeOnce' /\ RightDrink' /\ DoneMeansMade'
      BY <1>2, <1>a, <2>t, <2>3, AnswerLeadsOn
    <3>2. /\ at' = [at EXCEPT ![t] = NextOf(at[t])]
          /\ UNCHANGED <<settings, source>>
      BY <2>t, <2>3 DEF Resolve, Accepted
    <3>3. \A u \in Task : Selecting(u)' = Selecting(u)
      <4>1. at'[t] # "read"
        BY <1>t, <2>t, <3>2, StepsHaveEnds
      <4>2. ~Selecting(t)' /\ ~Selecting(t)
        BY <2>3, <4>1 DEF Selecting
      <4>3. ASSUME NEW u \in Task \ {t}
            PROVE  Selecting(u)' = Selecting(u)
        <5>1. at'[u] = at[u] /\ op'[u] = op[u]
          BY <1>t, <2>t, <3>2, <4>3
        <5> QED BY <5>1 DEF Selecting
      <4>4. ASSUME NEW u \in Task
            PROVE  Selecting(u)' = Selecting(u)
        <5>1. CASE u = t
          <6>1. Selecting(u) = FALSE /\ Selecting(u)' = FALSE
            BY <4>1, <2>3, <5>1 DEF Selecting
          <6> QED BY <6>1
        <5>2. CASE u # t
          BY <4>3, <5>2
        <5> QED BY <5>1, <5>2
      <4> QED BY <4>4
    <3>4. StagedIsStored' /\ OneSource'
      BY <1>t, <3>2, <3>3, SourceKept
    <3> QED BY <3>1, <3>4 DEF IInv
  <2> QED BY <2>1, <2>2, <2>3
<1> QED BY <1>1, <1>2

-----------------------------------------------------------------------------
(* The theorems.                                                           *)

\* Every step keeps the invariant.
THEOREM StepKeeps ==
    ASSUME IInv, [Next]_vars
    PROVE  IInv'
<1>t. at \in [Task -> Steps \cup Ends] /\ up \in BOOLEAN
  BY DEF IInv, TypeOK
<1>1. ASSUME NEW t \in Task, Ask(t)
      PROVE  IInv'
  BY <1>1, AskKeeps
<1>2. ASSUME NEW t \in Task, Send(t)
      PROVE  IInv'
  BY <1>2, SendIsKept
<1>3. ASSUME NEW t \in Task, NotConnected(t) \/ TimeOut(t)
      PROVE  IInv'
  BY <1>3, FailureKeeps
<1>4. ASSUME NEW edit \in Edits, Stage(edit)
      PROVE  IInv'
  BY <1>4, StageKeeps
<1>5. CASE Deliver
  BY <1>5, DeliverKeeps
<1>6. CASE Drop
  BY <1>6, FailureKeeps
<1>7. CASE Reconnect
  <2>1. /\ UNCHANGED <<op, at, held, lock, inbox, outbox, settings, selected,
                       source, scratch, label, made, crossed>>
        /\ up' \in BOOLEAN
    BY <1>7 DEF Reconnect, machine
  <2> QED BY <2>1, StaysTheSame
<1>8. CASE CarriesOut
  BY <1>8, CarriesOutIsKept
<1>9. CASE Refuses
  BY <1>9, RefusesIsKept
<1>10. CASE LoseCommand
  <2>1. /\ UNCHANGED <<op, at, held, lock, outbox, up, settings, selected,
                       source, scratch, label, made, crossed>>
        /\ inbox # <<>> /\ inbox' = Tail(inbox)
    BY <1>10 DEF LoseCommand, machine
  <2> QED BY <1>t, <2>1, StaysTheSame
<1>11. CASE LoseAnswer
  <2>1. /\ UNCHANGED <<op, at, held, lock, inbox, up, settings, selected,
                       source, scratch, label, made, crossed>>
        /\ outbox # <<>> /\ outbox' = Tail(outbox)
    BY <1>11 DEF LoseAnswer, machine
  <2> QED BY <1>t, <2>1, StaysTheSame
<1>12. CASE UNCHANGED vars
  <2>1. UNCHANGED <<op, at, held, lock, inbox, outbox, up, settings, selected,
                    source, scratch, label, made, crossed>>
    BY <1>12 DEF vars
  <2> QED BY <1>t, <2>1, StaysTheSame
<1> QED BY <1>1, <1>2, <1>3, <1>4, <1>5, <1>6, <1>7, <1>8, <1>9, <1>10,
           <1>11, <1>12 DEF Next

\* The inductive invariant of the brew sequence: a command is sent once and
\* says what its operation wants (services.py and MelittaMachine.brew), what
\* an undisturbed brew has written stays until it is made, and the staged
\* settings have one source.
THEOREM Invariant == Spec => []IInv
<1>1. IInv /\ [Next]_vars => IInv'
  BY StepKeeps
<1> QED BY Initially, <1>1, PTL DEF Spec

\* Type correctness of the operations, the wires, the machine's slots and the
\* coordinator's staged settings.
THEOREM TypeCorrect == Spec => []TypeOK
<1>1. IInv => TypeOK
  BY DEF IInv
<1> QED BY <1>1, Invariant, PTL

\* MelittaMachine.brew: however the answers are delayed or lost, the requests
\* refused and the link dropped, a brew nobody disturbed makes what was asked
\* for or nothing.
THEOREM DrinksAreRight == Spec => []RightDrink
<1>1. IInv => RightDrink
  BY DEF IInv
<1> QED BY <1>1, Invariant, PTL

\* MelittaMachine.brew: one that returns without an error has been made.
THEOREM DoneIsMade == Spec => []DoneMeansMade
<1>1. IInv => DoneMeansMade
  BY DEF IInv
<1> QED BY <1>1, Invariant, PTL

\* Coordinator.async_select_drink and seed_from: a selection that no other one
\* overtook or was overtaken by, which got the answer to its own read, stages
\* the values of that recipe if they all have a name, whatever edits, brews and
\* polls come in between.
THEOREM StagingIsFaithful == Spec => []StagedIsStored
<1>1. IInv => StagedIsStored
  BY DEF IInv
<1> QED BY <1>1, Invariant, PTL

-----------------------------------------------------------------------------
(* Whose answers are under way.                                            *)

\* Nothing is under way in the name of a task that has not asked.
LEMMA NothingUnderWay ==
    ASSUME IInv, NEW t \in Task, at[t] = "idle"
    PROVE  /\ \A i \in 1 .. Len(inbox) : inbox[i].by # t
           /\ \A i \in 1 .. Len(outbox) : outbox[i].by # t
<1>t. /\ SentOnce /\ inbox \in Seq(CommandType) /\ outbox \in Seq(AnswerType)
  BY DEF IInv, TypeOK
<1>1. \A step \in Steps : ~Sent(t, step)
  BY PastSteps DEF Sent, Steps
<1>2. \A i \in 1 .. Len(inbox) : inbox[i] \in CommandType
  BY <1>t
<1>3. \A i \in 1 .. Len(outbox) : outbox[i] \in AnswerType
  BY <1>t
<1>4. \A i \in 1 .. Len(inbox) : inbox[i].step \in Steps
  BY <1>2, CommandFacts
<1>5. \A i \in 1 .. Len(outbox) : outbox[i].step \in Steps
  BY <1>3, AnswerFacts
<1> QED BY <1>t, <1>1, <1>4, <1>5 DEF SentOnce, Is

\* Nothing is under way in the name of one that is not crossed, at one of its
\* requests and not waiting.
LEMMA OnlyTheOwner ==
    ASSUME OwnAnswer, NEW t \in Task \ crossed, at[t] \in Steps, lock # t
    PROVE  /\ \A i \in 1 .. Len(inbox) : inbox[i].by # t
           /\ \A i \in 1 .. Len(outbox) : outbox[i].by # t
BY DEF OwnAnswer

\* Operations end, messages are lost, others are disturbed.
LEMMA OwnKept ==
    ASSUME OrderInv, op' = op, crossed \subseteq crossed',
           \A u \in Task : \/ at'[u] \notin Steps
                           \/ at'[u] = at[u] /\ (lock = u => lock' = u),
           \A u \in Task : at[u] = "idle" => at'[u] = "idle",
           inbox' = inbox \/ (inbox # <<>> /\ inbox' = Tail(inbox)) \/ inbox' = <<>>,
           outbox' = outbox \/ (outbox # <<>> /\ outbox' = Tail(outbox))
                     \/ outbox' = <<>>
    PROVE  OwnAnswer' /\ OnlyBrews'
<1>t. OwnAnswer /\ OnlyBrews /\ inbox \in Seq(CommandType) /\ outbox \in Seq(AnswerType)
  BY DEF OrderInv, IInv, TypeOK
<1>1. PICK d \in {0, 1} : \A i \in 1 .. Len(inbox') :
                             i + d \in 1 .. Len(inbox) /\ inbox'[i] = inbox[i + d]
  BY <1>t, Fewer
<1>2. PICK e \in {0, 1} : \A i \in 1 .. Len(outbox') :
                             i + e \in 1 .. Len(outbox) /\ outbox'[i] = outbox[i + e]
  BY <1>t, Fewer
<1>3. OwnAnswer'
  <2> SUFFICES ASSUME NEW t \in Task \ crossed', at'[t] \in Steps
               PROVE  /\ \A i \in 1 .. Len(inbox') :
                            inbox'[i].by = t => lock' = t /\ inbox'[i].step = at'[t]
                      /\ \A i \in 1 .. Len(outbox') :
                            outbox'[i].by = t =>
                               /\ lock' = t /\ outbox'[i].step = at'[t]
                               /\ \A j \in 1 .. Len(outbox') : outbox'[j].by = t => i = j
                               /\ \A j \in 1 .. Len(inbox') : inbox'[j].by # t
    BY DEF OwnAnswer
  <2>1. t \in Task \ crossed /\ at[t] \in Steps /\ at'[t] = at[t] /\ (lock = t => lock' = t)
    OBVIOUS
  <2>2. /\ \A i \in 1 .. Len(inbox) :
              inbox[i].by = t => lock = t /\ inbox[i].step = at[t]
        /\ \A i \in 1 .. Len(outbox) :
              outbox[i].by = t =>
                 /\ lock = t /\ outbox[i].step = at[t]
                 /\ \A j \in 1 .. Len(outbox) : outbox[j].by = t => i = j
                 /\ \A j \in 1 .. Len(inbox) : inbox[j].by # t
    BY <1>t, <2>1 DEF OwnAnswer
  <2>3. \A i \in 1 .. Len(inbox') :
            inbox'[i].by = t => lock' = t /\ inbox'[i].step = at'[t]
    BY <1>1, <2>1, <2>2
  <2>4. ASSUME NEW i \in 1 .. Len(outbox'), outbox'[i].by = t
        PROVE  /\ lock' = t /\ outbox'[i].step = at'[t]
               /\ \A j \in 1 .. Len(outbox') : outbox'[j].by = t => i = j
               /\ \A j \in 1 .. Len(inbox') : inbox'[j].by # t
    <3>1. i + e \in 1 .. Len(outbox) /\ outbox[i + e] = outbox'[i]
      BY <1>2
    <3>2. /\ lock = t /\ outbox[i + e].step = at[t]
          /\ \A j \in 1 .. Len(outbox) : outbox[j].by = t => i + e = j
          /\ \A j \in 1 .. Len(inbox) : inbox[j].by # t
      BY <2>2, <2>4, <3>1
    <3>3. \A j \in 1 .. Len(outbox') : outbox'[j].by = t => i + e = j + e
      BY <1>2, <3>2
    <3>4. \A j \in 1 .. Len(outbox') : outbox'[j].by = t => i = j
      BY <3>3
    <3>5. \A j \in 1 .. Len(inbox') : inbox'[j].by # t
      BY <1>1, <3>2
    <3> QED BY <2>1, <3>1, <3>2, <3>4, <3>5
  <2> QED BY <2>3, <2>4
<1>4. OnlyBrews'
  <2>1. \A t \in Task : /\ at'[t] # "idle" => op'[t].kind \in {"select", "brew"}
                        /\ at'[t] \in Steps \ {"read"} => op'[t].kind = "brew"
    BY <1>t DEF OnlyBrews
  <2>2. \A t \in Task, i \in 1 .. Len(inbox') :
           inbox'[i].by = t /\ inbox'[i].step # "read" => op'[t].kind = "brew"
    BY <1>t, <1>1 DEF OnlyBrews
  <2> QED BY <2>1, <2>2 DEF OnlyBrews
<1> QED BY <1>3, <1>4

\* An operation begins.
LEMMA OwnBegins ==
    ASSUME OrderInv, NEW t \in Task, NEW operation, Begin(t, operation),
           operation.kind \in {"select", "brew"},
           UNCHANGED <<lock, inbox, outbox, crossed>>
    PROVE  OwnAnswer' /\ OnlyBrews'
<1>t. /\ OwnAnswer /\ OnlyBrews /\ IInv /\ at[t] = "idle"
      /\ op' = [op EXCEPT ![t] = operation] /\ at' = [at EXCEPT ![t] = "read"]
      /\ op \in [Task -> Operation] /\ at \in [Task -> Steps \cup Ends]
  BY DEF OrderInv, IInv, TypeOK, Begin
<1>1. /\ \A i \in 1 .. Len(inbox) : inbox[i].by # t
      /\ \A i \in 1 .. Len(outbox) : outbox[i].by # t
  BY <1>t, NothingUnderWay
<1>2. /\ at'[t] = "read" /\ op'[t] = operation
      /\ \A u \in Task \ {t} : at'[u] = at[u] /\ op'[u] = op[u]
  BY <1>t
<1>3. OwnAnswer'
  BY <1>t, <1>1, <1>2 DEF OwnAnswer
<1>4. OnlyBrews'
  BY <1>t, <1>1, <1>2 DEF OnlyBrews
<1> QED BY <1>3, <1>4

\* A request is written: nothing else is under way for whoever is not crossed.
LEMMA OwnSent ==
    ASSUME OrderInv, NEW t \in Task, Send(t)
    PROVE  OwnAnswer' /\ OnlyBrews'
<1>t. /\ OwnAnswer /\ OnlyBrews /\ at[t] \in Steps /\ lock = None /\ lock' = t
      /\ inbox' = Append(inbox, Command(t))
      /\ UNCHANGED <<op, at, outbox, crossed>>
      /\ inbox \in Seq(CommandType) /\ Command(t) \in CommandType
  BY CommandTyped DEF OrderInv, IInv, Send, TypeOK
<1>1. /\ Len(inbox') = Len(inbox) + 1 /\ Len(inbox) \in Nat
      /\ \A i \in 1 .. Len(inbox) : inbox'[i] = inbox[i]
      /\ inbox'[Len(inbox) + 1] = Command(t)
      /\ \A i \in 1 .. Len(inbox') : i \in 1 .. Len(inbox) \/ i = Len(inbox) + 1
  BY <1>t, More
<1>2. Command(t).by = t /\ Command(t).step = at[t]
  BY DEF Command
<1>3. \A u \in Task : lock # u
  BY <1>t, NoneIsNoValue
<1>4. ASSUME NEW u \in Task \ crossed, at[u] \in Steps
      PROVE  /\ \A i \in 1 .. Len(inbox) : inbox[i].by # u
             /\ \A i \in 1 .. Len(outbox) : outbox[i].by # u
  BY <1>t, <1>3, <1>4, OnlyTheOwner
<1>5. OwnAnswer'
  <2> SUFFICES ASSUME NEW u \in Task \ crossed, at[u] \in Steps
               PROVE  \A i \in 1 .. Len(inbox') :
                         inbox'[i].by = u => t = u /\ inbox'[i].step = at[u]
    BY <1>t, <1>4 DEF OwnAnswer
  <2> QED BY <1>1, <1>2, <1>4
<1>6. OnlyBrews'
  <2>1. \A u \in Task, i \in 1 .. Len(inbox') :
           inbox'[i].by = u /\ inbox'[i].step # "read" => op[u].kind = "brew"
    BY <1>t, <1>1, <1>2 DEF OnlyBrews
  <2> QED BY <1>t, <2>1 DEF OnlyBrews
<1> QED BY <1>5, <1>6

\* The machine answers a command.
LEMMA OwnReplied ==
    ASSUME OrderInv, NEW c, c = Head(inbox), inbox # <<>>, NEW ok \in BOOLEAN,
           Replies(c, ok), inbox' = Tail(inbox),
           UNCHANGED <<op, at, lock>>, crossed \subseteq crossed'
    PROVE  OwnAnswer' /\ OnlyBrews'
<1>t. /\ OwnAnswer /\ OnlyBrews /\ SentOnce
      /\ inbox \in Seq(CommandType) /\ outbox \in Seq(AnswerType)
      /\ outbox' = Append(outbox, Answer(c, ok))
  BY DEF OrderInv, IInv, TypeOK, Replies
<1>a. PICK a : a = Answer(c, ok)
  OBVIOUS
<1>0. /\ a \in AnswerType /\ a.by = c.by /\ a.step = c.step
      /\ outbox' = Append(outbox, a)
  <2>1. a \in AnswerType
    BY <1>a, ReplyKeeps DEF OrderInv
  <2> QED BY <1>a, <1>t, <2>1 DEF Answer
<1>1. /\ Len(outbox') = Len(outbox) + 1 /\ Len(outbox) \in Nat
      /\ \A i \in 1 .. Len(outbox) : outbox'[i] = outbox[i]
      /\ outbox'[Len(outbox) + 1] = a
      /\ \A i \in 1 .. Len(outbox') : i \in 1 .. Len(outbox) \/ i = Len(outbox) + 1
  BY <1>t, <1>0, More
<1>2. /\ 1 \in 1 .. Len(inbox) /\ inbox[1] = c /\ c \in CommandType
      /\ \A i \in 1 .. Len(inbox') : i + 1 \in 1 .. Len(inbox) /\ inbox'[i] = inbox[i + 1]
  <2>1. Len(inbox') = Len(inbox) - 1 /\ Len(inbox) \in Nat
        /\ \A i \in 1 .. Len(inbox') : inbox'[i] = inbox[i + 1]
    BY <1>t
  <2> QED BY <1>t, <2>1, First
<1>3. c.step \in Steps
  BY <1>2, CommandFacts
<1>4. OwnAnswer'
  <2> SUFFICES ASSUME NEW u \in Task \ crossed', at[u] \in Steps
               PROVE  /\ \A i \in 1 .. Len(inbox') :
                            inbox'[i].by = u => lock = u /\ inbox'[i].step = at[u]
                      /\ \A i \in 1 .. Len(outbox') :
                            outbox'[i].by = u =>
                               /\ lock = u /\ outbox'[i].step = at[u]
                               /\ \A j \in 1 .. Len(outbox') : outbox'[j].by = u => i = j
                               /\ \A j \in 1 .. Len(inbox') : inbox'[j].by # u
    BY DEF OwnAnswer
  <2>1. /\ \A i \in 1 .. Len(inbox) :
              inbox[i].by = u => lock = u /\ inbox[i].step = at[u]
        /\ \A i \in 1 .. Len(outbox) :
              outbox[i].by = u =>
                 /\ lock = u /\ outbox[i].step = at[u]
                 /\ \A j \in 1 .. Len(outbox) : outbox[j].by = u => i = j
                 /\ \A j \in 1 .. Len(inbox) : inbox[j].by # u
    BY <1>t DEF OwnAnswer
  <2>2. \A i \in 1 .. Len(inbox') :
           inbox'[i].by = u => lock = u /\ inbox'[i].step = at[u]
    BY <1>2, <2>1
  <2>3. CASE c.by = u
    <3>1. lock = u /\ c.step = at[u]
      BY <1>2, <2>1, <2>3
    <3>2. \A i \in 1 .. Len(outbox) : outbox[i].by # u
      BY <1>2, <2>1, <2>3
    <3>3. \A j \in 1 .. Len(inbox) : inbox[j].by = u => j = 1
      <4>1. \A j \in 1 .. Len(inbox) : inbox[j].by = u => Is(inbox[j], u, c.step)
        BY <2>1, <3>1 DEF Is
      <4>2. Is(inbox[1], u, c.step)
        BY <1>2, <2>3 DEF Is
      <4> QED BY <1>t, <1>2, <1>3, <4>1, <4>2 DEF SentOnce
    <3>4. \A j \in 1 .. Len(inbox') : inbox'[j].by # u
      <4>1. \A j \in 1 .. Len(inbox') : inbox'[j].by = u => j + 1 = 1
        BY <1>2, <3>3
      <4> QED BY <4>1
    <3> QED BY <1>0, <1>1, <2>2, <3>1, <3>2, <3>4
  <2>4. CASE c.by # u
    <3>1. \A j \in 1 .. Len(outbox') : outbox'[j].by = u =>
             j \in 1 .. Len(outbox) /\ outbox'[j] = outbox[j]
      BY <1>0, <1>1, <2>4
    <3>2. ASSUME NEW i \in 1 .. Len(outbox'), outbox'[i].by = u
          PROVE  /\ lock = u /\ outbox'[i].step = at[u]
                 /\ \A j \in 1 .. Len(outbox') : outbox'[j].by = u => i = j
                 /\ \A j \in 1 .. Len(inbox') : inbox'[j].by # u
      <4>1. i \in 1 .. Len(outbox) /\ outbox'[i] = outbox[i] /\ outbox[i].by = u
        BY <3>1, <3>2
      <4>2. /\ lock = u /\ outbox[i].step = at[u]
            /\ \A j \in 1 .. Len(outbox) : outbox[j].by = u => i = j
            /\ \A j \in 1 .. Len(inbox) : inbox[j].by # u
        BY <2>1, <4>1
      <4>3. \A j \in 1 .. Len(outbox') : outbox'[j].by = u => i = j
        BY <3>1, <4>2
      <4>4. \A j \in 1 .. Len(inbox') : inbox'[j].by # u
        BY <1>2, <4>2
      <4> QED BY <4>1, <4>2, <4>3, <4>4
    <3> QED BY <2>2, <3>2
  <2> QED BY <2>3, <2>4
<1>5. OnlyBrews'
  <2>1. \A u \in Task, i \in 1 .. Len(inbox') :
           inbox'[i].by = u /\ inbox'[i].step # "read" => op[u].kind = "brew"
    BY <1>t, <1>2 DEF OnlyBrews
  <2> QED BY <1>t, <2>1 DEF OnlyBrews
<1> QED BY <1>4, <1>5

\* An answer arrives: the task it leads on has nothing else under way.
LEMMA OwnDelivered ==
    ASSUME OrderInv, Deliver
    PROVE  OwnAnswer' /\ OnlyBrews'
<1>a. PICK a : a = Head(outbox)
  OBVIOUS
<1>l. PICK t : t = lock
  OBVIOUS
<1>t. /\ IInv /\ OwnAnswer /\ OnlyBrews
      /\ outbox # <<>> /\ outbox' = Tail(outbox) /\ inbox' = inbox /\ op' = op
      /\ outbox \in Seq(AnswerType) /\ at \in [Task -> Steps \cup Ends]
      /\ t \in Task \cup {None} /\ (t # None => at[t] \in Steps)
  BY <1>l DEF OrderInv, IInv, TypeOK, Deliver
<1>w. IF t # None /\ WaitKey(at[t]) = WaitKey(a.step)
      THEN Resolve(t, a)
      ELSE UNCHANGED <<at, held, lock, settings, source, crossed>>
  BY <1>a, <1>l DEF Deliver
<1>1. CASE ~(t # None /\ WaitKey(at[t]) = WaitKey(a.step))
  <2>1. UNCHANGED <<at, lock, crossed>>
    BY <1>1, <1>w
  <2> QED BY <1>t, <2>1, OwnKept
<1>2. CASE t # None /\ WaitKey(at[t]) = WaitKey(a.step)
  <2>t. /\ Resolve(t, a) /\ t \in Task /\ at[t] \in Steps /\ lock = t
        /\ lock' = None /\ crossed \subseteq crossed' /\ lock # None
        /\ \A u \in Task \ {t} : lock # u
    BY <1>2, <1>w, <1>l, <1>t DEF Resolve, Released
  <2>1. ASSUME at' = [at EXCEPT ![t] = at'[t]], at'[t] \in {"done", "failed"}
        PROVE  OwnAnswer' /\ OnlyBrews'
    <3>1. \A u \in Task : \/ at'[u] \notin Steps
                          \/ at'[u] = at[u] /\ (lock = u => lock' = u)
      BY <1>t, <2>t, <2>1 DEF Steps
    <3>2. \A u \in Task : at[u] = "idle" => at'[u] = "idle"
      BY <1>t, <2>t, <2>1 DEF Steps
    <3> QED BY <1>t, <2>t, <3>1, <3>2, OwnKept
  <2>2. CASE ~a.ok
    BY <1>t, <2>t, <2>1, <2>2 DEF Resolve, Accepted, Fails
  <2>3. CASE a.ok /\ Selecting(t)
    BY <1>t, <2>t, <2>1, <2>3 DEF Resolve, Accepted
  <2>4. CASE a.ok /\ ~Selecting(t)
    <3>1. /\ at' = [at EXCEPT ![t] = NextOf(at[t])]
          /\ crossed' = IF a.by = t /\ a.step = at[t] THEN crossed ELSE crossed \cup {t}
      BY <2>t, <2>4 DEF Resolve, Accepted
    <3>2. /\ at'[t] = NextOf(at[t]) /\ at'[t] \in Steps \cup {"done"}
          /\ \A u \in Task \ {t} : at'[u] = at[u]
      BY <1>t, <2>t, <3>1, StepsHaveEnds
    <3>3. /\ 1 \in 1 .. Len(outbox) /\ outbox[1] = a
          /\ \A i \in 1 .. Len(outbox') :
                i + 1 \in 1 .. Len(outbox) /\ outbox'[i] = outbox[i + 1]
      <4>1. Len(outbox') = Len(outbox) - 1 /\ Len(outbox) \in Nat
            /\ \A i \in 1 .. Len(outbox') : outbox'[i] = outbox[i + 1]
        BY <1>t
      <4> QED BY <1>a, <1>t, <4>1, First
    <3>4. OwnAnswer'
      <4> SUFFICES ASSUME NEW u \in Task \ crossed', at'[u] \in Steps
                   PROVE  /\ \A i \in 1 .. Len(inbox) : inbox[i].by # u
                          /\ \A i \in 1 .. Len(outbox') : outbox'[i].by # u
        BY <1>t DEF OwnAnswer
      <4>1. CASE u = t
        <5>1. a.by = t /\ t \notin crossed
          BY <3>1, <4>1
        <5>2. /\ \A j \in 1 .. Len(outbox) : outbox[j].by = t => 1 = j
              /\ \A j \in 1 .. Len(inbox) : inbox[j].by # t
          BY <1>t, <2>t, <3>3, <5>1 DEF OwnAnswer
        <5>3. \A i \in 1 .. Len(outbox') : outbox'[i].by = t => i + 1 = 1
          BY <3>3, <5>2
        <5> QED BY <4>1, <5>2, <5>3
      <4>2. CASE u # t
        <5>1. u \in Task \ crossed /\ at[u] \in Steps /\ lock # u
          BY <2>t, <3>2, <4>2
        <5>2. /\ \A i \in 1 .. Len(inbox) : inbox[i].by # u
              /\ \A i \in 1 .. Len(outbox) : outbox[i].by # u
          BY <1>t, <5>1, OnlyTheOwner
        <5> QED BY <3>3, <5>2
      <4> QED BY <4>1, <4>2
    <3>5. op[t].kind = "brew"
      BY <1>t, <2>t, <2>4 DEF OnlyBrews, Selecting, Steps
    <3>6. OnlyBrews'
      BY <1>t, <3>2, <3>5 DEF OnlyBrews
    <3> QED BY <3>4, <3>6
  <2> QED BY <2>2, <2>3, <2>4
<1> QED BY <1>1, <1>2

\* The request of a task fails, or the one that is out on a link that drops.
LEMMA OwnFails ==
    ASSUME OrderInv, op' = op, crossed' = crossed, NEW t \in Task,
           at[t] \in Steps, at' = [at EXCEPT ![t] = "failed"],
           \A u \in Task \ {t} : lock = u => lock' = u,
           inbox' = inbox \/ inbox' = <<>>, outbox' = outbox \/ outbox' = <<>>
    PROVE  OwnAnswer' /\ OnlyBrews'
<1>t. at \in [Task -> Steps \cup Ends]
  BY DEF OrderInv, IInv, TypeOK
<1>1. \A u \in Task : \/ at'[u] \notin Steps
                      \/ at'[u] = at[u] /\ (lock = u => lock' = u)
  BY <1>t DEF Steps
<1>2. \A u \in Task : at[u] = "idle" => at'[u] = "idle"
  BY <1>t DEF Steps
<1> QED BY <1>1, <1>2, OwnKept

\* Every step keeps it: nobody answers twice.
THEOREM OrderStepKeeps ==
    ASSUME OrderInv, [Next]_vars
    PROVE  OrderInv'
<1>t. IInv /\ at \in [Task -> Steps \cup Ends] /\ lock \in Task \cup {None}
      /\ (lock # None => at[lock] \in Steps)
  BY DEF OrderInv, IInv, TypeOK
<1>i. IInv'
  BY <1>t, StepKeeps
<1> SUFFICES OwnAnswer' /\ OnlyBrews'
  BY <1>i DEF OrderInv
<1>0. ASSUME UNCHANGED <<op, at, lock, crossed>>,
             inbox' = inbox \/ (inbox # <<>> /\ inbox' = Tail(inbox)),
             outbox' = outbox \/ (outbox # <<>> /\ outbox' = Tail(outbox))
      PROVE  OwnAnswer' /\ OnlyBrews'
  BY <1>0, OwnKept
<1>1. ASSUME NEW t \in Task, Ask(t)
      PROVE  OwnAnswer' /\ OnlyBrews'
  <2>1. PICK operation : /\ Begin(t, operation)
                         /\ operation.kind \in {"select", "brew"}
                         /\ UNCHANGED <<lock, inbox, outbox, crossed>>
    BY <1>1 DEF Ask, Select, Brew, PressKey, NoOp
  <2> QED BY <2>1, OwnBegins
<1>2. ASSUME NEW t \in Task, Send(t)
      PROVE  OwnAnswer' /\ OnlyBrews'
  BY <1>2, OwnSent
<1>3. ASSUME NEW t \in Task, NotConnected(t)
      PROVE  OwnAnswer' /\ OnlyBrews'
  <2>1. /\ at[t] \in Steps /\ at' = [at EXCEPT ![t] = "failed"]
        /\ UNCHANGED <<op, lock, crossed, inbox, outbox>>
    BY <1>3 DEF NotConnected, Fails
  <2> QED BY <2>1, OwnFails
<1>4. ASSUME NEW t \in Task, TimeOut(t)
      PROVE  OwnAnswer' /\ OnlyBrews'
  <2>1. /\ lock = t /\ at' = [at EXCEPT ![t] = "failed"]
        /\ UNCHANGED <<op, crossed, inbox, outbox>>
    BY <1>4 DEF TimeOut, Fails
  <2>2. at[t] \in Steps
    BY <1>t, <2>1, NoneIsNoValue
  <2> QED BY <2>1, <2>2, OwnFails
<1>5. ASSUME NEW edit \in Edits, Stage(edit)
      PROVE  OwnAnswer' /\ OnlyBrews'
  BY <1>0, <1>5 DEF Stage
<1>6. CASE Deliver
  BY <1>6, OwnDelivered
<1>7. CASE Drop
  <2>1. /\ UNCHANGED <<op, crossed>> /\ inbox' = <<>> /\ outbox' = <<>>
    BY <1>7 DEF Drop
  <2>2. CASE lock = None
    <3>1. at' = at /\ lock' = lock
      BY <1>7, <2>2 DEF Drop
    <3> QED BY <2>1, <3>1, OwnKept
  <2>3. CASE lock # None
    <3>1. Fails(lock)
      BY <1>7, <2>3, Zenon DEF Drop
    <3>2. lock \in Task /\ at[lock] \in Steps /\ at' = [at EXCEPT ![lock] = "failed"]
      BY <1>t, <2>3, <3>1 DEF Fails
    <3> QED BY <2>1, <3>2, OwnFails
  <2> QED BY <2>2, <2>3
<1>8. CASE Reconnect
  BY <1>0, <1>8 DEF Reconnect
<1>9. CASE CarriesOut
  <2>1. PICK c : c = Head(inbox)
    OBVIOUS
  <2>2. /\ inbox # <<>> /\ Replies(c, TRUE) /\ inbox' = Tail(inbox)
        /\ UNCHANGED <<op, at, lock>>
    BY <1>9, <2>1 DEF CarriesOut
  <2>3. c.step \in Steps
    <3>1. c \in CommandType
      BY <1>t, <2>1, <2>2, First DEF IInv, TypeOK
    <3> QED BY <3>1, CommandFacts
  <2>4. crossed \subseteq crossed'
    BY <1>9, <2>1, <2>3 DEF CarriesOut, Steps
  <2> QED BY <2>1, <2>2, <2>4, OwnReplied
<1>10. CASE Refuses
  <2>1. PICK c : c = Head(inbox)
    OBVIOUS
  <2>2. /\ inbox # <<>> /\ Replies(c, FALSE) /\ inbox' = Tail(inbox)
        /\ UNCHANGED <<op, at, lock, crossed>>
    BY <1>10, <2>1 DEF Refuses
  <2> QED BY <2>1, <2>2, OwnReplied
<1>11. CASE LoseCommand
  BY <1>0, <1>11 DEF LoseCommand
<1>12. CASE LoseAnswer
  BY <1>0, <1>12 DEF LoseAnswer
<1>13. CASE UNCHANGED vars
  BY <1>0, <1>13 DEF vars
<1> QED BY <1>1, <1>2, <1>3, <1>4, <1>5, <1>6, <1>7, <1>8, <1>9, <1>10,
           <1>11, <1>12, <1>13 DEF Next

-----------------------------------------------------------------------------
(* What a step does to the orders.                                         *)

AskedBar == {t \in Task : at[t] # "idle"}
OrderBar == [t \in Task |-> IF op[t].kind = "brew" THEN Asked(t) ELSE None]
OutcomeBar == [t \in Task |-> IF at[t] \in {"done", "failed"} THEN at[t] ELSE "open"]

LEMMA AskedSame ==
    ASSUME \A u \in Task : at'[u] = "idle" <=> at[u] = "idle"
    PROVE  AskedBar' = AskedBar
BY DEF AskedBar

LEMMA OrderSame ==
    ASSUME op' = op
    PROVE  OrderBar' = OrderBar
BY DEF OrderBar, Asked

LEMMA OutcomeSame ==
    ASSUME \A u \in Task : \/ at'[u] = at[u]
                           \/ {at[u], at'[u]} \cap {"done", "failed"} = {}
    PROVE  OutcomeBar' = OutcomeBar
BY DEF OutcomeBar

\* Nothing of what is promised changes.
LEMMA Stutters ==
    ASSUME UNCHANGED <<op, at, made, crossed>>
    PROVE  UNCHANGED Promise!vars
<1>1. AskedBar' = AskedBar /\ OrderBar' = OrderBar /\ OutcomeBar' = OutcomeBar
  BY AskedSame, OrderSame, OutcomeSame
<1> QED BY <1>1 DEF Promise!vars, AskedBar, OrderBar, OutcomeBar

\* Somebody asks.
LEMMA Asks ==
    ASSUME TypeOK, NEW t \in Task, NEW operation, Begin(t, operation),
           UNCHANGED <<made, crossed>>
    PROVE  Promise!Ask(t)
<1>t. /\ at \in [Task -> Steps \cup Ends] /\ op \in [Task -> Operation]
      /\ at[t] = "idle" /\ at' = [at EXCEPT ![t] = "read"]
      /\ op' = [op EXCEPT ![t] = operation]
  BY DEF TypeOK, Begin
<1>1. /\ at'[t] = "read"
      /\ \A u \in Task \ {t} : at'[u] = at[u] /\ op'[u] = op[u]
  BY <1>t
<1>2. t \notin AskedBar /\ AskedBar' = AskedBar \cup {t}
  BY <1>t, <1>1 DEF AskedBar
<1>3. OrderBar' = [OrderBar EXCEPT ![t] = OrderBar'[t]]
  <2>1. \A u \in Task \ {t} : OrderBar'[u] = OrderBar[u]
    BY <1>1 DEF OrderBar, Asked
  <2>2. OrderBar' = [u \in Task |-> OrderBar'[u]] /\ OrderBar = [u \in Task |-> OrderBar[u]]
    BY DEF OrderBar
  <2> QED BY <2>1, <2>2
<1>4. OutcomeBar' = OutcomeBar
  <2>1. \A u \in Task : \/ at'[u] = at[u]
                        \/ {at[u], at'[u]} \cap {"done", "failed"} = {}
    BY <1>t, <1>1
  <2> QED BY <2>1, OutcomeSame
<1> QED BY <1>2, <1>3, <1>4 DEF Promise!Ask, AskedBar, OrderBar, OutcomeBar

\* An operation ends.
LEMMA EndsIt ==
    ASSUME TypeOK, NEW t \in Task, at[t] \in Steps,
           at' = [at EXCEPT ![t] = at'[t]], at'[t] \in {"done", "failed"},
           op' = op, made' = made,
           \/ crossed' = crossed
           \/ (\E u \in Task : u # t /\ at[u] # "idle") /\ crossed' = crossed \cup {t},
           at'[t] = "done" /\ op[t].kind = "brew" /\ t \notin crossed' => made[t] # None
    PROVE  Promise!End(t)
<1>t. at \in [Task -> Steps \cup Ends]
  BY DEF TypeOK
<1>1. \A u \in Task \ {t} : at'[u] = at[u]
  BY <1>t
<1>2. AskedBar' = AskedBar /\ OrderBar' = OrderBar
  <2>1. \A u \in Task : at'[u] = "idle" <=> at[u] = "idle"
    BY <1>1 DEF Steps
  <2> QED BY <2>1, AskedSame, OrderSame
<1>3. t \in AskedBar
  BY DEF AskedBar, Steps
<1>4. /\ OutcomeBar[t] = "open" /\ OutcomeBar'[t] = at'[t]
      /\ OutcomeBar' = [OutcomeBar EXCEPT ![t] = OutcomeBar'[t]]
  <2>1. OutcomeBar[t] = "open" /\ OutcomeBar'[t] = at'[t]
    BY DEF OutcomeBar, Steps
  <2>2. \A u \in Task \ {t} : OutcomeBar'[u] = OutcomeBar[u]
    BY <1>1 DEF OutcomeBar
  <2>3. /\ OutcomeBar' = [u \in Task |-> OutcomeBar'[u]]
        /\ OutcomeBar = [u \in Task |-> OutcomeBar[u]]
    BY DEF OutcomeBar
  <2> QED BY <2>1, <2>2, <2>3
<1>5. \/ crossed' = crossed
      \/ (\E u \in AskedBar : u # t) /\ crossed' = crossed \cup {t}
  BY DEF AskedBar
<1>6. OutcomeBar'[t] = "done" /\ OrderBar[t] # None /\ t \notin crossed' => made[t] # None
  BY <1>4 DEF OrderBar
<1> QED BY <1>2, <1>3, <1>4, <1>5, <1>6
        DEF Promise!End, Promise!MayDisturb, AskedBar, OrderBar, OutcomeBar

\* A brew goes on, or one is disturbed.
LEMMA GoesOn ==
    ASSUME NEW t \in Task, op' = op, made' = made,
           \A u \in Task : at'[u] = at[u] \/ {at[u], at'[u]} \subseteq Steps,
           \/ crossed' = crossed
           \/ (\E u \in Task : u # t /\ at[u] # "idle") /\ crossed' = crossed \cup {t}
    PROVE  Promise!Disturb(t)
<1>1. AskedBar' = AskedBar /\ OrderBar' = OrderBar /\ OutcomeBar' = OutcomeBar
  BY AskedSame, OrderSame, OutcomeSame DEF Steps
<1>2. \/ crossed' = crossed
      \/ (\E u \in AskedBar : u # t) /\ crossed' = crossed \cup {t}
  BY DEF AskedBar
<1> QED BY <1>1, <1>2
        DEF Promise!Disturb, Promise!MayDisturb, AskedBar, OrderBar, OutcomeBar

\* The machine makes a drink.
LEMMA Makes ==
    ASSUME NEW t \in Task, UNCHANGED <<op, at, crossed>>,
           op[t].kind = "brew", Asked(t) # None,
           made[t] = None, made'[t] # None,
           t \notin crossed => made'[t] = Asked(t),
           made' = [made EXCEPT ![t] = made'[t]]
    PROVE  Promise!Make(t)
<1>1. AskedBar' = AskedBar /\ OrderBar' = OrderBar /\ OutcomeBar' = OutcomeBar
  BY AskedSame, OrderSame, OutcomeSame
<1>2. OrderBar[t] = Asked(t)
  BY DEF OrderBar
<1> QED BY <1>1, <1>2 DEF Promise!Make, AskedBar, OrderBar, OutcomeBar

\* What is ordered is a drink.
LEMMA AskedIsADrink ==
    ASSUME TypeOK, NEW t \in Task, at[t] # "idle"
    PROVE  Asked(t) # None
<1>1. /\ op[t].slot \in Slots /\ op[t].overrides \in Override /\ op[t].cups \in BOOLEAN
  <2>1. op[t] \in Operation
    BY DEF TypeOK
  <2> QED BY <2>1 DEF TypeOK, Operation
<1>2. Asked(t).cup \in Cup
  <2>1. Stored[op[t].slot] \in Recipe
    BY <1>1, StoredType
  <2> QED BY <1>1, <2>1, CupType, AskedParts
<1>3. Asked(t).name \in Label
  BY <1>1, LabelType, AskedParts
<1>4. Asked(t) \in Drinks
  BY <1>1, <1>2, <1>3, AskedParts DEF Drink, Drinks
<1> QED BY <1>4, NoneIsNoValue

\* An answer that is not its own, to one that is not crossed yet, is that of
\* another one who has asked.
LEMMA CrossedByAnother ==
    ASSUME OrderInv, NEW t \in Task, at[t] \in Steps, outbox # <<>>,
           NEW a, a = Head(outbox), Resolve(t, a)
    PROVE  \/ crossed' = crossed
           \/ (\E u \in Task : u # t /\ at[u] # "idle") /\ crossed' = crossed \cup {t}
<1>t. /\ IInv /\ OwnAnswer /\ SentOnce /\ outbox \in Seq(AnswerType)
  BY DEF OrderInv, IInv, TypeOK
<1>0. crossed' = IF a.by = t /\ a.step = at[t] THEN crossed ELSE crossed \cup {t}
  BY DEF Resolve
<1>1. a = outbox[1] /\ 1 \in 1 .. Len(outbox) /\ a \in AnswerType
  BY <1>t, First
<1>2. a.by \in Task
  BY <1>1, AnswerFacts
<1>3. CASE a.by = t
  <2>1. t \notin crossed => a.step = at[t]
    BY <1>t, <1>1, <1>3 DEF OwnAnswer
  <2> QED BY <1>0, <1>3, <2>1
<1>4. CASE a.by # t
  <2>1. at[a.by] # "idle"
    <3>1. at[a.by] = "idle" => \A i \in 1 .. Len(outbox) : outbox[i].by # a.by
      BY <1>t, <1>2, NothingUnderWay
    <3> QED BY <1>1, <3>1
  <2> QED BY <1>0, <1>2, <1>4, <2>1
<1> QED BY <1>3, <1>4

\* An answer ends an operation, leads it on, or does nothing.
LEMMA DeliverMaps ==
    ASSUME OrderInv, OrderInv', Deliver
    PROVE  [Promise!Next]_(Promise!vars)
<1>a. PICK a : a = Head(outbox)
  OBVIOUS
<1>l. PICK t : t = lock
  OBVIOUS
<1>t. /\ IInv /\ TypeOK /\ outbox # <<>> /\ op' = op /\ made' = made
      /\ at \in [Task -> Steps \cup Ends]
      /\ t \in Task \cup {None} /\ (t # None => at[t] \in Steps)
  BY <1>l DEF OrderInv, IInv, TypeOK, Deliver, machine
<1>w. IF t # None /\ WaitKey(at[t]) = WaitKey(a.step)
      THEN Resolve(t, a)
      ELSE UNCHANGED <<at, held, lock, settings, source, crossed>>
  BY <1>a, <1>l DEF Deliver
<1>1. CASE ~(t # None /\ WaitKey(at[t]) = WaitKey(a.step))
  <2>1. UNCHANGED <<at, crossed>>
    BY <1>1, <1>w
  <2> QED BY <1>t, <2>1, Stutters
<1>2. CASE t # None /\ WaitKey(at[t]) = WaitKey(a.step)
  <2>t. Resolve(t, a) /\ t \in Task /\ at[t] \in Steps
    BY <1>2, <1>w, <1>t
  <2>c. \/ crossed' = crossed
        \/ (\E u \in Task : u # t /\ at[u] # "idle") /\ crossed' = crossed \cup {t}
    BY <1>a, <1>t, <2>t, CrossedByAnother
  <2>1. ASSUME at' = [at EXCEPT ![t] = at'[t]], at'[t] \in {"done", "failed"}
        PROVE  Promise!End(t)
    <3>1. at'[t] = "done" /\ op[t].kind = "brew" /\ t \notin crossed' => made[t] # None
      <4>1. DoneMeansMade'
        BY DEF OrderInv, IInv
      <4> QED BY <1>t, <2>t, <4>1 DEF DoneMeansMade
    <3> QED BY <1>t, <2>t, <2>c, <2>1, <3>1, EndsIt
  <2>2. CASE ~a.ok
    <3>1. at' = [at EXCEPT ![t] = at'[t]] /\ at'[t] \in {"done", "failed"}
      BY <1>t, <2>t, <2>2 DEF Resolve, Accepted, Fails
    <3> QED BY <2>t, <2>1, <3>1 DEF Promise!Next
  <2>3. CASE a.ok /\ Selecting(t)
    <3>1. at' = [at EXCEPT ![t] = at'[t]] /\ at'[t] \in {"done", "failed"}
      BY <1>t, <2>t, <2>3 DEF Resolve, Accepted
    <3> QED BY <2>t, <2>1, <3>1 DEF Promise!Next
  <2>4. CASE a.ok /\ ~Selecting(t)
    <3>1. at' = [at EXCEPT ![t] = NextOf(at[t])]
      BY <2>t, <2>4 DEF Resolve, Accepted
    <3>2. /\ at'[t] = NextOf(at[t]) /\ at'[t] \in Steps \cup {"done"}
          /\ \A u \in Task \ {t} : at'[u] = at[u]
      BY <1>t, <2>t, <3>1, StepsHaveEnds
    <3>3. CASE at'[t] = "done"
      <4>1. at' = [at EXCEPT ![t] = at'[t]]
        BY <3>1, <3>2
      <4> QED BY <2>t, <2>1, <3>3, <4>1 DEF Promise!Next
    <3>4. CASE at'[t] \in Steps
      <4>1. \A u \in Task : at'[u] = at[u] \/ {at[u], at'[u]} \subseteq Steps
        BY <2>t, <3>2, <3>4
      <4>2. Promise!Disturb(t)
        BY <1>t, <2>t, <2>c, <4>1, GoesOn
      <4> QED BY <2>t, <4>2 DEF Promise!Next
    <3> QED BY <3>2, <3>3, <3>4
  <2> QED BY <2>2, <2>3, <2>4
<1> QED BY <1>1, <1>2

\* What the machine carries out is of one who has asked; it disturbs another
\* one, makes a drink, or does nothing that is promised.
LEMMA CarriesOutMaps ==
    ASSUME OrderInv, OrderInv', CarriesOut
    PROVE  [Promise!Next]_(Promise!vars)
<1>c. PICK c : c = Head(inbox)
  OBVIOUS
<1>t. /\ IInv /\ TypeOK /\ inbox # <<>> /\ UNCHANGED <<op, at, lock>>
      /\ Replies(c, TRUE) /\ inbox' = Tail(inbox)
  BY <1>c DEF OrderInv, IInv, CarriesOut
<1>1. c \in CommandType /\ c = inbox[1] /\ 1 \in 1 .. Len(inbox)
  BY <1>c, <1>t, First DEF TypeOK
<1>2. c.by \in Task /\ c.step \in Steps /\ (c.step = "start" => c.arg \in BOOLEAN)
  BY <1>1, CommandFacts
<1>3. at[c.by] # "idle"
  <2>1. at[c.by] = "idle" => \A i \in 1 .. Len(inbox) : inbox[i].by # c.by
    BY <1>t, <1>2, NothingUnderWay
  <2> QED BY <1>1, <2>1
<1>4. ASSUME NEW slot, slot \in {scratch, label},
             crossed' = crossed \cup Overwritten(slot, c.by), made' = made
      PROVE  [Promise!Next]_(Promise!vars)
  <2>1. slot.by \in Task \cup {None}
    BY <1>t, <1>4 DEF TypeOK, Unwritten
  <2>2. CASE Overwritten(slot, c.by) = {}
    <3>1. crossed' = crossed
      BY <1>4, <2>2
    <3> QED BY <1>t, <1>4, <3>1, Stutters
  <2>3. CASE Overwritten(slot, c.by) # {}
    <3>1. /\ slot.by # c.by /\ slot.by \in Task
          /\ crossed' = crossed \cup {slot.by}
      BY <1>4, <2>1, <2>3 DEF Overwritten
    <3>2. Promise!Disturb(slot.by)
      <4>1. \E u \in Task : u # slot.by /\ at[u] # "idle"
        BY <1>2, <1>3, <3>1
      <4>2. \A u \in Task : at'[u] = at[u]
        BY <1>t
      <4> QED BY <1>t, <1>4, <3>1, <4>1, <4>2, GoesOn
    <3> QED BY <3>1, <3>2 DEF Promise!Next
  <2> QED BY <2>2, <2>3
<1>5. CASE c.step = "read"
  <2>1. UNCHANGED <<made, crossed>>
    BY <1>c, <1>5 DEF CarriesOut, machine
  <2> QED BY <1>t, <2>1, Stutters
<1>6. CASE c.step = "copy"
  <2>1. crossed' = crossed \cup Overwritten(scratch, c.by) /\ made' = made
    BY <1>c, <1>6 DEF CarriesOut
  <2> QED BY <1>4, <2>1
<1>7. CASE c.step = "name"
  <2>1. crossed' = crossed \cup Overwritten(label, c.by) /\ made' = made
    BY <1>c, <1>7 DEF CarriesOut
  <2> QED BY <1>4, <2>1
<1>8. CASE c.step = "start"
  <2>1. /\ made' = IF scratch = Unwritten THEN made
                   ELSE [made EXCEPT ![c.by] = Drink(scratch.is, label.is, c.arg)]
        /\ crossed' = crossed
    BY <1>c, <1>8 DEF CarriesOut
  <2>2. CASE scratch = Unwritten
    <3>1. made' = made
      BY <2>1, <2>2
    <3> QED BY <1>t, <2>1, <3>1, Stutters
  <2>3. CASE scratch # Unwritten
    <3>1. made' = [made EXCEPT ![c.by] = Drink(scratch.is, label.is, c.arg)]
          /\ made \in [Task -> Drinks \cup {None}]
      BY <1>t, <2>1, <2>3 DEF TypeOK
    <3>2. Drink(scratch.is, label.is, c.arg) \in Drinks
      <4>1. scratch.is \in Cup /\ label.is \in Label \cup {None} /\ c.arg \in BOOLEAN
        BY <1>2, <1>8, <1>t, <2>3 DEF TypeOK, Unwritten
      <4> QED BY <4>1 DEF Drink, Drinks
    <3>3. made'[c.by] # None /\ made' = [made EXCEPT ![c.by] = made'[c.by]]
      BY <1>2, <3>1, <3>2, NoneIsNoValue
    <3>4. OnItsWay(c.by, "start")
      BY <1>1, <1>8 DEF OnItsWay, Is
    <3>5. made[c.by] = None
      BY <1>2, <1>t, <3>4 DEF IInv, MadeOnce
    <3>6. op[c.by].kind = "brew"
      BY <1>1, <1>2, <1>8 DEF OrderInv, OnlyBrews
    <3>7. c.by \notin crossed => made'[c.by] = Asked(c.by)
      <4>1. RightDrink' /\ Asked(c.by)' = Asked(c.by)
        BY <1>t DEF OrderInv, IInv, Asked
      <4> QED BY <1>2, <2>1, <3>3, <4>1 DEF RightDrink
    <3>8. Asked(c.by) # None
      BY <1>2, <1>3, <1>t, AskedIsADrink
    <3>9. Promise!Make(c.by)
      BY <1>2, <1>t, <2>1, <3>3, <3>5, <3>6, <3>7, <3>8, Makes
    <3> QED BY <1>2, <3>9 DEF Promise!Next
  <2> QED BY <2>2, <2>3
<1> QED BY <1>2, <1>5, <1>6, <1>7, <1>8 DEF Steps

\* Every step is one of Orders or changes nothing that is promised.
THEOREM StepMaps ==
    ASSUME OrderInv, OrderInv', [Next]_vars
    PROVE  [Promise!Next]_(Promise!vars)
<1>t. TypeOK /\ at \in [Task -> Steps \cup Ends] /\ lock \in Task \cup {None}
      /\ (lock # None => at[lock] \in Steps)
  BY DEF OrderInv, IInv, TypeOK
<1>f. ASSUME NEW t \in Task, at[t] \in Steps, at' = [at EXCEPT ![t] = "failed"],
             UNCHANGED <<op, made, crossed>>
      PROVE  [Promise!Next]_(Promise!vars)
  <2>1. at'[t] = "failed" /\ at' = [at EXCEPT ![t] = at'[t]]
    BY <1>t, <1>f
  <2>2. Promise!End(t)
    BY <1>t, <1>f, <2>1, EndsIt
  <2> QED BY <1>f, <2>2 DEF Promise!Next
<1>0. ASSUME UNCHANGED <<op, at, made, crossed>>
      PROVE  [Promise!Next]_(Promise!vars)
  BY <1>0, Stutters
<1>1. ASSUME NEW t \in Task, Ask(t)
      PROVE  [Promise!Next]_(Promise!vars)
  <2>1. PICK operation : Begin(t, operation) /\ UNCHANGED <<made, crossed>>
    BY <1>1 DEF Ask, Select, Brew, PressKey, machine
  <2>2. Promise!Ask(t)
    BY <1>t, <2>1, Asks
  <2> QED BY <1>1, <2>2 DEF Promise!Next
<1>2. ASSUME NEW t \in Task, Send(t)
      PROVE  [Promise!Next]_(Promise!vars)
  BY <1>0, <1>2 DEF Send, machine
<1>3. ASSUME NEW t \in Task, NotConnected(t)
      PROVE  [Promise!Next]_(Promise!vars)
  <2>1. /\ at[t] \in Steps /\ at' = [at EXCEPT ![t] = "failed"]
        /\ UNCHANGED <<op, made, crossed>>
    BY <1>3 DEF NotConnected, Fails, machine
  <2> QED BY <1>f, <2>1
<1>4. ASSUME NEW t \in Task, TimeOut(t)
      PROVE  [Promise!Next]_(Promise!vars)
  <2>1. /\ lock = t /\ at' = [at EXCEPT ![t] = "failed"]
        /\ UNCHANGED <<op, made, crossed>>
    BY <1>4 DEF TimeOut, Fails, machine
  <2>2. at[t] \in Steps
    BY <1>t, <2>1, NoneIsNoValue
  <2> QED BY <1>f, <2>1, <2>2
<1>5. ASSUME NEW edit \in Edits, Stage(edit)
      PROVE  [Promise!Next]_(Promise!vars)
  BY <1>0, <1>5 DEF Stage, machine
<1>6. CASE Deliver
  BY <1>6, DeliverMaps
<1>7. CASE Drop
  <2>1. UNCHANGED <<op, made, crossed>>
    BY <1>7 DEF Drop, machine
  <2>2. CASE lock = None
    <3>1. at' = at
      BY <1>7, <2>2 DEF Drop
    <3> QED BY <1>0, <2>1, <3>1
  <2>3. CASE lock # None
    <3>1. Fails(lock)
      BY <1>7, <2>3, Zenon DEF Drop
    <3>2. lock \in Task /\ at[lock] \in Steps /\ at' = [at EXCEPT ![lock] = "failed"]
      BY <1>t, <2>3, <3>1 DEF Fails
    <3> QED BY <1>f, <2>1, <3>2
  <2> QED BY <2>2, <2>3
<1>8. CASE Reconnect
  BY <1>0, <1>8 DEF Reconnect, machine
<1>9. CASE CarriesOut
  BY <1>9, CarriesOutMaps
<1>10. CASE Refuses
  BY <1>0, <1>10 DEF Refuses, machine
<1>11. CASE LoseCommand
  BY <1>0, <1>11 DEF LoseCommand, machine
<1>12. CASE LoseAnswer
  BY <1>0, <1>12 DEF LoseAnswer, machine
<1>13. CASE UNCHANGED vars
  BY <1>0, <1>13 DEF vars
<1> QED BY <1>1, <1>2, <1>3, <1>4, <1>5, <1>6, <1>7, <1>8, <1>9, <1>10,
           <1>11, <1>12, <1>13 DEF Next

LEMMA OrdersBegin ==
    ASSUME Init
    PROVE  OrderInv /\ Promise!Init
<1>1. IInv
  BY Initially
<1>2. \A t \in Task : at[t] = "idle" /\ op[t].kind = "none"
  BY DEF Init, NoOp
<1>3. OwnAnswer /\ OnlyBrews
  <2>1. Len(inbox) = 0
    BY DEF Init
  <2> QED BY <1>2, <2>1 DEF OwnAnswer, OnlyBrews, Steps
<1>4. Promise!Init
  BY <1>2 DEF Init, Promise!Init
<1> QED BY <1>1, <1>3, <1>4 DEF OrderInv

\* The invariant with the two facts about answers and brews.
THEOREM OrderInvariant == Spec => []OrderInv
<1>1. Init => OrderInv
  BY OrdersBegin
<1>2. OrderInv /\ [Next]_vars => OrderInv'
  BY OrderStepKeeps
<1> QED BY <1>1, <1>2, PTL DEF Spec

\* async_brew and MelittaMachine.brew keep the promise of Orders.
THEOREM BrewsRefine == Spec => KeepsPromise
<1>1. Init => Promise!Init
  BY OrdersBegin
<1>2. OrderInv /\ OrderInv' /\ [Next]_vars => [Promise!Next]_(Promise!vars)
  BY StepMaps
<1> QED BY <1>1, <1>2, OrderInvariant, PTL DEF Spec, KeepsPromise, Promise!Spec
=============================================================================
