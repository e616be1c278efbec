------------------------- MODULE CoordinatorProofs -------------------------
(***************************************************************************)
(* Proofs about Coordinator, for any registers in any order, any periods   *)
(* and any number of changes and troubles.                                 *)
(***************************************************************************)
EXTENDS Coordinator, SequenceTheorems, TLAPS

-----------------------------------------------------------------------------
\* A group is a sequence of registers that is not empty.
LEMMA Groups ==
    ASSUME NEW g \in Group
    PROVE  /\ InGroup(g) \in Seq(Register) /\ InGroup(g) # <<>>
           /\ SetOf(InGroup(g)) \subseteq Register
BY GroupsAssumption DEF Group, InGroup, Register

\* No register is in both groups.
LEMMA GroupsApart ==
    \A r \in SetOf(InGroup("settings")) : r \notin SetOf(InGroup("counters"))
BY GroupsAssumption DEF InGroup

\* What is left to read of a group begins with one of its registers, and what
\* is left after it is a suffix of the group again.
LEMMA Suffixes ==
    ASSUME NEW group \in Seq(Register), NEW s, IsSuffix(s, group)
    PROVE  /\ s \in Seq(Register) /\ s # <<>>
           /\ Head(s) \in SetOf(group)
           /\ SetOf(s) = {Head(s)} \cup SetOf(Tail(s))
           /\ Len(s) = 1 => SetOf(s) = {Head(s)}
           /\ Len(s) # 1 => IsSuffix(Tail(s), group)
<1>1. PICK i \in 1 .. Len(group) : s = SubSeq(group, i, Len(group))
  BY DEF IsSuffix
<1>2. /\ s \in Seq(Register)
      /\ Len(s) = Len(group) - i + 1
  BY <1>1, SubSeqProperties
<1>3. Head(s) = group[i] /\ Tail(s) = SubSeq(group, i + 1, Len(group))
  BY <1>1, HeadTailOfSubSeq
<1>4. s # <<>>
  BY <1>2
<1>5. /\ Len(Tail(s)) = Len(s) - 1
      /\ \A k \in 1 .. Len(Tail(s)) : Tail(s)[k] = s[k + 1]
      /\ Len(s) \in Nat /\ 1 <= Len(s)
  BY <1>2, <1>4, HeadTailProperties
<1>6. SetOf(s) = {Head(s)} \cup SetOf(Tail(s))
  <2>1. ASSUME NEW k \in 1 .. Len(s)
        PROVE  s[k] \in {Head(s)} \cup SetOf(Tail(s))
    <3>1. CASE k = 1
      BY <3>1, <1>2, <1>4
    <3>2. CASE k # 1
      <4>1. k - 1 \in 1 .. Len(Tail(s)) /\ s[k] = Tail(s)[k - 1]
        BY <3>2, <1>5
      <4> QED BY <4>1 DEF SetOf
    <3> QED BY <3>1, <3>2
  <2>2. ASSUME NEW k \in 1 .. Len(Tail(s))
        PROVE  Tail(s)[k] \in SetOf(s)
    <3>1. k + 1 \in 1 .. Len(s) /\ Tail(s)[k] = s[k + 1]
      BY <1>5
    <3> QED BY <3>1 DEF SetOf
  <2>3. Head(s) \in SetOf(s)
    BY <1>2, <1>4, <1>5 DEF SetOf
  <2> QED BY <2>1, <2>2, <2>3 DEF SetOf
<1>7. Len(s) = 1 => SetOf(Tail(s)) = {}
  <2>1. Len(s) = 1 => Len(Tail(s)) = 0 /\ 1 .. 0 = {}
    BY <1>5
  <2> QED BY <2>1 DEF SetOf
<1>8. Len(s) # 1 => i + 1 \in 1 .. Len(group)
  BY <1>2
<1>9. Len(s) # 1 => IsSuffix(Tail(s), group)
  BY <1>3, <1>8 DEF IsSuffix
<1>10. Head(s) \in SetOf(group)
  BY <1>3 DEF SetOf
<1> QED BY <1>2, <1>4, <1>6, <1>7, <1>9, <1>10

\* A whole group is a suffix of itself.
LEMMA WholeGroup ==
    ASSUME NEW g \in Group
    PROVE  IsSuffix(InGroup(g), InGroup(g))
<1>1. InGroup(g) \in Seq(Register) /\ 1 \in 1 .. Len(InGroup(g))
  BY Groups
<1> QED BY <1>1, SubSeqFull DEF IsSuffix

-----------------------------------------------------------------------------
\* Init => IInv.
LEMMA Initially == Init => IInv
<1> SUFFICES ASSUME Init PROVE IInv
  OBVIOUS
<1>1. /\ \A r \in Register : shown[r] = None
      /\ shown \in [Register -> 0 .. MaxChanges \cup {None, Default}]
      /\ register \in [Register -> 0 .. MaxChanges]
  BY BoundsAssumption DEF Init
<1>2. TypeOK
  <2>1. \A r \in Register : shown[r] = Default => OnFailure[r] = "default"
    BY <1>1, NoneAssumption
  <2>2. 0 \in 0 .. MaxTrouble
    BY BoundsAssumption
  <2>3. /\ phase = "idle" /\ phase \notin Group /\ process \in Process
        /\ firstDone <=> successAge # None
    BY DEF Init, Group, Process
  <2> QED BY <1>1, <2>1, <2>2, <2>3 DEF Init, TypeOK
<1>3. BehindOnlyIfOvertaken /\ DueWhileRead /\ ReadSoFar
  BY DEF Init, BehindOnlyIfOvertaken, DueWhileRead, ReadSoFar, Group
<1> QED BY <1>2, <1>3 DEF IInv

\* What a poll shows when it goes on: registers of a group that it has just
\* read, or that is not due, are the machine's or excused.
LEMMA GoesOn ==
    ASSUME IInv, NEW from \in {"status", "type", "settings", "counters"},
           phase = from,
           GoOn(from),
           UNCHANGED <<calls, register, process, inReach>>,
           trouble' \in 0 .. MaxTrouble,
           status' \in Process \cup {None}, typeKnown' \in BOOLEAN,
           shown' \in [Register -> 0 .. MaxChanges \cup {None, Default}],
           \A r \in Register : shown'[r] = Default => OnFailure[r] = "default",
           excused' \subseteq Register /\ overtaken' \subseteq excused',
           \A g \in Group : \A r \in SetOf(InGroup(g)) :
               ((firstDone /\ ~Due(g)) \/ g = from) /\ r \notin excused' =>
                   shown'[r] = register[r]
    PROVE  IInv'
<1> DEFINE next == IF from = "status" /\ ~typeKnown THEN "type"
                   ELSE IF from \in {"status", "type"} /\ Due("settings")
                        THEN "settings"
                   ELSE IF from # "counters" /\ Due("counters") THEN "counters"
                   ELSE "idle"
<1>1. /\ next \in {"type", "settings", "counters", "idle"}
      /\ next \in Group => firstDone /\ Due(next) /\ next # from
  BY DEF Group, Due
<1>2. /\ phase' = next
      /\ todo' = IF next \in Group THEN InGroup(next) ELSE <<>>
      /\ polled' = None
      /\ settingsAge' = IF from = "settings" THEN 0 ELSE settingsAge
      /\ countersDue' = IF from = "counters" THEN FALSE ELSE countersDue
      /\ IF next = "idle"
         THEN /\ firstDone' = TRUE /\ succeeded' = TRUE /\ successAge' = 0
              /\ rendered' = (IsFresh(TRUE, 0) /\ status' # None)
         ELSE UNCHANGED <<firstDone, succeeded, successAge, rendered>>
  BY DEF GoOn, Tells
<1> HIDE DEF next
<1>3. /\ settingsAge' \in 0 .. SettingsTicks \cup {None}
      /\ countersDue' \in BOOLEAN
  <2>1. settingsAge \in 0 .. SettingsTicks \cup {None} /\ countersDue \in BOOLEAN
    BY DEF IInv, TypeOK
  <2>2. 0 \in 0 .. SettingsTicks
    BY TicksAssumption
  <2> QED BY <1>2, <2>1, <2>2, Zenon
<1>4. TypeOK'
  <2>1. CASE next \in Group
    <3>1. IsSuffix(todo', InGroup(phase'))
      BY <1>2, <2>1, WholeGroup
    <3>2. phase' \in Group /\ firstDone'
      BY <1>1, <1>2, <2>1 DEF Group
    <3>3. UNCHANGED <<firstDone, succeeded, successAge, rendered>>
      BY <1>2, <2>1 DEF Group
    <3> QED BY <1>2, <3>1, <3>2, <3>3, <1>3 DEF IInv, TypeOK, calls
  <2>2. CASE next \notin Group
    <3>1. /\ phase' \in {"type", "idle"} /\ phase' \notin Group
          /\ todo' = <<>>
      BY <1>1, <1>2, <2>2 DEF Group
    <3>2. /\ firstDone' \in BOOLEAN /\ succeeded' \in BOOLEAN
          /\ rendered' \in BOOLEAN
          /\ successAge' \in 0 .. StaleTicks \cup {None}
          /\ firstDone' <=> successAge' # None
      <4>1. /\ firstDone \in BOOLEAN /\ succeeded \in BOOLEAN
            /\ rendered \in BOOLEAN
            /\ successAge \in 0 .. StaleTicks \cup {None}
            /\ firstDone <=> successAge # None
        BY DEF IInv, TypeOK
      <4>2. 0 \in 0 .. StaleTicks /\ 0 # None
        BY TicksAssumption, NoneAssumption
      <4>3. CASE next = "idle"
        BY <1>2, <4>2, <4>3 DEF IsFresh
      <4>4. CASE next # "idle"
        BY <1>2, <4>1, <4>4, Zenon
      <4> QED BY <4>3, <4>4
    <3> QED BY <1>2, <3>1, <3>2, <1>3 DEF IInv, TypeOK, calls
  <2> QED BY <2>1, <2>2
<1>5. DueWhileRead'
  BY <1>1, <1>2, TicksAssumption, NoneAssumption
     DEF IInv, TypeOK, DueWhileRead, DueAtOnce, SettingsDue, Due, Group
<1>6. ReadSoFar'
  BY <1>2 DEF ReadSoFar
<1>7. BehindOnlyIfOvertaken'
  <2>1. ASSUME NEW g \in Group, firstDone', ~Due(g)', g # from
        PROVE  firstDone /\ ~Due(g)
    BY <2>1, <1>2 DEF Due, DueAtOnce, SettingsDue, IInv, DueWhileRead, Group
  <2> QED BY <2>1 DEF BehindOnlyIfOvertaken
<1> QED BY <1>4, <1>5, <1>6, <1>7 DEF IInv

-----------------------------------------------------------------------------
\* Every step preserves it.

\* A poll that ends before its last request.
LEMMA PollEnds ==
    ASSUME IInv, PollFails \/ PollCancelled,
           UNCHANGED <<calls, register, process>>,
           inReach' \in BOOLEAN, trouble' \in 0 .. MaxTrouble
    PROVE  IInv'
<1> USE DEF IInv, TypeOK, BehindOnlyIfOvertaken, DueWhileRead, ReadSoFar, Due,
            DueAtOnce, SettingsDue, Group, calls
<1>1. ASSUME NEW next \in {"idle", "gone"}, Discarded(next) PROVE IInv'
  BY <1>1, NoneAssumption DEF Discarded, schedule, history
<1>2. CASE /\ firstDone /\ Idle
           /\ UNCHANGED <<data, settingsAge, countersDue, firstDone, history>>
           /\ succeeded' = FALSE
           /\ successAge' = AgeGoesOn
           /\ Tells(FALSE)
  <2>1. rendered' \in BOOLEAN
    BY <1>2 DEF Tells, IsFresh
  <2> QED BY <1>2, <2>1 DEF Idle, data, AgeGoesOn, history
<1>3. CASE /\ firstDone /\ Idle
           /\ UNCHANGED <<data, schedule, rendered, history>>
  BY <1>3 DEF Idle, data, schedule, history
<1> QED BY <1>1, <1>2, <1>3 DEF PollFails, PollCancelled

\* A read of one register, with or without an answer.
LEMMA Reads ==
    ASSUME IInv, NEW ok \in BOOLEAN, Read(ok), trouble' \in 0 .. MaxTrouble
    PROVE  IInv'
<1> DEFINE r == Head(todo)
<1>1. /\ phase \in Group /\ InGroup(phase) \in Seq(Register)
      /\ IsSuffix(todo, InGroup(phase))
      /\ firstDone
  BY Groups DEF Read, IInv, TypeOK
<1>2. /\ r \in SetOf(InGroup(phase)) /\ r \in Register
      /\ SetOf(todo) = {r} \cup SetOf(Tail(todo))
      /\ Len(todo) = 1 => SetOf(todo) = {r}
      /\ Len(todo) # 1 => IsSuffix(Tail(todo), InGroup(phase))
  BY <1>1, Suffixes, Groups
<1> HIDE DEF r
<1>3. /\ shown' = [shown EXCEPT ![r] = IF ok THEN register[r] ELSE AfterFailure(r)]
      /\ excused' = IF ok THEN excused \ {r} ELSE excused \cup {r}
      /\ overtaken' = overtaken \ {r}
      /\ UNCHANGED <<status, typeKnown, calls, register, process, inReach>>
  BY DEF Read, r
<1>4. /\ shown \in [Register -> 0 .. MaxChanges \cup {None, Default}]
      /\ \A q \in Register : shown[q] = Default => OnFailure[q] = "default"
      /\ register \in [Register -> 0 .. MaxChanges]
      /\ excused \subseteq Register /\ overtaken \subseteq excused
      /\ status \in Process \cup {None} /\ typeKnown \in BOOLEAN
  BY DEF IInv, TypeOK
<1>5. /\ AfterFailure(r) \in 0 .. MaxChanges \cup {None, Default}
      /\ AfterFailure(r) = Default => OnFailure[r] = "default"
  <2>1. OnFailure[r] \in {"cleared", "kept", "default"}
    BY <1>2, GroupsAssumption
  <2>2. shown[r] \in 0 .. MaxChanges \cup {None, Default}
    BY <1>2, <1>4
  <2>3. CASE OnFailure[r] = "cleared"
    BY <2>3, NoneAssumption DEF AfterFailure
  <2>4. CASE OnFailure[r] = "kept"
    BY <1>2, <1>4, <2>2, <2>4 DEF AfterFailure
  <2>5. CASE OnFailure[r] = "default"
    BY <2>5 DEF AfterFailure
  <2> QED BY <2>1, <2>3, <2>4, <2>5
<1>6. /\ shown' \in [Register -> 0 .. MaxChanges \cup {None, Default}]
      /\ \A q \in Register : shown'[q] = Default => OnFailure[q] = "default"
      /\ excused' \subseteq Register /\ overtaken' \subseteq excused'
  <2>1. register[r] \in 0 .. MaxChanges /\ register[r] # Default
    BY <1>2, <1>4, NoneAssumption, BoundsAssumption
  <2> QED BY <1>2, <1>3, <1>4, <1>5, <2>1
<1>7. \A q \in Register :
          q \notin excused' =>
              \/ q = r /\ shown'[q] = register[q]
              \/ q # r /\ shown'[q] = shown[q] /\ q \notin excused
  BY <1>2, <1>3, <1>4
<1>8. CASE Len(todo) = 1
  <2>1. GoOn(phase) /\ phase \in {"status", "type", "settings", "counters"}
    BY <1>1, <1>8 DEF Read, Group
  <2>2. ASSUME NEW g \in Group, NEW q \in SetOf(InGroup(g)),
               (firstDone /\ ~Due(g)) \/ g = phase, q \notin excused'
        PROVE  shown'[q] = register[q]
    <3>1. q \in Register
      BY Groups
    <3>2. CASE g = phase
      <4>1. q \in SetOf(todo) => q = r
        BY <1>2, <1>8
      <4> QED BY <1>1, <1>7, <2>2, <3>1, <3>2, <4>1 DEF IInv, ReadSoFar
    <3>3. CASE g # phase
      <4>1. q # r
        BY <1>1, <1>2, <2>2, <3>3, GroupsApart DEF Group
      <4> QED BY <1>7, <2>2, <3>1, <3>3, <4>1 DEF IInv, BehindOnlyIfOvertaken
    <3> QED BY <3>2, <3>3
  <2> QED BY <1>3, <1>4, <1>6, <2>1, <2>2, GoesOn
<1>9. CASE Len(todo) # 1
  <2>1. /\ todo' = Tail(todo)
        /\ UNCHANGED <<phase, polled, schedule, rendered>>
    BY <1>9 DEF Read
  <2>2. TypeOK'
    BY <1>1, <1>2, <1>3, <1>6, <1>9, <2>1
       DEF IInv, TypeOK, schedule, calls
  <2>3. DueWhileRead'
    BY <2>1 DEF IInv, DueWhileRead, DueAtOnce, SettingsDue, schedule
  <2>4. ReadSoFar'
    <3>1. ASSUME NEW q \in SetOf(InGroup(phase)), q \notin SetOf(Tail(todo)),
                 q \notin excused'
          PROVE  shown'[q] = register[q]
      <4>1. q \in Register /\ (q # r => q \notin SetOf(todo))
        BY <1>1, <1>2, <3>1, Groups
      <4> QED BY <1>1, <1>7, <3>1, <4>1 DEF IInv, ReadSoFar
    <3> QED BY <1>3, <2>1, <3>1 DEF ReadSoFar
  <2>5. BehindOnlyIfOvertaken'
    <3>1. ASSUME NEW g \in Group, NEW q \in SetOf(InGroup(g)),
                 ~Due(g), phase # g, q \notin excused'
          PROVE  shown'[q] = register[q]
      <4>1. q \in Register /\ q # r
        BY <1>1, <1>2, <3>1, Groups, GroupsApart DEF Group
      <4> QED BY <1>1, <1>7, <3>1, <4>1 DEF IInv, BehindOnlyIfOvertaken
    <3> QED BY <1>3, <2>1, <3>1
            DEF BehindOnlyIfOvertaken, Due, DueAtOnce, SettingsDue, schedule
  <2> QED BY <2>2, <2>3, <2>4, <2>5 DEF IInv
<1> QED BY <1>8, <1>9

\* A read of the machine's type.
LEMMA TypeRead ==
    ASSUME IInv, NEW ok \in BOOLEAN, ReadType(ok), trouble' \in 0 .. MaxTrouble
    PROVE  IInv'
<1>1. /\ phase = "type" /\ GoOn("type") /\ typeKnown' \in BOOLEAN
      /\ UNCHANGED <<status, shown, calls, register, process, inReach, history>>
  BY DEF ReadType
<1>2. /\ status' \in Process \cup {None}
      /\ shown' \in [Register -> 0 .. MaxChanges \cup {None, Default}]
      /\ \A r \in Register : shown'[r] = Default => OnFailure[r] = "default"
      /\ excused' \subseteq Register /\ overtaken' \subseteq excused'
  BY <1>1 DEF IInv, TypeOK, history
<1>3. \A g \in Group : \A r \in SetOf(InGroup(g)) :
          ((firstDone /\ ~Due(g)) \/ g = "type") /\ r \notin excused' =>
              shown'[r] = register[r]
  BY <1>1 DEF IInv, BehindOnlyIfOvertaken, Group, history
<1> QED BY <1>1, <1>2, <1>3, GoesOn

\* A register that changes is excused, so that what is shown is not disturbed.
LEMMA ChangesExcused ==
    ASSUME IInv, NEW rs, rs \subseteq Register, Changes(rs)
    PROVE  /\ register' \in [Register -> 0 .. MaxChanges]
           /\ excused' \subseteq Register
           /\ overtaken' \subseteq excused'
           /\ \A r \in Register :
                  r \notin excused' => r \notin excused /\ register'[r] = register[r]
BY BoundsAssumption DEF IInv, TypeOK, Changes

\* A step that leaves what is read, what is due and what is shown alone.
LEMMA Undisturbed ==
    ASSUME IInv,
           UNCHANGED <<phase, todo, typeKnown, shown, schedule>>,
           polled' \in Process \cup {None}, polled' # None => phase = "status",
           status' \in Process \cup {None}, rendered' \in BOOLEAN,
           command' \in Command \cup {None}, acted' \in BOOLEAN,
           process' \in Process, inReach' \in BOOLEAN,
           trouble' \in 0 .. MaxTrouble,
           register' \in [Register -> 0 .. MaxChanges],
           excused' \subseteq Register /\ overtaken' \subseteq excused',
           \A r \in Register :
               r \notin excused' => r \notin excused /\ register'[r] = register[r]
    PROVE  IInv'
<1>1. TypeOK' /\ DueWhileRead'
  BY DEF IInv, TypeOK, DueWhileRead, DueAtOnce, SettingsDue, schedule
<1>2. BehindOnlyIfOvertaken' /\ ReadSoFar'
  <2>1. \A g \in Group : Due(g)' <=> Due(g)
    BY DEF Due, DueAtOnce, SettingsDue, schedule
  <2> QED BY <2>1, Groups DEF IInv, BehindOnlyIfOvertaken, ReadSoFar, schedule
<1> QED BY <1>1, <1>2 DEF IInv

LEMMA Step == IInv /\ [Next]_vars => IInv'
<1> SUFFICES ASSUME IInv, [Next]_vars PROVE IInv'
  OBVIOUS
<1>t. TypeOK /\ NoneAssumption
  BY NoneAssumption DEF IInv
<1>1. ASSUME StartPoll \/ Connected
      PROVE  IInv'
  BY <1>1 DEF StartPoll, Connected, IInv, TypeOK, BehindOnlyIfOvertaken,
              DueWhileRead, ReadSoFar, Due, DueAtOnce, SettingsDue, Group, data,
              schedule, calls, environment, history
<1>2. CASE StatusAnswered
  BY <1>2, Undisturbed DEF StatusAnswered, IInv, TypeOK, data, calls, environment, history
<1>3. CASE AdoptStatus
  <2>1. /\ phase = "status" /\ GoOn("status") /\ status' = polled
        /\ UNCHANGED <<typeKnown, shown, calls, environment, history>>
    BY <1>3 DEF AdoptStatus
  <2>2. /\ UNCHANGED <<calls, register, process, inReach>>
        /\ trouble' \in 0 .. MaxTrouble
        /\ status' \in Process \cup {None} /\ typeKnown' \in BOOLEAN
        /\ shown' \in [Register -> 0 .. MaxChanges \cup {None, Default}]
        /\ \A r \in Register : shown'[r] = Default => OnFailure[r] = "default"
        /\ excused' \subseteq Register /\ overtaken' \subseteq excused'
    BY <2>1, <1>t DEF TypeOK, environment, history
  <2>3. \A g \in Group : \A r \in SetOf(InGroup(g)) :
            ((firstDone /\ ~Due(g)) \/ g = "status") /\ r \notin excused' =>
                shown'[r] = register[r]
    BY <2>1 DEF IInv, BehindOnlyIfOvertaken, Group, history
  <2> QED BY <2>1, <2>2, <2>3, GoesOn
<1>4. CASE ReadSucceeds
  BY <1>4, <1>t, Reads, TypeRead DEF ReadSucceeds, TypeOK
<1>5. CASE ReadFails
  <2>1. trouble' \in 0 .. MaxTrouble
    BY <1>5, <1>t, BoundsAssumption DEF ReadFails, Affordable, Spend, TypeOK
  <2> QED BY <1>5, <2>1, Reads, TypeRead DEF ReadFails
<1>6. CASE NoAnswer
  <2>1. inReach' \in BOOLEAN /\ trouble' \in 0 .. MaxTrouble
    BY <1>6, <1>t, BoundsAssumption DEF NoAnswer, Affordable, Spend, TypeOK
  <2> QED BY <1>6, <2>1, PollEnds DEF NoAnswer
<1>7. CASE LinkLost
  <2>1. inReach' \in BOOLEAN /\ trouble' \in 0 .. MaxTrouble
    <3>1. inReach' \in BOOLEAN
      BY <1>7, Zenon DEF LinkLost
    <3> QED BY <1>7, <1>t, <3>1, BoundsAssumption DEF LinkLost, TypeOK
  <2> QED BY <1>7, <2>1, PollEnds DEF LinkLost
<1>8. CASE Push
  <2>1. rendered' \in BOOLEAN
    BY <1>8, <1>t DEF Push, Fresh, IsFresh, TypeOK
  <2> QED BY <1>8, <1>t, <2>1, Undisturbed DEF Push, TypeOK, calls, environment, history
<1>9. CASE Touch
  <2>1. rendered' \in BOOLEAN
    BY <1>9 DEF Touch, Available
  <2> QED BY <1>9, <1>t, <2>1, Undisturbed
          DEF Touch, TypeOK, data, calls, environment, history
<1>10. ASSUME NEW c \in Command, Ask(c)
       PROVE  IInv'
  BY <1>10, <1>t, Undisturbed DEF Ask, TypeOK, data, environment, history
<1>11. CASE Act
  <2>1. CASE command = "write" /\ Changes({Written}) /\ UNCHANGED process
    <3>1. Written \in Register
      BY GroupsAssumption DEF Register
    <3> QED BY <1>11, <1>t, <2>1, <3>1, ChangesExcused, Undisturbed
            DEF Act, TypeOK, data
  <2>2. CASE command = "brew" /\ Begins /\ UNCHANGED <<register, history>>
    BY <1>11, <1>t, <2>2, Undisturbed DEF Act, Begins, TypeOK, data, history, Process
  <2> QED BY <1>11, <2>1, <2>2 DEF Act
<1>12. CASE Return
  <2>1. /\ UNCHANGED <<phase, todo, polled, data, firstDone, succeeded, successAge,
                       rendered, environment>>
        /\ command' = None /\ acted' = FALSE
        /\ settingsAge' \in {None, settingsAge} /\ countersDue' \in {TRUE, countersDue}
        /\ settingsAge' = settingsAge => command = "brew" \/ settingsAge = None
        /\ countersDue' = countersDue => command = "write" \/ countersDue
        /\ command \in {"write", "brew"}
    BY <1>12, <1>t DEF Return, Invalidated, TypeOK, Command
  <2>2. /\ excused' \subseteq excused
        /\ \A g \in Group : DueAtOnce(g)' \/ phase = g \/
              \A r \in SetOf(InGroup(g)) : r \in excused => r \in excused'
        /\ phase \in Group =>
              \A r \in SetOf(InGroup(phase)) : r \in excused => r \in excused'
    <3> DEFINE group == SetOf(InGroup(Concerns(command)))
    <3>0. /\ command = "write" => group = SetOf(Settings)
          /\ command = "brew" => group = SetOf(Counters)
          /\ phase = Concerns(command) <=>
                \/ command = "write" /\ phase = "settings"
                \/ command = "brew" /\ phase = "counters"
      BY <2>1 DEF Concerns, InGroup
    <3>1. CASE command = "write" /\ phase # "settings"
      <4>1. excused' = excused \ SetOf(Settings) /\ settingsAge' = None
        BY <1>12, <3>0, <3>1 DEF Return, Invalidated
      <4> QED BY <4>1, <2>1, <3>1, <1>t, GroupsApart
              DEF Group, InGroup, Due, DueAtOnce, SettingsDue, TypeOK
    <3>2. CASE command = "brew" /\ phase # "counters"
      <4>1. excused' = excused \ SetOf(Counters) /\ countersDue' = TRUE
        BY <1>12, <3>0, <3>2, <1>t DEF Return, Invalidated, TypeOK
      <4> QED BY <4>1, <2>1, <3>2, <1>t, GroupsApart
              DEF Group, InGroup, Due, DueAtOnce, SettingsDue, TypeOK
    <3>3. CASE /\ ~(command = "write" /\ phase # "settings")
               /\ ~(command = "brew" /\ phase # "counters")
      <4>1. UNCHANGED excused
        BY <1>12, <2>1, <3>0, <3>3 DEF Return
      <4> QED BY <4>1
    <3> QED BY <3>1, <3>2, <3>3
  <2>3. TypeOK'
    <3>1. /\ settingsAge' \in 0 .. SettingsTicks \cup {None}
          /\ countersDue' \in BOOLEAN
      <4>1. settingsAge \in 0 .. SettingsTicks \cup {None} /\ countersDue \in BOOLEAN
        BY <1>t DEF TypeOK
      <4> QED BY <2>1, <4>1, Zenon
    <3>2. excused' \subseteq Register /\ overtaken' \subseteq excused'
      BY <1>12, <1>t, <2>2 DEF Return, TypeOK
    <3>3. command' \in Command \cup {None} /\ acted' \in BOOLEAN
      BY <2>1
    <3> QED BY <1>t, <2>1, <3>1, <3>2, <3>3 DEF TypeOK, data, environment, history
  <2>4. DueWhileRead'
    <3>1. (DueAtOnce("settings") => DueAtOnce("settings")')
          /\ (DueAtOnce("counters") => DueAtOnce("counters")')
      BY <2>1, <1>t DEF DueAtOnce, SettingsDue, TypeOK
    <3>2. ~firstDone' => settingsAge' = None /\ countersDue'
      <4>1. firstDone' = firstDone
        BY <2>1
      <4>2. countersDue => countersDue'
        BY <2>1, <1>t DEF TypeOK
      <4>3. settingsAge = None => settingsAge' = None
        BY <2>1
      <4> QED BY <4>1, <4>2, <4>3 DEF IInv, DueWhileRead
    <3> QED BY <2>1, <3>1, <3>2 DEF IInv, DueWhileRead, Group
  <2>5. ReadSoFar'
    BY <2>1, <2>2 DEF IInv, ReadSoFar, data, environment, history
  <2>6. BehindOnlyIfOvertaken'
    <3>1. \A g \in Group :
              ~Due(g)' /\ firstDone' => ~Due(g) /\ ~DueAtOnce(g)'
      BY <2>1, <1>t DEF Due, DueAtOnce, SettingsDue, Group, TypeOK
    <3> QED BY <2>1, <2>2, <3>1 DEF IInv, BehindOnlyIfOvertaken, data, environment, history
  <2> QED BY <2>3, <2>4, <2>5, <2>6 DEF IInv
<1>13. CASE Fail
  BY <1>13, <1>t, Undisturbed DEF Fail, TypeOK, data, environment, history
<1>14. CASE StartCare
  BY <1>14, <1>t, Undisturbed DEF StartCare, Begins, TypeOK, data, calls, history, Process
<1>15. CASE Cancel
  BY <1>15, <1>t, Undisturbed DEF Cancel, TypeOK, data, calls, history, Process
<1>16. CASE Finishes
  <2>1. SetOf(Counters) \subseteq Register
    BY DEF Register
  <2>2. CASE Changes(SetOf(Counters))
    BY <1>16, <1>t, <2>1, <2>2, ChangesExcused, Undisturbed
       DEF Finishes, TypeOK, data, calls, history, Process
  <2>3. CASE UNCHANGED <<register, history>>
    BY <1>16, <1>t, <2>3, Undisturbed DEF Finishes, TypeOK, data, calls, history, Process
  <2> QED BY <1>16, <2>2, <2>3 DEF Finishes
<1>17. CASE AtTheMachine
  <2>1. trouble' \in 0 .. MaxTrouble
    BY <1>17, <1>t, BoundsAssumption DEF AtTheMachine, TypeOK
  <2>2. ASSUME NEW r \in SetOf(Settings), Changes({r}), UNCHANGED process
        PROVE  IInv'
    <3>1. {r} \subseteq Register
      BY DEF Register
    <3> QED BY <1>17, <1>t, <2>1, <2>2, <3>1, ChangesExcused, Undisturbed
            DEF AtTheMachine, TypeOK, data, calls, history
  <2>3. CASE Begins /\ UNCHANGED <<register, history>>
    BY <1>17, <1>t, <2>1, <2>3, Undisturbed
       DEF AtTheMachine, Begins, TypeOK, data, calls, history, Process
  <2> QED BY <1>17, <2>2, <2>3 DEF AtTheMachine
<1>18. CASE Leaves
  <2>1. trouble' \in 0 .. MaxTrouble
    BY <1>18, <1>t, BoundsAssumption DEF Leaves, TypeOK
  <2> QED BY <1>18, <1>t, <2>1, Undisturbed DEF Leaves, TypeOK, data, calls, history
<1>19. CASE ComesBack
  BY <1>19, <1>t, Undisturbed DEF ComesBack, TypeOK, data, calls, history
<1>20. CASE Tick
  <2>1. /\ settingsAge' \in 0 .. SettingsTicks \cup {None}
        /\ successAge' \in 0 .. StaleTicks \cup {None}
        /\ successAge' # None <=> successAge # None
        /\ settingsAge' = None <=> settingsAge = None
        /\ settingsAge # None /\ settingsAge >= SettingsTicks =>
              settingsAge' >= SettingsTicks
    BY <1>20, <1>t, TicksAssumption DEF Tick, Older, TypeOK, NoneAssumption
  <2>2. \A g \in Group : DueAtOnce(g) => DueAtOnce(g)'
    BY <1>20, <2>1 DEF Tick, DueAtOnce, SettingsDue
  <2>3. TypeOK'
    BY <1>20, <1>t, <2>1 DEF Tick, TypeOK, data, calls, environment, history
  <2>4. DueWhileRead' /\ ReadSoFar' /\ BehindOnlyIfOvertaken'
    BY <1>20, <2>1, <2>2 DEF Tick, IInv, DueWhileRead, ReadSoFar,
       BehindOnlyIfOvertaken, Due, data, calls, environment, history
  <2> QED BY <2>3, <2>4 DEF IInv
<1>21. CASE UNCHANGED vars
  BY <1>21, <1>t, Undisturbed DEF vars, TypeOK, schedule, history
<1> QED BY <1>1, <1>2, <1>3, <1>4, <1>5, <1>6, <1>7, <1>8, <1>9, <1>10, <1>11,
           <1>12, <1>13, <1>14, <1>15, <1>16, <1>17, <1>18, <1>19, <1>20, <1>21
        DEF Next, PollStep

-----------------------------------------------------------------------------
\* The inductive invariant: a group that is being read is due until its last
\* register has been read, and what has been read of it is not behind.
THEOREM Invariant == Spec => []IInv
BY Initially, Step, PTL DEF Spec

\* Type correctness: in particular a poll that reads a group has a register of
\* it left to read, and the first refresh reads none (coordinator.py:174-188).
THEOREM TypeCorrect == Spec => []TypeOK
<1>1. IInv => TypeOK
  BY DEF IInv
<1> QED BY <1>1, Invariant, PTL

\* coordinator.py:162-193, 248-257, 470, 499, 537, 545: a value that nothing
\* will read again is behind the machine only with an excuse, or because its
\* command returned while its group was being read.
THEOREM NothingForgotten == Spec => []BehindOnlyIfOvertaken
<1>1. IInv => BehindOnlyIfOvertaken
  BY DEF IInv
<1> QED BY <1>1, Invariant, PTL
=============================================================================
