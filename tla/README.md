# Melitta Barista TS integration: TLA+ models and proofs

This directory models the Home Assistant integration in
`src/custom_components/melitta_barista_ts/`, which drives a coffee machine over
Bluetooth LE. TLC checks the models on small instances; TLAPS proves the
central invariants for every value of the constants.

    tlc -config MCCoordinator.cfg MCCoordinator   # a run
    tlapm CoordinatorProofs.tla                   # the proofs of a module

`PROJECT.json` lists the runs, the mutants (one plausible bug per property,
which the property catches), the lines each definition stands for, the
findings, the hazards and the theorems.

## 1. The system

The code is asyncio: one thread, and tasks that interleave only at an `await`.
Callbacks of bleak (a notification, a lost link) run between any two such steps.

| Component | State | Operations | Hard behaviour | What makes it correct |
|---|---|---|---|---|
| **Request layer** `machine.py` | `_waiters`, `_request_lock`, `_key_prefix`, frame parser | `_request`, handshake, reads, acknowledged writes, `reset`, `_on_frame` | answers are keyed by command and not by request; late, lost, repeated and unsolicited answers; `reset` from a callback; timeouts and cancellation | one exchange at a time; no answer goes to a request while another waits for it; a read returns its own register; the session key is the machine's; no request blocks the next ones |
| **BLE session** `client.py` | `_client`, `_write_char`, `_connect_lock`, `_closing` | `async_connect` (ladder of two rungs), `async_run`, `async_clear_bond`, `async_disconnect`, `async_close`, `_on_disconnect` | several tasks connect at once; the link drops in every step, and its callback may be late; teardown half done; close racing everything | one ladder; a session is used on the link it was negotiated on; a live session is not torn down by a latecomer; no link forgotten; closed is closed |
| **Adapter choice** `client.py`, `__init__.py` | `last_good_source`, `_rotation`, refused set in `hass.data` | `_pick_device`, `_device_provider`, the end of a failed connect | each retry of the setup builds a new client; adapters come and go; refusals against plain failures | no adapter in range stays untried for ever |
| **Frame codec, parser** `protocol.py` | receive buffer and its start time | `build_frame`, `chunk_for_ble`, `FrameParser` | ciphertext that contains frame marks; lost chunks; assembly timeout; length limit | a frame that arrives whole is heard, once, whatever it contains and whatever came before |
| **Brewing** `machine.py`, `coordinator.py` | the machine's scratch recipe and its name; staged settings, selections | select, stage, brew (four requests), press a key | no lock covers the four requests; acknowledgements name no command; a selection overtaken by another | a brew makes what was asked for; what is staged after a selection is what the drink has stored |
| **Coordinator** `coordinator.py` | `data`, `_counters_due`, `_settings_read_at`, `_last_success_at` | poll, push, invalidate, write, brew, care, cancel | a poll of some 35 requests interleaves with every other call; failures of single reads; a poll that fails in three ways | no change made from here is forgotten; what went wrong heals; the data of an absent machine stop being fresh |
| **Setup and unload** `__init__.py` | the entry, its coordinator and client | setup, retry, unload, reload | a first refresh or a platform that fails in any way; a platform that does not unload | every open client belongs to an entry that needs it |
| **Recipes, registers, profiles** `const.py`, `protocol.py`, `machine.py`, `coordinator.py` | none | ids, recipe keys, overrides, seeding, labels | clamps, roundings, values without a name, equal names | round trips; slots and labels that are distinct |
| **Pairing agent** `pairing.py` | bus, agent, registered flag, lock | `async_ensure_agent` | one agent for all entries; registration that fails or is cancelled half way | registered once; never blocked |
| **Services** `services.py` | whether they are registered | resolve targets, loop over coordinators | one machine of several fails, or its entry is reloaded meanwhile | what a call gives reaches the brew |
| **Flow** `config_flow.py` | the form and its machine | discovery, form, submit | several forms for one machine | one entry per machine |
| **Entities** | what was last written | availability, controls | written only when listeners are told | what they show follows the data |
| **Diagnostics**, **brand icon** | a mark that the path is registered | copy data, serve a file | | |

Calls go down: entities and services → coordinator → `async_run` of the client →
requests of the machine → `_write` of the client. Callbacks go up: a
notification → parser → `_on_frame` → a future, or a pushed status for the
coordinator; a lost link → `_on_disconnect` → `machine.reset`. Two FIFO locks
order the work: the client's connect lock and the machine's request lock. The
connect lock is not held while requests run, and nothing is held over the four
requests of a brew or the requests of a poll.

## 2. The modules

| Module | Models | Built on |
|---|---|---|
| `FifoLock` | `asyncio.Lock` as the queue of its owner and waiters, and how many are before a task | |
| `MelittaMachine` | the request layer | `FifoLock` |
| `BleClient` | the BLE session | `FifoLock`, refines `BleSession` |
| `BleSession` | what the client promises: one session at a time, from nothing to nothing, none after the shutdown | |
| `AdapterRotation` | the choice of the adapter over connects, setups, reloads and repairs | |
| `FrameParser` | framing, chunks, reassembly | |
| `Recipes` | identifiers, recipe keys, overrides, seeding, labels: operators without state | |
| `BrewSequence` | selecting, staging, brewing | `Recipes`, refines `Orders` |
| `Orders` | what brewing promises whoever asks: made once at most, as ordered, done only if made | |
| `Coordinator` | polling, freshness, invalidation, commands | |
| `Entries` | flows, entries, the pairing agent | |
| `MC...` | instances for TLC: symmetry, recipes, registers, a table of commands | |
| `...Proofs` | the theorems about `FifoLock`, `MelittaMachine`, `BleClient`, `AdapterRotation`, `FrameParser`, `BrewSequence` with its `Recipes` and `Orders`, `Coordinator`, `Entries` | |

Each layer sees the one below by its outcomes only, and the outcomes it assumes
are those the lower module shows. `MelittaMachine` ends a call in a value, an
error, or `CancelledError` from `reset`; `BleClient` ends a run likewise, and
these are `ReadSucceeds`, `ReadFails`/`NoAnswer` and `LinkLost` of `Coordinator`,
and `Refreshed`, `NotReady` and `SetupCancelled` of `Entries`. `BrewSequence` has
the request lock and the wire of `MelittaMachine` again, with the commands of a
brew instead of the ways of ending a request. A handshake is the state `hs` in
`BleClient` and a request in `MelittaMachine`; a session key is named by the link
it was negotiated on in the one, by its challenge in the other.

### MelittaMachine

One action is what runs between two awaits. `pc` places a task in `_request`:
`queued` at the lock, `sending` in `write_gatt_char` with its future registered,
`broken` where `_write` raises at once because there is no link, `waiting` in
`wait_for`.

| Action | Code |
|---|---|
| `Call`, `Handshake` | a public method, up to the lock; the handshake with the `reset` the client runs before it |
| `Acquire` | the lock is ours: the future is registered under its key, the frame built |
| `Sent`, `WriteFails` | the GATT write ends |
| `Resume` | the future is done: the answer is accepted, refused, or asked for again |
| `TimesOut`, `SeesCancel`, `Abandon` | `wait_for` expires; `reset` cancelled the future; the caller was cancelled |
| `Deliver` | `_on_frame`: the oldest answer resolves the future under its key or is dropped |
| `Push`, `LinkDown` | the machine sends its status unasked; `_on_disconnect` |

The command alphabet is folded to what behaves differently: `HU` handshake, `HR`
a read that checks the register it got (`HA` alike), `HC` one that does not
(`HF`, `HV` alike), `HX` status, and `HW` any write answered by `A` or `N`. The
machine answers at once, later, or never, and it only reacts to frames under the
key it holds. `to` in a frame is a ghost: the request it answers, `None` once
that has ended. Payloads always decode: `ProtocolError` would end a request the
way `Fail` does.

`ComesNearer` says how far each call is from its end: the asks it may still add,
the tasks before it in the queue, the state of the one at the head (`Left`). Each
step of the lock's owner makes that less for everybody, and no other step, an
answer, a push, a lost link or another caller, makes it more. So a call ends after
a bounded number of steps of the owners, whatever the machine does, and a read
that asks again does not starve the others.

### BleClient

`pc` places a task in the ladder: `lock`, `teardown` (in `client.disconnect()`),
`open` (in `establish_connection`), `subscribe`, `shake` (in the handshake),
`acting` (in the action of `async_run`), `bond` (in `_async_clear_bond`). `goal`
is what the task wants the lock for, `after` what follows the teardown. The link
is `_client`; `up` is what is really connected, so that a link nobody refers to
any more can be seen. `Stubborn` links are those a disconnect has no effect on,
one of the ladder and one of a repair alike: `Closes` is `disconnect()` with its
errors suppressed.

| Action | Code |
|---|---|
| `CallRun`, `CallClear`, `CallClose` | `async_run` and the poll, `async_clear_bond`, `async_close`, up to the lock |
| `Enter` | the lock is ours: look again for a session, tear down, pick the device |
| `TornDown` | `disconnect()` is over |
| `Opened`, `OpenFails`, `Subscribed` | `_async_open_session` up to the first handshake |
| `Written`, `WriteFails`, `NoHandshake`, `Shaken`, `ShakeCancelled` | `_async_handshake_on_a_working_char`, and the end of the ladder |
| `ActionEnds`, `ActionBreaks` | the action of `async_run`, and the disconnect after a `BleakError` or a timeout |
| `BondOpened`, `BondDone` | `_async_clear_bond`'s own connection (`private`), and its end: unpaired or not, disconnected or not |
| `Drop`, `Abandon`, `Answered` | a link is lost and its callback runs; the task is cancelled, wherever it is, a repair included; the machine answers |

`_on_disconnect` during a `disconnect()` of our own is folded into it, for
`_client` is `None` by then. The link of a repair has no callback, and a link
nobody remembers may have been one (`MayBeRepairs`). `async_close` is called once
per client, which is how the coordinator and the setup use it. Links are reused,
so two links are enough for any history.

`ComesNearer` is here that each step of the connect lock's owner brings every call
nearer to its end: `Left` is how often the call may still want the lock (a poll
twice, an action that breaks once more), its position in the queue, and the steps
the owner has at most, which `OwnerSteps` counts: two rungs of `3 * Chars + 3`
steps, and two around them. `ClosedButForRepairs` is what is true of the promise
of `async_close`, which repairs break (see Findings).

### AdapterRotation

A connect is `Look` (pick a device), and then `Succeed`, `Fail("plain")`,
`Fail("refused")` or `Break`, the connect that ends in `CancelledError` when the
link drops during the handshake. `Setup`, `Unload` and a failed first refresh
replace the client, which forgets `lastGood` and `rotation`; `refused` survives.
`untried` is a ghost: the adapters in range that were not tried since there was a
session. Adapters are numbered in Home Assistant's order. `_rotation` only
matters modulo the number of candidates, so it is kept modulo `Turns`, a common
multiple of these. `RefusedNotUsed` relates what outlives the client to what it
keeps itself: a refused adapter is neither preferred nor in use.

### FrameParser

The sender takes one message after another (`Begin`), of which each byte arrives
(`Receive`, which is `_feed_byte` whole), or a chunk of `Mtu` bytes is lost
(`LoseChunk`), or the assembly timeout goes by (`Pause`), or the link drops
(`Reset`). `stale` stands for the clock: whether `_started_at` is longer ago than
the timeout. A message is a command and a body, which is payload and checksum as
they are on the wire; `Sound` is the set of messages whose checksum is right, so
that encryption and checksum need no arithmetic. `intact` is a ghost: the frame
under way found an idle or outdated buffer and has lost nothing since. A pause
inside a frame counts as lateness, so chunks that arrive within the timeout are
what is promised for.

### Recipes and BrewSequence

`Recipes` is the arithmetic of `const.py`, `machine.py` and the coordinator's
staged settings: `Overridden` is `_apply_overrides` for one component with its
rounding and clamp, `Seeded` is `seed_from`, `Filled` the defaults of a call,
`OptionOf` and `ProfileFor` the labels of the profile selector.

In `BrewSequence` each task performs one operation, `Select`, `Brew` or
`PressKey`; `at` is the request it is at, `held` the recipe a brew has read. A
brew is asked for any slot, as a service does, and whether or not it is selected.
`Send` puts its command on the wire, `Deliver` gives the oldest answer to whoever
waits under its key, and `TimeOut`, `NotConnected` and `Drop` end it. `CarriesOut`
and `Refuses` are the machine: slot 400 (`scratch`), slot 401 (`label`), and the
drink it makes at a start. `crossed` is a ghost: the operations that were given
another's answer, or whose scratch recipe or name another brew has overwritten
before their start. The code has no protection against either, so these are what
the properties except; what is left is a brew's own order, failures and data.

`Orders` states that without requests, slots and acknowledgements: somebody asks,
a drink is made at most once and as ordered, an order reported done was made, and
only one that is not alone can be disturbed. `Promise` maps `BrewSequence` to it:
every operation is an asker, a brew's order is the stored recipe with the call's
overrides, its name and its cups (`Asked`), `crossed` is `disturbed`.

### Coordinator

`phase` is the await the poll stands at: `connect`, `status`, `type`, or a read of
a group of registers, with `todo` the registers left. `GoOn` is everything that
runs from the end of one phase to the next request: which groups are due, that a
group counts as read, and at the end `last_update_success`, the time of success
and the listeners. `register` counts the changes of each register of the machine
and `shown` is the count the entities show, so that being behind is a comparison.

| Action | Code |
|---|---|
| `StartPoll`, `Connected`, `StatusAnswered`, `AdoptStatus` | `_async_update_data` up to the status; adopting it is a step of its own, since a push may come before |
| `ReadSucceeds`, `ReadFails` | one register, or the machine's type, in `_safe_read_numerical`, `_async_refresh_profiles`, ... |
| `NoAnswer`, `LinkLost` | `UpdateFailed`; `CancelledError`, which leaves `last_update_success` as it is |
| `Push`, `Touch` | a pushed status; `async_update_listeners` of a selection or a staged value |
| `Ask`, `Act`, `Return`, `Fail` | a write or a brew: the call, the machine's part, the invalidation, an error |
| `StartCare`, `Cancel` | the guards on the last known status, and the machine's part |
| `Finishes`, `AtTheMachine`, `Leaves`, `ComesBack`, `Tick` | the machine, people at it, and time |

`excused` is a ghost: the registers that may be behind, because they were changed
at the machine, their last read failed, or the command that changed them has not
returned or has failed. `overtaken` are those of them whose command did return, but
while their group was being read, so that the end of the reading overwrote the
invalidation: no doc excuses these, and the run `overtaken` shows them.
A first refresh that fails discards the coordinator (`Discarded`). After
`ConfigEntryNotReady` the entry is set up again with a new one, which the model
goes on with; after `CancelledError` nothing polls any more, and `phase` is `gone`.
Home Assistant's base class is modelled as `coordinator.py` uses it: polls exclude
one another, and a failed poll tells the listeners only if the one before was
good.

### Entries

`phase` is the life of each machine's entry: `unloaded`, in setup (`first`: the
first refresh; `waiting`, `agent`, `registered`: inside `async_ensure_agent`
during that refresh; `platforms`), `loaded`, `retry`, `unloading`, `closing`,
`failed` (a setup ended by `CancelledError`, which Home Assistant does not retry),
`broken` (a platform raised, or the setup was cancelled then) and `stuck` (a
platform did not unload). `open` are the machines whose client is not closed,
`leaked` those whose client was left behind by a setup that failed or was
cancelled. `ShowForm`, `Submit` and `CloseForm` are the flow, `Remove` and
`Reload` the user; a reload of a loaded entry is an `Unload` and a `Setup`.
`agents` is BlueZ's table, `abandoned` a ghost: registrations that were cancelled
after BlueZ had made them.

## 3. The runs

| Run | Instance | What it shows |
|---|---|---|
| `exchange` | 2 tasks, 2 registers, 2 challenges, 1 answer in flight, 2 asks (the code's value); 258,953 states | `OneExchange`, `NoCrossTalk`, `RightRegister`, `KeyAgreement`; `CallsEnd`: every request ends and hands the lock on; `ComesNearer` |
| `connect` | 2 tasks, 2 links of which one is stubborn, 2 characteristics, all operations; 51,692 states | `OneLadder`, `SessionOnItsLink`, `LiveSessionKept`, `NoLinkForgotten`, that the client implements `BleSession` (`OneSession`), `CallsEnd` and `ComesNearer` |
| `rotation` | 3 adapters, 2 changes of what is in range; 81,826 states | `RefusedNotUsed`, `TurnsComeRound`, `RefusalsRotate` |
| `brewing` | 2 tasks, a drink with milk and a direct key whose strength has no name, two calls, one edit, 2 messages each way; 339,016 states | `RightDrink`, that brewing implements `Orders` (`KeepsPromise`), `OperationsEnd` |
| `coordinator` | 2 settings and a counter with the three ways a failed read is shown, 1 change of each, 1 trouble, settings due after 2 ticks, stale after 1; 466,715 states | `BehindOnlyIfOvertaken`, `SettingsSettle`, `AbsenceNoticed` |
| `parser` | 10 messages of two commands whose bodies contain S, E and the letters of the commands, chunks of 4, a limit of 9; 11,920 states | `IntactFrameHeard` |
| `entries` | 2 machines, 2 flows, 3 troubles; 267,120 states | `OneEntry`, `ClientsOwned`, `OneAgent`, `ComesUp` |
| `escalation`, `preference`, `staged`, `overtaken`, `unavailable` | | each refutes one statement of a comment, a doc or a test: see Findings |

Why the bounds are enough.

* *Tasks.* The locks admit one task and the rest queue alike, so two show every
  race; a brew against a brew, a brew against a selection and a selection against
  a selection are all instances of two operations.
* *Requests.* Two registers tell the right answer from a wrong one, and two
  challenges the new handshake from the late one. The wire is FIFO, so the late
  answer of one read reaches the next request before that request's own; one place
  on the wire holds it, and the proofs cover any number.
* *Frames.* The longest frame has 7 bytes of a limit of 9, so that wreckage can
  exceed the limit; the shortest has 4, a whole chunk, the longest two chunks.
  `MCFrameParser` also evaluates what the proofs assume of a command table, the
  absence of prefixes and the limit, on `INBOUND_COMMANDS` itself.
* *Brews.* One stored recipe has a second component that takes the hopper, the other
  an empty one and a strength without a name; one call leaves everything open, the
  other gives a portion that is rounded. The ids, roundings and labels themselves
  are proved for all values.
* *Coordinator.* A read that fails may be cleared, kept or replaced by a default,
  and there is one register of each kind. One change per register suffices to be
  behind; one trouble is one failure, lost link, absence or visit to the machine,
  after which liveness asks for recovery.
* *Entries.* Two entries are enough for two registrations of the agent at once, and
  three troubles for one that is cancelled, one that fails and a setup that fails
  besides. Coming into and going out of reach is unbounded.

Nothing else is bounded: tasks, polls, setups and connects start over, so histories
have any length. Only `BrewSequence` lets a task perform one operation, because
who made what is recorded; what an earlier brew leaves behind is then seen by the
other task. `MaxTrouble` bounds failures of what is in reach and not absences.
`AdapterRotation` has no deadlock check, for there the system may really stop: the
machine has left for good.

### Fairness

Weak fairness stands for: the event loop runs what can run, `wait_for` and
`asyncio.timeout` expire, and bleak ends its own GATT calls, the one thing the
code does not bound itself.

| Module | Fair | Not assumed |
|---|---|---|
| `MelittaMachine`, `BleClient` | each task's own steps | the machine, the link, `_async_clear_bond`'s link |
| `AdapterRotation` | Home Assistant retries a setup and polls a loaded entry, a connect ends; strong fairness of a repair, since connects come in between and the FIFO lock of `BleClient` lets it have its turn | that anything succeeds |
| `BrewSequence` | each task's own steps; a message on its way arrives or is lost | that it arrives, that the machine obeys, that the link comes back |
| `Coordinator` | the timer, the steps of a poll, the end of a command, time, and that the machine finishes what it does | that a given read succeeds: `MaxTrouble` bounds how often one fails in reach |
| `Entries` | the steps of a setup and an unload, retries included | that the machine is in reach: `ComesUp` supposes it |

### Findings

Each is a run that checks what a comment, a test or `docs/PROTOCOL.md` says and
that TLC refutes on what the code does.

* `escalation`: a link that drops while the handshake waits cancels its future;
  the `CancelledError` leaves the ladder before pairing was tried, and with it
  `async_run` and the poll. Rotation does not move on either (`Break`).
* `preference`: the adapter of the last session is asked again for ever when it
  fails without a refusal, while others in range stay untried.
* `unavailable`: entities are written after a failed poll only if the one before
  was good, and then the data are still fresh. When they stop being fresh nobody
  is told, so a machine that stays away stays shown as available.

* `staged`: a selection whose read timed out leaves its answer to the next one, which
  stages the other drink's settings for the drink that is selected, for
  `read_recipe` does not compare the id. So a brew as staged does not make what the
  machine has stored, against `coordinator.py:63-67`, `README.md:126-129` and
  `docs/PROTOCOL.md:404-407`. There is no other way to a wrong recipe:
  `WrongRecipesAreStale` proves that a read which returns another recipe was given
  the answer of a request that had ended. What is true of the staged settings is
  `StagedIsStored`, which `StagingIsFaithful` proves: they are the recipe's after a
  selection that no other one overtook, that was given its own answer, and whose
  values all have a name.
* `overtaken`: a write that returns while the settings are being read, its register
  already done, invalidates them in vain, for the end of the reading sets
  `_settings_read_at`; the counters alike. The next poll reads nothing, against
  `coordinator.py:251` and `256`. The settings heal by their age (`SettingsSettle`),
  the counters with the next brew from here. `NothingForgotten` proves that among
  commands that return nothing else breaks that promise.

Disagreements that no run shows, because the models make them plain:

* `async_clear_bond` does not look at `_closing`: a repair that waits behind
  `async_close`, or comes after it, connects for the closed client, against
  `client.py:378`. Nothing else does that: `ClosedStaysClosed` proves that the link
  of a closed client is one a repair has opened for itself, and
  `ClosedUnlessRepaired` that a client nobody repairs keeps the promise.
* `seed_from` passes over a strength or temperature without a name, and
  `_apply_overrides` over a portion of 0, so for such recipes a brew as staged is not
  the recipe either (`Nameable`), nor is it after a read that failed.
* Only register reads check the id they are answered with (`WrongOnlyIfStale`).

Observations that are part of the models:

* Asking again after a stale answer reads the right register, but leaves the
  stream of answers one behind: each read of another register asks twice, until an
  answer is lost or the link renewed.
* A link lost before the handshake is written fails on every characteristic and is
  reported as a machine that refuses to answer (`RungFails` with `silent`).
* A disconnect that fails is taken in silence, by the ladder and by a repair, and
  leaves a link nobody refers to (`NoLinkForgotten` allows that one way, and the drop
  of another link as the other).
* Two brews, or a brew and a selection's read, may cross in the scratch slot, and the
  late acknowledgement of one step may lead the next on; the operations in `crossed`
  are promised nothing. The two selectors share the staged settings.
* A lost connection in the middle of a refresh is taken for missing registers, and
  the group counts as read (`Read(FALSE)` until the last one). A drink made at the
  machine invalidates nothing.
* A setup that ends by `CancelledError` is not tried again, and leaves its client
  open and, if it was registering the agent, an agent nobody remembers; a platform
  that raises leaves the client open too.
* The parser may stay lost while frames keep coming without a pause longer than
  the timeout, up to the length limit each time.

## 4. The proofs

For every set of tasks, links, machines, flows, registers and messages, every
number of characteristics and retries, every age and every bound, from the
assumptions the modules name:

| Theorem | Statement |
|---|---|
| `MelittaMachineProofs!Invariant` | `Spec => []IInv` |
| `TypeCorrect`, `ExchangesExclude`, `AnswersDoNotCross`, `ReadsAreRight`, `KeysAgree` | `TypeOK`, `OneExchange`, `NoCrossTalk`, `RightRegister`, `KeyAgreement` |
| `NobodyForgotten`, `SomebodyGoesOn`, `CallsComeNearer` | a call is in the queue of the lock; the lock's owner has a step to take; `ComesNearer` |
| `WrongRecipesAreStale` | `WrongOnlyIfStale` |
| `BleClientProofs!Invariant` | `Spec => []IInv` |
| `TypeCorrect`, `LaddersExclude`, `SessionsMatch` | `TypeOK`, `OneLadder`, `SessionOnItsLink` |
| `SessionsRefine` | `Spec => OneSession`, the refinement of `BleSession` |
| `LinksRemembered`, `LiveSessionsKept` | `NoLinkForgotten`, `LiveSessionKept`, about steps |
| `SomebodyGoesOn`, `CallsComeNearer` | as for the request lock, for the connect lock |
| `ClosedStaysClosed`, `ClosedUnlessRepaired` | `ClosedButForRepairs`; `ClosedForGood` if there are no repairs |
| `AdapterRotationProofs!Invariant`, `TypeCorrect`, `RefusedUnused`, `PickedInRange` | `IInv`, `TypeOK`, `RefusedNotUsed`, `PicksInRange` |
| `EveryoneWithinOneRound` | of `n` candidates, none preferred, each is picked within `n` turns |
| `FrameParserProofs!Invariant`, `TypeCorrect`, `FramesHeard` | `IInv`, `TypeOK`, `IntactFrameHeard` |
| `CoordinatorProofs!Invariant`, `TypeCorrect`, `NothingForgotten` | `IInv`, `TypeOK`, `BehindOnlyIfOvertaken` |
| `BrewSequenceProofs!Invariant`, `TypeCorrect`, `DrinksAreRight`, `DoneIsMade`, `StagingIsFaithful` | `IInv`, `TypeOK`, `RightDrink`, `DoneMeansMade`, `StagedIsStored` |
| `OrderInvariant`, `BrewsRefine` | `OrderInv`; `Spec => KeepsPromise`, the refinement of `Orders` |
| `SeededChangesNothing` | a brew with the settings staged from a component makes that component again |
| `PortionIsNearest` | a portion in ml becomes the nearest one a byte of 5 ml steps can name |
| `SlotsApart` | the slots of the menu, the direct keys, the names and the scratch recipe are distinct |
| `LabelsApart`, `LabelsLeadBack` | labels of profiles are distinct, unless a name looks like another with its number appended; a label leads back to a profile that has it |
| `EntriesProofs!Invariant`, `TypeCorrect`, `EntriesUnique`, `ClientsHaveEntries`, `AgentUnique` | `IInv`, `TypeOK`, `OneEntry`, `ClientsOwned`, `OneAgent` |

The invariants are not inductive as they stand, and `IInv` is what they need:

* `MelittaMachine`. `QueueInv`: no task is queued twice, and who is past the lock
  is at its head. `WaiterInv`: futures and the table of waiters agree. `WireInv`:
  an answer in flight to a live request is the lock owner's, hence no cross
  talk. `ResultInv`: a read returned only after its register was compared.
  `KeyInv`: one handshake at a time, without a key until it ends, and an answer
  that echoes its challenge carries the key the machine holds; that is why an
  echo check suffices against late handshakes. For `ComesNearer`, `EveryoneInLine`:
  whoever is in a call is in the queue, and a read that asks again goes to its end
  with an ask less to do; the measure is ordered lexicographically. For stale
  recipes, `OwnAnswersMatch`: an answer to a request names what that one asked for.
* `BleClient`. `QueueInv` as above; exclusion follows from it, as two different
  tasks cannot both be the head of the queue. `LinkInv`: the link in use is
  connected, nobody sets up a link while there is a key, a handshake is on the
  client's link. `CloseInv`: nobody who wants a session is queued behind a close,
  for `async_run` looks at `_closing` before it joins the FIFO; so the close is
  the last to open or leave a session. For the refinement, `StepKinds` says that
  each step leaves the session alone, opens it from nothing, loses it or shuts it.
  For what a step may never do, `VictimInv`: a link is being disconnected only while
  its task waits for that, so the next disconnect does not overwrite it; `LinkStep`
  lists what a step does to the links the client refers to. `ComesNearer` has one
  lemma per way to leave the lock (`HandsOn`, `WaitsAgain`) and one for a step on the
  ladder (`Climbs`), for which `StepsLeft` collects the number of steps left at each
  place. `RepairInv`: only a repair has a link of its own, or will after its teardown.
  A repair ends in one way for the links, whatever its result (`RepairEndKeeps`).
* `AdapterRotation`. `OneAttempt`: one connect at a time and not beside a session,
  which is on the preferred adapter. That the pick is a candidate, whatever
  `_rotation` is, needs that a finite set of numbers has an `n`-th smallest
  (`NthExists`); `EveryoneWithinOneRound` is then arithmetic modulo the number of
  candidates.
* `FrameParser`. `Collected`: of an intact frame the buffer holds exactly what has
  arrived. That an E inside does not end it needs that the command table is free of
  prefixes (`OnlyItsCommand`): what has arrived of a frame can only be taken for a
  frame of the same command, and that has another length (`NoEarlyEnd`). At the
  last byte it is taken for the message (`WholeFrame`). `FrameLength(c) <= Limit`
  keeps it from being given up.
* `Coordinator`. `DueWhileRead`: a group under way stays due until its end, so an
  interrupted poll reads it again; `ReadSoFar`: what has been read of it is not
  behind. `GoesOn` proves `GoOn` once for its four callers, `Undisturbed` everything
  that leaves the values alone.
* `Entries`. `AgentAccounted`: who registers the agent has the lock, nobody does
  once it is known, and all agents but one were abandoned. The other invariants
  are inductive together with `TypeOK`.
* `BrewSequence`. `SentOnce`: a command is sent once, its sender still waits for its
  answer or has gone on, its argument is what the operation wants, and the answer
  to a read carries the recipe stored in the slot that was asked for. `Written`:
  from the acknowledgement of its copy on, or the moment a later command of the
  brew is on its way, the scratch slot holds what an undisturbed brew wrote, and
  likewise its name; and an acknowledged start has made something. This needs the
  order of the four requests: a name on its way means that the copy was
  confirmed, by its own answer unless the brew is `crossed`. `MadeOnce`: a start is
  not carried out twice. `OneSource`: settings with a source come from the only
  selection under way, or from one that has ended; the last step is
  `SeededChangesNothing`. `Quieter` proves once what every step that sends and
  writes nothing has in common, whichever operations it ends. For the refinement of
  `Orders`, `OwnAnswer`: nobody answers twice, so an operation whose answers were all
  its own has no other one under way, and to be led on takes another operation;
  `OnlyBrews`: nothing but a brew goes beyond its read, so nothing else writes or
  starts. Each step maps to `Ask`, `Make`, `End`, `Disturb` or a stutter.
* `Recipes`. No induction over data: `SeededChangesNothing` by the cases of each
  field, and `PortionByte(5 * p) = p`; `LabelsApart` from the lengths and last
  elements of names; `LabelsLeadBack` from the least number with a property
  (`LeastNumber`), which is the first of equal labels.

Each step of `Next` has a lemma or a step of its own, and the lemmas of
`FifoLockProofs` say what joining, being handed and giving up the lock do to the
queue and to the position of every other task in it.

Only model-checked: the liveness properties (`CallsEnd`, `OperationsEnd`,
`TurnsComeRound`, `RefusalsRotate`, `SettingsSettle`, `AbsenceNoticed`, `ComesUp`),
for fairness and ENABLED are out of the prover's reach. Of the two `CallsEnd` what
does not need fairness is proved: somebody always has a step to take
(`SomebodyGoesOn`), and every such step is a step towards the end of every call
(`CallsComeNearer`); that the step is then taken is what fairness says.
`EveryoneWithinOneRound` is the like for `TurnsComeRound`.
No module declares a recursive operator.

## 5. Plan

What is left, in this order:

1. The composition of `Coordinator` with `BleClient`'s outcomes as a refinement
   instead of by the correspondence of section 2.
2. What does not need fairness of `OperationsEnd`, as for `CallsEnd`: the owner of the
   lock brings every operation nearer to its end, a lost link included.
3. The scope of the findings `unavailable` and `preference` as theorems, as for
   `staged` and `overtaken`.
4. The brand icon's registration and its removal on unload.

## 6. Not modelled

* Radio, GATT discovery, D-Bus and Home Assistant are environment, as the code uses
  them. The map marks what is modelled of them as external.
* The RC4 stream, the checksum's arithmetic and the verifier of the handshake: a
  message is sound or it is not. The security of the protocol is not a subject.
* The decoding of payload records field by field, and the value functions of the
  sensors, which render the coordinator's data; translations, log and error texts,
  in particular how the error of a failed connect is put together
  (`client.py:435-544`).
* The schemas of services and forms, and the options form, which stores what it is
  given and reloads the entry.
* How a service finds its coordinators and goes through them (`services.py:137-211`,
  and its loops): it keeps no state of its own. What a call gives is in
  `BrewSequence`. A call for several machines that fails at one of them has told
  those before it, and says so only by its error.
* The refusal of a profile the machine does not have, which is a check of an
  argument against a constant.
* `async_release_agent`, which nobody calls.
* Diagnostics copy the data. The brand icon touches nothing of the machine; two
  entries set up at once can register its path twice (`brand.py:35-46` awaits
  between the check and the mark), and unloading one of two entries that want the
  icon takes its script from the frontend for both (`__init__.py:51-53`).
