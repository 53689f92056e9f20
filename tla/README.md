# A verification of the WAGO 879 integration

TLA+ models of the Home Assistant integration in `src/custom_components/wago_879`,
TLC configurations that check them on small instances, and theorems that TLAPS
proves for every instance. Line numbers are those of the commit in `src/`; paths
without a directory are below `src/custom_components/wago_879`, `README.md:n` is
the integration's own README.

    tlc -config <File>.cfg <Module>.tla      # one run of the table below
    tlapm <Module>Proofs.tla                 # one set of proofs

`PROJECT.json` lists components, runs, the source lines of every definition, the
hazards, the findings, the theorems, and for each checked property a plausible
mistake in the code that breaks it.

## 1. The system

The integration polls one energy meter per *config entry* over Modbus TCP. The
meter hangs behind an 879-9000 *module*, which owns the network address and has
settings of its own. Everything runs as coroutines of one event loop: between two
awaits nothing else runs, and each await is a place where everything else may.

| Component | Source | State it keeps | Operations |
|---|---|---|---|
| Entry lifecycle | `__init__.py` 59-266 | phase of the entry, repair issue, update listener, runtime data | setup, retry, reload, unload, remove |
| Moving an entry | `config_flow.py` 279-316, `sensor.py` 48-57 | `entry.data["host"]`, title | `async_move_entry`, called by the search, the reconfigure form and the module page |
| Module API | `wago_879_api/device.py` 212-297 | a write lock; the module's registers, flash and settings in use | `async_read`, `async_write` |
| Module page | `config_flow.py` 533-678 | what the page read, whether a write failed, the host it saw | open, submit, write, retry, follow |
| Pollers | `coordinator.py`, `sensor.py` 91-125, `wago_879_api/device.py` 109-140, `__init__.py` 107-150 | last values, failed polls in a row, what the entities show | read the identity, poll in one request or two, tolerate, fail, first refresh |
| Module search | `discovery.py`, `config_flow.py` 181-486, `__init__.py` 218-252, 287-298 | running flows, meters already asked, module devices | hear, dispatch, probe, check, offer, follow, add by hand |
| Adoption, renaming | `migration.py`, `entity_id_rename.py` | the entity registry | resolve, adopt, undo, rename |
| UDP search | `wago_879_api/discovery.py`, `addresses.py` | replies of one search by serial | `async_browse` |
| Settings validation | `module_settings.py`, `wago_879_api/addresses.py` | none: one form against what the page read | show, check, save what changed |
| Mutation harness | `.github/scripts/mutate.py` | a plan, working copies, a queue of free ones, results | prepare, break, test, restore, collect, clean up |
| Entities, descriptions, registers, diagnostics, logging, constants | the rest | none after setup | pure or declarations |

How they interact. A setup reads the meter's serial, adopts and renames entity
ids, lets both pollers read once, reads the module, registers the module device,
adds the update listener and starts the platforms. A change of the entry reloads
it: through the listener when a setup got far enough to register it, otherwise by
a scheduled reload. The search runs beside all entries; a reply opens a flow that
tells by the module device, the address or the meter's serial whose module it is,
and moves that entry or offers a new one. The module page writes the module
through the loaded entry's API object and then moves or reloads the entry; what
it accepts is a matter of the settings it read alone. The mutation harness is a
program of its own, threads and processes and no event loop: it breaks the code
on purpose and runs the tests that must notice.

### What is hard, and the properties that make each part correct

* **Entry.** A flow decides to move the entry, awaits a meter or module for
  seconds, and comes back to an entry that was moved, renamed, reloaded or
  deleted. A move may land before, during or after a setup with the old host.
  *No move is lost, none is made on an old decision, each change reloads once, no
  failed attempt is logged under an address, and the entry recovers.*
* **Writes.** Whole blocks are read and written back; each of five requests may
  fail with or without effect. *Writes touch only their own fields, what they
  report is true, and each ends.*
* **Page.** What a page read grows old; a failed write leaves a part of itself.
  *An entry goes where its module goes, a retry repairs, a first write undoes
  nobody's change.*
* **Pollers.** Two timers, a poll of two requests that may fail in either and one
  of a single request, tolerated failures, setups that fail between the two first refreshes, a device that takes
  the meter's address. *Unavailable from the fourth failure in a row to the next
  good poll and at no other time; never half of one poll and half of another;
  another device's readings only until the next setup; always back.*
* **Search.** Replies are old when they are read, modules swap addresses and
  meters, the answer of a meter is kept. *One offer for a meter, none beside its
  entry; entries end where their modules are; every new meter is offered.*
* **Settings.** Rules that relate several fields, for fields that changed only,
  against a module that may hold anything. *What is saved works; nothing the user
  did not touch stops a save; an untouched form writes nothing.*
* **Mutation harness.** Workers that break files share a queue of trees; cases
  raise, writes fail, Ctrl-C comes anywhere. *A result was measured on its own
  mutation alone, no tree is shared or lost, the copies outlive the workers, the
  repository ends as it was.*
* **Entity ids.** History hangs on ids; the registry remembers removed ones.
  *Adoption is all or nothing, no setup cuts off a history, an id that is taken
  keeps no meter from loading.*

## 2. The modules

Each detailed model stands for itself; where two components meet, one of them is
a single step in the other's model, and the module named does the detail.

| Module | What it models | Composes or refines |
|---|---|---|
| `ConfigEntry` | one entry, one action for each await of a setup; the moves of three kinds of flows | implements `EntryHost`; adoption is one outcome (`EntityIds`), the page's write is one step (`ModulePages`) |
| `EntryHost` | abstract: a host changes by compare-and-swap, and a reload is owed until a setup takes it up | |
| `WagoModule` | `async_write` request by request, the lock, reloads, restarts | implements `FieldWrites` |
| `FieldWrites` | abstract: a write changes its own fields | |
| `ModulePages` | pages from opening to following, with WAGO's own tool, the search and the user | a write is one step with the requests that landed as its outcome, by `FieldWrites` |
| `Poller` | the identity, the pollers of one entry request by request, and their entities | implements `PolledEntities`; identity and first refreshes are those of `ConfigEntry`, with the values |
| `PolledEntities` | abstract: an entity shows one whole poll and is unavailable past the tolerated failures | |
| `ModuleSettings` | what the settings page accepts and writes, field by field | the page's opening and saving are those of `ModulePages`, with the checks |
| `MutationRun` | one run of the mutation harness | |
| `ModuleSearch` | several modules, meters and entries; replies, probes, checks, offers | a setup is one step (`ConfigEntry`) |
| `EntityIds` | the registry under adoption, renames, users and the YAML block | |
| `MC*` | the small instances for TLC | |
| `*Proofs` | the theorems | |

### ConfigEntry and EntryHost

`phase` is the await a setup is at or the state the entry rests in; `host`,
`title` and `options` are the entry's data; `runHost` and `polled` are what the
last attempt was started with; `pending` counts reloads that wait for the setup
lock; `flow` holds what each running flow decided on (`seen`) and aims for
(`target`). `IdentityRead` to `PlatformsReady` are the awaits of
`async_setup_entry`; `ReloadBegins`, `UnloadDone`, `RetryTimer`, `Remove` are Home
Assistant under the setup lock. `MoveEntry` is `async_move_entry` whole: new data,
new title, and `ReloadsAsked`, which is the listener's reload or the scheduled
one. Before a flow may call it `StillSeen` compares with what it saw. A host is an
address or a name that resolves to wherever the meter is.

`EntryHost` forgets lock, listener, timers and network. `saved` is `host`, `inUse`
is `runHost`, `gone` the phase `removed`; a reload is `owed` while a task is
`pending` or the entry unloads, and `asked` is for each flow what it saw and aims
for (`Decisions`). Every start of a setup is its `SetUp`, `FlowMoves` and
`PageFollows` are its `Move` or its `GiveUp`, and what runs between a setup's awaits
is a stutter: that the promise survives all of it is what `MovesAreKept` says.

### WagoModule and FieldWrites

`blocks`, `stored` and `inUse` are the module's registers, flash and working
settings. A writer goes through `read_settings`, `read_network`,
`write_settings`, `write_network`, `store`, `apply`; `Fails` ends any of them with
the request carried out or not. `lock` and `queue` are `asyncio.Lock`, which wakes
its waiters in order. `Reload` replaces the API object: the writers of the old
one become `stale`, since the connection is closed with the setup that opened it.
`FieldWrites` says what remains when locks and reads are forgotten; `WagoModule`
implements it with `asked <- changes`.

### ModulePages

A page is opened in two requests, `OpenPage` and `ShowPage`, between which others
write and the entry may be reloaded; it then keeps `current` (what it read), `settings` (what it submitted), `failed`
(`_write_failed`) and `seen` (the entry's host when the write began). Three fields
are history: `touched`, `opened` and `applied` say what the page ever changed and
what was true when it read. `WriteFails` leaves none, one or both blocks written,
the flash or not. `PageDone` is `_finished` and `_follow_module`: the entry is
moved if it still is what it was, otherwise reloaded in place.

### Poller and PolledEntities

`failedPolls` is `_failed_polls`, `failing` the coordinators whose
`last_update_success` is False, `shown` the value of the entities. `missed` is
history: the failed polls since the last good one, counted independently of the
code. A setup polls one coordinator after the other, and a failure of either
starts over with new objects. Before the first refreshes `IdentityRead` compares
serial and type of whatever answers, once; a refusal waits for a reload. A poll is
`Starts`, for a poller of `TwoRequests` `FirstAnswers`, then one of the endings: the
measurements come with the status words in a second request, the energy in one
(`async_update_energy`). `got` is the first answer, `Read` what a good poll makes of
its answers, and `held`, history, what the registers held since the poll began. `swapped`, history
too, says that another device came to the address after the identity was read.

`PolledEntities` forgets requests, identity and line. `values` is `shown` of a loaded
entry and the coordinators' `data` before, `misses` is `failedPolls`, `unavailable` is
`failing` and `window` is `held`. `GoodPoll` is its `Succeed`, a failed poll of either
kind its `Miss`, and whatever makes new pollers its `StartOver`; half a poll is none.

### ModuleSettings

`registers` is what the module holds, `current` what an open page read. `Accepts`
is `module_settings` check by check, and `Saves` writes the keys that changed.
An address is a number of `Bits` bits and a netmask is one as well, so `Prefixes`,
`Network` and `Edges` are arithmetic on powers of two, as in `ipaddress`; the
reference the checks are compared with, `Workable`, reads the same numbers bit by
bit. `Forms` are the forms made from the one shown by typing in at most `MaxChanged`
fields (`Entries`). `OthersWrite` is another page
or WAGO's tool.

### MutationRun

A case goes through `waiting`, `applying`, `applied`, `testing`, `reverting`,
`returning` to `done`: these are the places between two calls of `one` and
`run_case` where a thread can be overtaken or an exception can leave it. `broken`
holds for every tree whose damage is in it, `free` is `free_trees`, `taken` how far
`main` is in the results. `ApplyFails`, `RevertFails` and the three interrupts are
faults; `lost` is history and set where a file stays broken for good: a write that
failed, or an interrupt between the write and the `try` that undoes it. With one
job the same steps run in the repository, one case after the other.

### ModuleSearch

`at` and `wired` are the network: where each module is and which meter it is
fitted to. `entry` holds for each meter the phase, the host and the module
devices of its entry; `reached`, history, is the module its last setup reached;
`probed` is `PROBED_METERS`, with what `Remembered` makes of a meter that is no WAGO
879 (`Unsupported`); `flow` is keyed by the reply
that opened it, since Home Assistant drops a second flow with the same data.
`Dispatch` is `async_step_integration_discovery` up to its first await,
`ProbeAnswers` the answer of whichever meter is at the address by then, `Follow`
the check of the module and the move. A setup is a single step. It removes the module
devices the entry had before (`Outlived`) from every entry that shares them, as
`async_remove_device` does.

### EntityIds

`registry` has the id of each sensor and the id it had when it was removed
(`gone`), which `async_get_or_create` prefers to what is suggested. Sensors are
named by pairs: a meter's reading, or `"modbus"` and a reading for the YAML
block's. `named` are the sensors a platform has added, so that their
`original_name` is known; `adopted` is history. `live` are the block's sensors that
are served: a user may disable one, which leaves it registered but not active, so
that the adoption waits (`migration.py:108-111`). `Resolve` is `_resolve`, `Adopt` one
turn of the loop with its undo branch, `Rename` the whole of
`async_rename_generated_entity_ids`. These run without an await, so while
`adopting` is not `Idle` nothing else steps.

## 3. The runs

| Run | Instance and bounds | What it shows |
|---|---|---|
| `entry_safety` | 2 addresses, 1 name, 2 flows, 2 options, 2 events, fair | `MovesAreKept` (the refinement of `EntryHost`: no move lost, none made on an old decision), `NoAddressInTitle`, `IssueIsOfLastAttempt`, `ChangeReloadsOnce`, `HostNameKept`, `RemovedForGood`, and `Recovers`: the entry ends loaded from its own meter |
| `entry_intervals` | 1 event | *violated*: options saved during a setup are not used |
| `module_writes` | 3 writers, 1 field in each block, 4 events, fair | `OneWriter`, `ReportedIsStored`, `WritesEnd`, and `OnlyOwnFields`, the refinement of `FieldWrites` |
| `pages_safety` | 2 pages, opened in two reads, 2 addresses, 1 name, 2 timeouts, 3 events | `EntryFollowsModule`, `RetryHeals`, `FirstWriteKeepsOthers` |
| `pages_follow` | 1 page, 3 events | *violated*: after a failed write a new address leaves the entry behind |
| `pages_retry` | 1 page, 3 events | *violated*: a retry writes back what others changed |
| `settings_work` | addresses of 4 bits, two prefix lengths, all settings the module may hold, forms with up to 2 changed fields, 1 field changed by others | `SavedNetworkWorks`, `RefusedForAReason`, `ShownFormWritesNothing` |
| `poller_loaded` | 2 pollers, one of two requests and one of one, 4 readings (2 of the meter, 1 of another, 1 unsupported), 3 tolerated, at most 5 failures in a row, 3 events, fair | `WholePollsShown` (the refinement of `PolledEntities`), `UnavailableFromFourth`, `ForeignOnlyIfSwapped`, `OnlyGoodPollsChangeValues`, `ComesBack` |
| `search_settles` | 2 modules, 3 meters of which one is unsupported, 2 addresses, 2 busy flows, 3 events, fair | `OfferedOnce`, `EntriesFollow`, `AllOffered` |
| `mutation_run` | plans of up to 3 cases, 1 or 2 jobs, 2 faults, fair | `OneCasePerTree`, `ResultsProve`, `RepositoryAsFound`, `RunEnds` |
| `ids_safety` | 2 meters, 2 readings, 2 hosts, one device name, 4 events, fair | `AdoptedWhole`, `NoSensorLost`, `EveryMeterLoads` |
| `ids_adopted` | YAML sensors named like a host, 3 events | *violated*: the second setup renames adopted ids |

Each run also checks the module's type invariant where it is a passing one.

### Why the bounds are enough

`MaxEvents` bounds what comes from outside: users, faults, changes of the network.
What the code does by itself is never bounded, except for `MaxFlows` (replies in
work at once) and `MaxFailed` (failed polls in a row; past it a poll waits for the
line, which is why it lies two above the tolerated number). Two addresses allow
a move, a move back and a swap; two flows, pages or modules and three writers are
the least number for one to come between the steps of another, and for a waiter
behind a waiter. Each violated run needs no more events than it is given, and each
property is broken under its own bounds by a mistake in the code (the `mutants` of
`PROJECT.json`), so none holds because the case never happens. Where there is a
proof the bounds do not matter: every invariant and action property of
`entry_safety` has one, so its two events are there for `Recovers`, which needs one
to move the meter and one to fail or mislead what follows.

`settings_work` takes every pair of what the module holds and what the page read
that differs in at most one field. The checks look at the new settings and at the
set of changed fields only; every combination of settings is an initial state, so
a form of three changes (`MaxChanged = 3`) adds no settings and no set of changed fields that leads to
another check than two of them do: the network is checked as soon as one of its
fields changed. The proofs hold for any `MaxChanged`. Four bits are the least that give a network with a host besides
the gateway, edges, a host mask and a neighbour network.

`mutation_run`: three cases for two trees are one case that waits for a tree and
gets a used one. Two faults allow a failed write in one case and an interrupt, or
an interrupt of the wait that an interrupt began. Deadlock is not checked: with the events spent and
nothing running, these systems rest.

### Fairness

* `ConfigEntry`: weak fairness of the setup, the lock and each flow - coroutines
  run and every request has a timeout - and of the search hearing a module that is
  there, as it repeats every 15 minutes (`discovery.py:20`).
* `WagoModule`: weak fairness of each writer, for the same reason. Nothing is
  assumed of the module: a request may always fail.
* `Poller`: weak fairness of the timer and of the poll, which has its own timeout
  of 30 seconds (`coordinator.py:36`).
* `MutationRun`: weak fairness of `main` and of every case: threads are scheduled
  and a test run ends or is ended after 900 seconds (`mutate.py:72`). Faults are
  never fair.
* `EntityIds`: weak fairness of the setup of each meter, its retries included.
* `ModuleSearch`: strong fairness of hearing a module where it is. A module leaves
  one request in three unanswered without a pattern (`wago_879_api/discovery.py:23`),
  and a search may come while it is elsewhere or other flows are running; it is
  heard by one search or the other. Flows and setups are weakly fair.

### What the violated runs show

1. `entry_intervals`. The pollers get their intervals at `__init__.py:184-197`, the
   listener comes at 213 after several awaits; options saved in between reload
   nothing, against `config_flow.py:558` "the entry reloads on change".
2. `pages_follow`. After a failed write that was given up, the registers hold an
   address that is not in use; the next page takes it for the current one, applies
   it, and `_follow_module` does not move the entry, against `README.md:179`.
3. `pages_retry`. After a failed write every field is sent, so another tool's
   change is written back, against the comment at `config_flow.py:580`.
4. `ids_adopted`. The rename tells ids by their form. An adopted id with the form
   Home Assistant would generate from the host is renamed by the second setup,
   against `README.md:226` and `README.md:233`.

Three limits the models name without a violated run of their own.

* `Hidden` in `ModuleSearch`: an entry without a module device takes every reply from
  its address (`config_flow.py:253-255`), and while it does, the entry of the meter
  behind that address does not follow. `EntriesFollow` and `AllOffered` say so and do
  not cover the case.
* `lost` in `MutationRun`: with `--jobs 1` an interrupt between `apply_mutation` and
  the `try` (`mutate.py:294-295`), or a write that fails half-way, leaves the file
  broken, although `mutate.py:29` says "Every mutation is reverted afterwards,
  including on failure". What `RepositoryAsFound` does say of that case is that it is
  one mutation only, of a case that raised, and that the run ends with that error and
  reports no results.
* `SameNetwork` in `ModuleSettings`: `SavedNetworkWorks` holds for settings nobody
  changed while the page was open. Two pages, or a page and WAGO's tool, that each
  change one of netmask, address and gateway pass their checks and can leave a
  combination that neither of them would accept; no property covers it.

## 4. The proofs

TLAPS proves, for every value of the constants that the named assumptions allow:

| Module | Theorems | Inductive invariant, and why it is needed |
|---|---|---|
| `ConfigEntryProofs` | `TypeCorrect`, `HostSettles`, `TitleHidesAddress`, `IssueIsCurrent`, `OneReloadPerChange`, `HostNamesStay`, `RemovedStays`, `Refinement` | `TypeOK`, `SettledHost`, `IssueIsOfLastAttempt` and `TitleIsCurrentHost`: an address in the title is the present host, and only before the first attempt. Without it a move could leave an address that no later setup compares with. `SettledHost`, an entry for which no reload waits was set up with the host it is saved with, is `HostSettles`. `Refinement` takes one lemma per group of actions, each naming the abstract step |
| `WagoModuleProofs` | `TypeCorrect`, `MutualExclusion`, `ReportsAreTrue`, `Refinement`, `NobodyWaitsInVain` | `HolderInv`: who can still reach the module holds the lock. `SnapshotInv`: what a writer holds of the blocks is what they hold but for its own changes. Then writing whole blocks is the same as writing the changed fields, which is the refinement. `LineInv`: the queue has each waiter of the present lock once and nobody else, and ahead of them a write that is under way |
| `ModulePagesProofs` | `TypeCorrect`, `EntryFollows`, `RetriesHeal`, `FirstWritesKeepOthers` | `Carries`: a page knows every setting it submits other than it read it, and one that read the settings in use read the address its entry was reached at |
| `PollerProofs` | `TypeCorrect`, `Tolerance`, `ValuesKept` (`AvailableHasValue`), `OnlyGoodPolls`, `OwnMeterShown`, `Refinement` | the history `missed` equals the counter; in a setup nothing has failed and only a poller that rests has values; loaded, the entities show the coordinators' values, and a coordinator fails exactly past the tolerated count. A first answer is among what the registers held since the poll began, the only answer of a poll of one request is what they hold, and while nothing was swapped that is the own meter's. For `Refinement`, nothing is held of a poll that ended, and a setup has no values to tolerate a failure with |
| `ModuleSearchProofs` | `TypeCorrect`, `OffersAreUnique` | `NamedOnce`: a flow that names a meter is the only one that does. Unique offers alone do not carry on: a check that names a meter keeps the next flow from offering it |
| `ModuleSettingsProofs` | `TypeCorrect`, `CheckedSettingsWork`, `SavedSettingsWork`, `RefusalsHaveAReason`, `UntouchedFormIsHarmless` | `TypeOK` is inductive; what is shown, typed and read back is the setting it came from, for addresses of any length; the network check is exactly `Workable`, see below |
| `MutationRunProofs` | `TypeCorrect`, `TreesExclusive`, `WorkersFindTrees`, `ReportsProve`, `CopiesStay`, `RepositoryKept` | a tree is in the queue or with one case; damage in a tree is that of the case that holds it, of one that raised, or `lost`; what `main` took was told by a case that did not raise; no case is at work once the pool closed. `InTurn`, for `RepositoryKept`: with one job a case begins only when all before it raised nothing, so at most one can leave damage. `Conserved` and `Staffed`, see below |
| `EntityIdsProofs` | `TypeCorrect`, `AdoptionIsWhole`, `NoSensorIsLost` | `IdsApart`, which the registry keeps: no two sensors have one id. `Sound`: in an adoption under way each sensor still to do is as `_resolve` saw it, each done has its id and was not added by a platform. It follows that the undo branch is never taken, which the comment at `migration.py:169` says |

Each follows one argument: `Init` gives `IInv`, a lemma for each group of actions
shows that a step keeps it, `SpecIInv` combines them, and a property follows from
`IInv` or, for an action property, from `IInv` and one step. The numbered ids of
`EntityIds` need a fact of their own (`NumberedIsFree`): there are more numbers than
sensors, so the search for a free id ends.

Two proofs count. In `MutationRun` every prepared tree is in the queue or with a
case (`Conserved`) and there are never more cases under way than workers, of which
there is one to a tree (`Staffed`); so a case that waits has left a tree for itself
(`WorkersFindTrees`), which is the safety half of `RunEnds` and the reason `get()`
needs no timeout. Both are facts on the cardinality of sets that each step changes
by one element.

In `ModuleSettings` the code compares numbers, `& mask` and `| hostmask` of
`ipaddress`, and the reference `Workable` asks of each bit where it stands. To show
them the same for addresses of any length takes powers of two without recursion:
the number of subsets of `1..n`, hence `PowerDoubles`. From it come the bits of a
sum (`OneBitMore`), of a mask (`MaskBits`), of the network and of its edges
(`NetworkBits`, `HostBits`), and that two addresses with equal high bits have equal
network numbers (`HighEqual`). The induction is over sets of naturals, a least
counterexample, as the library's rule takes an operator. `CheckedSettingsWork` is
the equivalence; that an accepted form works (`SavedSettingsWork`) and that a
refused one has a reason in what the user changed (`RefusalsHaveAReason`) follow.

Assumptions are those of the modules: disjoint sets of constants, bounds in `Nat`,
finitely many sensors. No property of the network or of Home Assistant is assumed
beyond what the actions say.

Every invariant, action property and refinement that a passing run checks is a
theorem. Only model-checked are the seven properties that say something happens
(`Recovers`, `WritesEnd`, `ComesBack`, `EntriesFollow`, `AllOffered`, `EveryMeterLoads`,
`RunEnds`):
liveness under fairness and `ENABLED` are out of the prover's reach. Of two of them
the half that is safety is proved: `NobodyWaitsInVain` (`NobodyStranded`) of
`WritesEnd`, nobody waits for a lock but behind a write under way, and
`WorkersFindTrees` (`TreeForEveryWorker`) of `RunEnds`. No run lists these two, nor
`CopiesOutliveCases`, nor `SettledHost` and `AvailableHasValue`, which the two
refinements `MovesAreKept` and `WholePollsShown` imply; all are proved.

## 5. What the models take for granted

* Home Assistant: one setup, reload or removal of an entry at a time (the setup
  lock); one poll of a coordinator at a time; a new entry ends the flows of its
  unique id; a second discovery flow with the same data is dropped; the registry
  restores a removed entity's id if it is free and numbers one that is taken.
* The connection to a module is closed with the setup that opened it, when no
  other entry shares it. A shared connection could let the writes of an old and a
  new API object interleave; the hazard is listed at `wago_879_api/device.py:218`.
* A host name resolves to wherever the module is.
* `ModuleSearch` gives every entry an address and every meter the default port and
  unit. `EntriesFollow` and `AllOffered` speak of modules that were not fitted to
  another meter behind Home Assistant's back (`Steady`): the answer of a meter is
  kept until a restart, as `README.md:159` says, and what is kept may be false.
  A module that answers as another device at setup, so that `_async_module` removes
  the entry's module device without a new one, is left out: here every address
  that serves a meter has an 879-9000.
* `Poller`: a reading of another meter can be told from the own meter's, which is
  what `Others` and `Unfit` stand for; the values of one request are read at once.
* `ModuleSettings`: a write goes through in one step; how one fails is the matter
  of `WagoModule` and `ModulePages`. One server stands for the four and one switch
  for the two; a host name fits or does not.
* `MutationRun`: the executor starts cases in plan order and cancels the ones not
  started when a result raises. Which tests a selector names is left out.
* `EntityIds` leaves out the user's settings that travel with an adopted id, and
  sensors that a meter does not fill. Every state belongs to a registered sensor, so
  that an id no sensor has is free.

## 6. Not modelled, and why

Register tables, entity descriptions, constants and translations are declarations.
Diagnostics and logging are about texts. `async_migrate_entry` is one synchronous
rewrite before the first setup; `resolve_phcc.py` one look-up in sequence. Of the
UDP search the bytes of a datagram and the three attempts are left out: they end
before a flow opens, and a reply is heard in the model as old as it likes. Of the
reads the decoding and the status codes are left out. Static sensors and device
cards hold no state after a setup; the range of an interval and the choices of the
options menu are the form's own. The tests were read for intent.

Hazards no property covers are listed in `PROJECT.json` with the reason: a shared
connection (`wago_879_api/device.py:218`) belongs to the library; for a meter
remembered under the wrong module (`config_flow.py:429`), an entry that takes the
replies of another meter's module (`config_flow.py:254`), network settings changed by
two at once (`module_settings.py:118`) and ids built from an address the entry has
left (`entity_id_rename.py:58`) nothing in the repository says what should happen.

## 7. How it was built, and what could follow

In this order: `ConfigEntry` with its proofs; `WagoModule` and `FieldWrites` with
the refinement proved; `ModulePages`, `Poller`, `ModuleSearch`, `EntityIds`; then
identity, swapped devices and the two requests in `Poller`, `ModuleSettings`,
`MutationRun` and the proofs of `ModuleSearch`, `ModuleSettings` and `MutationRun`;
then `EntryHost` and `PolledEntities` with their refinements, and the proofs that
count and calculate.

What could follow: a run on `EntityIds` for an entry moved before its first setup;
an abstract specification of what the search offers.
