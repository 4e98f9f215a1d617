# TLA+ models of indicator-network

This directory holds TLA+ specifications of the parts of indicator-network
whose behaviour a model checker can explore: the thread hand-off that every
platform callback goes through, the menu merging that builds the exported
menus, the menu-test harness's result bookkeeping, the startup wiring of `Service()`,
reference counting in the Variant codecs and the SIM unlock flow. Every module is
checked by TLC through the runs listed in `PROJECT.json`.

## 1. Inventory of the system

The repository snapshot under `src/` is partial. It holds a few
implementation files, several headers, the documentation example and the
integration and unit tests. The parts, the state each keeps, and how they
interact:

| Component | Source | State | Operations | Interacts with |
|---|---|---|---|---|
| **GMainLoopDispatch** | `src/src/menumodel-cpp/gio-helpers/util.cpp` | static `_lock` (mutex), static `_funcs` (list of pending functions), the GLib default main context (owner and recursive acquire count), pending idle sources | constructor `GMainLoopDispatch(func)`; `dispatch_cb` run by the main loop | Called from bus worker threads (dbus-cpp / Qt D-Bus callbacks) and from the main thread. Runs the callbacks that update every other component. |
| **MenuMerger** | `src/network/menumodel-cpp/menu-merger.h` | `m_gmenu` (merged menu), `m_menus` (appended sections), `m_startPositions`, `m_gmodelToMenu` | `append(menu)`, `itemsChanged` (items-changed callback) | Section menus (quick access, Wi-Fi, cellular) emit items-changed. The merged menu is exported by MenuExporter. |
| **Service / Factory wiring** | `src/network/service.h`, `src/src/indicator/factory.cpp` | singletons: session bus, NetworkManager/ofono manager, ModemManager | `Service()`; the Factory's `new*()` methods | Creates RootState, the sections and the menus. Appends sections in the order quick access, Wi-Fi, cellular. Exports ten menus and one merged action group. |
| **Manager::createInstance** | `src/src/connectivity-cpp/src/manager.cpp` | none | construct the platform manager; `exit(0)` on exception | Startup only. |
| **SimUnlockDialog** (SimUnlockController in the spec) | header `src/src/indicator/sim-unlock-dialog.h`; behaviour in `spec.md` §4.5 and the `UnlockSIM_*` integration tests | state ∈ {ready, unlocking, changingPin}, current modem, notification id, staged PUK and new PIN, error and popup texts | `unlock(modem)`, `cancel()`, PIN/PUK entry, modem property signals | Observes the modem (ofono SimManager: PinRequired, Retries). Calls EnterPin and ResetPin (fire-and-forget). Drives one notification through the notification daemon. |
| **ModemSet / AccessPointRegistry / RadioState / RootStateAggregator** | implementation not in `src/`; behaviour in `spec.md` §4.1–4.4 and the integration tests (`SimStates_*`, `FlightMode_*`, `GroupedWiFiAccessPoints`, `WifiStates_*`, `CellData*`) | modems, access points and groups, rfkill block flags, flight mode, connectivity status | add/remove/update of modems and access points, flight-mode and Wi-Fi toggles | Fan-in of the platform signals into one view model. |
| **connectivity-qt API** | `src/src/connectivity-api/.../connectivity.h`, `modems-list-model-parameters.h` | declared properties (flightMode, online, status, limitedBandwith, wifiEnabled, hotspot…) | declared setters and signals | The client library over the indicator's private bus interface. Only declarations are present. |
| **Variant / Codec** | `src/network/gio-helpers/variant.h` | a ref-counted GVariant | encode/decode of bool, string, byte, int32, vardict, av | Used by actions and menu attributes. |
| **MatchResult / compare_vector** | `src/tests/integration/indicator/menuharness/MatchResult.cpp` | hard-failure flag, success flag, map from location to messages | `hardFailure`, `failure`, `merge`, copy/move, `concat_failures` | The integration tests' menu matcher combines child results into the parent's. |
| secret-agent `DBusTypes`, the docs example, `MatchUtils.h` | as named | none | type registration, printing | Not stateful. |

**What is hard.** There are four sources of difficulty:

- *Threads.* Platform callbacks arrive on bus worker threads. GMainLoopDispatch
  must hand them to the main loop in order, without losing one, and without
  running two at once. It uses a mutex, a try-acquire of the GLib context, and
  an idle source that is added only when the list is empty. The mutex is
  dropped around every call, and calls can be nested.
- *Incremental bookkeeping.* MenuMerger keeps the start offset of every
  section and patches the merged menu on each change. An off-by-one or a
  missed shift shows only after a particular sequence of changes to several
  sections.
- *Asynchronous protocols* (SIM unlock). EnterPin and ResetPin are
  fire-and-forget. Their outcome arrives later as property signals
  (Retries, PinRequired), interleaved with user input and cancellation.
- *Many sources, one view* (aggregation). Modems, access points and rfkill
  change independently, and the view must stay consistent across them.

**What makes each component correct.**

- GMainLoopDispatch:
  - functions start in the order they were handed over, each exactly once;
  - every handed-over function eventually runs (no lost wake-up);
  - no two functions run at the same time;
  - once the main loop runs, functions run on the main-loop thread.
- MenuMerger: the merged menu is always the concatenation of the appended
  sections, whatever sequence of changes occurs.
- Service startup: every merged menu shows its sections' items, whatever
  platform signals arrive while `Service()` builds the menus.
- MatchResult: success is false exactly when something failed, and no
  reported message is lost through a merge. compare_vector is a strict
  lexicographic order.
- Variant: each decoded Variant owns exactly one reference to its value,
  whatever the order in which the results and the container are released.
- SimUnlockDialog:
  - at most one notification is open, and only while a session is active;
  - a session never outlives the SIM's lock;
  - there is no automatic re-prompt after the PUK is exhausted.

## 2. Modules and how they correspond to the code

### GMainLoopDispatch.tla (with SerialExecutor.tla, MCGMainLoopDispatch.tla)

Threads are `Main` plus a set of `Workers`. Each thread has a stack of
frames (`frames`), so that a function being run can itself construct a
GMainLoopDispatch. The variables correspond to the code as follows:

- `mtx` is `_lock`.
- `funcs` is `_funcs`.
- `ctxOwner` and `ctxDepth` are the default context's owner and its
  recursive acquire count.
- `idle` counts the `dispatch_cb` idle sources that are pending.
- `order`, `executed` and `running` are history variables kept for the
  properties.

Actions follow the constructor line by line:

- `Construct` calls the constructor.
- `Lock` takes `_lock`.
- The constructor's three branches are `AcquireRunNow`, `AcquireEnqueue` and
  `NotAcquiredEnqueue`.
- `CallNow` runs `func()`, and `Release` is `g_main_context_release`.

For the main loop:

- `RunLoop` is `g_main_loop_run` acquiring the context. That call is in the
  service's `main`, which is not under `src/`, so it is modelled from GLib's
  documented behaviour.
- `DispatchIdle` starts `dispatch_cb`.
- `DispatchLock` is the range-for test under the lock, ending in `clear()`.
- `DispatchCall` drops the lock and calls one function.

`Return` ends a function body. `Quiescent` is the loop waiting with nothing
to do, which keeps deadlock checking meaningful.

`SerialExecutor.tla` is the abstract specification: a FIFO queue where
`Submit` appends and `Run` starts the head, with weak fairness on `Run`.
`GMainLoopDispatch` instantiates it with the refinement mapping
`queue <- order minus executed` and `ran <- executed`.

### MenuMerger.tla (MCMenuMerger.tla)

- `section[s]` is each section's GMenu.
- `menus`, `start` and `gmenu` are `m_menus`, `m_startPositions` and
  `m_gmenu`.
- `AppendMenu` is `append()`. `append()` does not reject a section it
  already holds. `Service()` never appends one twice, and `Next` only
  appends sections not yet appended.
- `SectionChanged` is a change to one section's GMenu followed, in the same
  step, by `items_changed_cb`. GMenu emits the signal synchronously.
- `ItemsChanged`, `MergeItems` and `ShiftLater` are the body of
  `itemsChanged`: the remove loop, the reverse insert loop, and the m_menus
  loop that shifts later sections.
- `InsertItem` and `RemoveItem` follow `g_menu_insert_item` (appends when the
  position is past the end) and `g_menu_remove` (no-op when the index is out
  of range).

### CompareVector.tla (MCCompareVector.tla)

`CompareVector` is `compare_vector::operator()` written as a recursive
operator. It is checked against the reference `LexLess` on every pair of
vectors up to length 3 over {0,1,2}. Each pair is one initial state.

### VariantOwnership.tla (MCVariantOwnership.tla)

Models reference counting in the two container codecs of
`src/network/gio-helpers/variant.h`. The decoded container has one of two
origins:

- From the bus (`origin = "bus"`), the input Variant owns the container and
  the container owns its children. Keys may repeat.
- Encoded here (`origin = "encoded"`), the children are `TypedVariant`s of
  scalars (`BuiltValues`). `EncodeAdd` is one iteration of `encode_argument`'s
  loop, where the builder takes a reference to each child. `EncodeEnd` is
  `g_variant_builder_end` and `TypedVariant`'s sink. A `std::map` has
  distinct keys.

Its state:

- `rc` is the GLib reference count of the container and its children.
- `srcVals` says whether the encoded input map or vector is alive.
- `dict` and `held` are the decoded `std::map` and `std::vector`.
- `val` and `idx` are the iterator's last returned value and its position.
  The encoder's loop also uses `idx`.
- `srcHeld` says whether the input Variant is still alive.

Its actions:

- `IterLoop` is one `g_variant_iter_loop` call: unref the previous value,
  then return a new reference to the next child.
- `Body` is the loop body, `VardictBody` or `AvBody`.
- `DropDecoded`, `DropSource` and `DropValues` release the results, the
  container and the encoded inputs, in any order.

`make_gvariant_ptr` is not part of this tree. Its contract is the constant
`MakePtrContract`. `RefsAccounted` compares every count with the references
its owners will release.

### ServiceStartup.tla (MCServiceStartup.tla)

This module composes `Service()` (`src/network/service.h` 91-154) with one
MenuMerger per indicator menu. It instantiates `MenuMerger.tla` once per
menu, through `MM(m) == INSTANCE MenuMerger WITH ...`, and uses that
instance's `MergeItems` and `ShiftLater`. Its state:

- `pc`, `cur` and `mi` are the main thread's position in `Service()` and
  `main()`: the section being added and the menu it is being added to.
- `section[s]` holds the items of each section's GMenu.
- `menus`, `start` and `gmenu` are each merger's `m_menus`,
  `m_startPositions` and `m_gmenu`.
- `connected` holds the (menu, section) pairs whose `items_changed_cb` is
  connected.
- `queue` holds the section callbacks waiting for `dispatch_cb`.

Its actions:

- `CreateInstance` is `Manager::createInstance`. It either builds the
  manager or takes the `exit(0)` branch.
- `CreateState` and `CreateSection` build the objects. A section starts with
  any items the platform gives it.
- `AppendStart`, `AppendItems` and `AppendConnect` are the three steps of
  `MenuMerger::append`, in the code's order (92-103, 106, 108-112).
- `Publish` and `RunLoop` are the exporters and `g_main_loop_run`.
- `Signal(s)` is a platform signal on a worker thread. Its callback goes
  through GMainLoopDispatch. Before the loop runs, `util.cpp` runs the
  callback at once on the worker, unless `OffLoopDispatch` is FALSE, in which
  case it is always queued.
- `Dispatch` runs the oldest queued callback on the loop.

A section callback rebuilds its items from the platform objects when it
runs. That is why the queue holds sections rather than diffs. The main
thread's steps are grouped as `MainStep`. An `ASSUME`
states that `Service()` creates each section once and adds it to each menu
once.

### SimUnlock.tla (MCSimUnlock.tla)

The SIM unlock dialog and one ofono SIM. Only the header of
`SimUnlockDialog` is in the tree. `DialogStates` is its `State` enum. The
rest follows `spec.md` §4.5, §5 and §6 and the `UnlockSIM_*` tests.

The SIM's state:

- `lock` is ofono's `PinRequired` ("none", "pin" or "puk").
- `retries` is ofono's `Retries` dict, with PIN and PUK counters.
- `calls` holds the EnterPin and ResetPin calls not yet answered, in order.

`Answer` is the modem answering the oldest call. A wrong PIN costs an
attempt, and the last one turns the lock into "puk". A right PUK unlocks
and resets both counters. The modem then appends its PropertyChanged
signals to `inbox`: Retries, then PinRequired. spec.md §6 says the results
of EnterPin and ResetPin are observed through these signals, not through
return values, so the model has no call replies.

The dialog's state:

- `state` is the header's enum.
- `prompt` is the code being asked for (PIN, PUK, new PIN or confirmation).
- `pukOk` holds the staged PUK.
- `notif` is the notification id, and `error` the error text shown.
- `known` is the Modem object's cached properties. It changes only when a
  signal is handled.

The user's actions are `Unlock`, `Cancel`, `EnterPin`, `EnterPuk`,
`EnterNewPin` and `ConfirmPin`. None of them is fair. `Handle` is the event
loop handling the oldest signal. It updates the cached property and then
lets the dialog react. `HandleRequired` closes the dialog on unlock and
moves a PIN prompt to the PUK. `HandleRetries` shows "Sorry, incorrect PIN"
when the PIN counter drops on the PIN prompt. When the PUK counter drops, it
shows "Sorry, incorrect PUK" and asks for the PUK again (§4.5). `session`
counts the dialogs opened, for the bound.

### MatchResult.tla

- `hard`, `success` and `failures` are the members of `Priv`.
- `HardFailure`, `Failure`, `Merge` and `Assign` are `hardFailure()`,
  `failure()`, `merge()` and the copy assignment.
- `reported` is a history of every (location, message) handed to a result,
  directly or through a merged one.
- The failure map is keyed by `compare_vector`: the module instances
  `CompareVector` (`CV == INSTANCE CompareVector WITH ...`) and looks keys up
  by its equivalence (`Equivalent`). `FindOrInsert` is `find` followed by
  `insert`, and `InsertAll` is the insert loop of `merge()`. A location is a
  vector of item indices, given by MCMatchResult.tla.
- Under a comparator whose equivalence is not transitive, two entries of the
  merged-in map could both lack an equivalent key and both be inserted. The
  real comparator's equivalence is equality (`compare_vector` run), so this
  case does not arise.

## 3. Runs

| Run | Module / cfg | Expect | What it shows |
|---|---|---|---|
| `dispatch` | MCGMainLoopDispatch / MCGMainLoopDispatch.cfg | pass | See below. |
| `menu_merger` | MCMenuMerger / MCMenuMerger.cfg | pass | See below. |
| `compare_vector` | MCCompareVector / MCCompareVector.cfg | pass | `compare_vector` equals strict lexicographic order on all 1600 pairs, and its equivalence is equality. |
| `match_result` | MCMatchResult / MCMatchResult.cfg | pass | The success flag stays exact through any mix of `failure`, `hardFailure`, `merge` and copies over two results (`SuccessMeansClean`). The failure map is keyed through `compare_vector`. 37,124 distinct states. |
| `variant_vardict` | MCVariantOwnership / MCVariantOwnership.cfg | pass | With `make_gvariant_ptr` adopting a reference, a vardict of three children (from the bus with any repeated keys, or encoded from a `std::map`) keeps every reference count exact through encoding, decoding and release in any order. |
| `variant_av` | MCVariantOwnership / MCVariantOwnershipAv.cfg | violation | See below. |
| `match_result_lost` | MCMatchResult / MCMatchResultLost.cfg | violation | See below. |
| `service_startup` | MCServiceStartup / MCServiceStartup.cfg | violation | See below. |
| `sim_unlock` | MCSimUnlock / MCSimUnlock.cfg | pass | Once everything in flight is handled, an open dialog asks for exactly the code the SIM needs, or is closed if the SIM is unlocked (`SessionFollowsLock`). A SIM that becomes unlocked always ends with the dialog closed (`UnlockClosesDialog`). 3,313 distinct states. |

**`dispatch`.** With two workers and the main thread, each dispatching up to
twice, nested calls included, three things hold:

- functions never run concurrently (`MutualExclusion`);
- once `g_main_loop_run` holds the context, only the main thread runs
  functions (`RunsOnLoopThreadOnceLooping`). A worker that began a function
  before the loop holds the context until the function returns, so the loop
  cannot start under it;
- the dispatcher refines a FIFO serial executor: order, exactly-once, and
  eventual execution (`ExecutorSpec`);
- the context owner and depth stay consistent (`TypeOK`).

**`menu_merger`.** The merged menu equals the concatenation of the three
sections after any interleaving of appends and changes. The changes include
multi-item insertions, removals, and edits made before a section is
appended.

**`variant_av`.** Under the same contract, the `av` decoder wraps a value
that `g_variant_iter_loop` releases on its next call (`NoUseAfterFree`).
Under the other contract (always `ref_sink`), `RefsAccounted` fails for the
vardict decoder instead: it leaks one reference per entry. The two decoders
cannot both be right.

**`match_result_lost`.** `merge()` drops the other result's messages at a
location the target already has (`NoMessageLost`).

**`service_startup`.** `util.cpp` runs a callback on the worker thread when
no thread owns the context, and that is the case during all of `Service()`.
spec.md §5 and the SimUnlockDialog header say callbacks run on the loop
thread.
A section change that runs between `append()`'s `itemsChanged` (line 106)
and its `g_signal_connect` (line 109) updates the section but not the
merged menu (`MergedMenusConsistent`, 7 states). Later changes to that
section are applied by offset (menu-merger.h 41-80) on top of the stale
items, so the merged menu does not recover when the section changes
again.

Every property of a passing run has a mutant in `PROJECT.json`. The mutant
replaces one mapped definition with a plausible bug, and TLC must then report
the property violated. The mutants:

- the acquire result ignored;
- the `_funcs.empty()` test dropped;
- a non-recursive context release;
- the insert loop running forwards;
- the shift applied with the wrong sign;
- the end-of-vector test of `compare_vector` inverted;
- `merge` assigning the success flag instead of and-ing it;
- the vardict decoder without its `g_variant_ref`;
- `cancel()` leaving the notification open;
- the dialog closing on unlock only from `unlocking`, not `changingPin`;
- the dialog not closing on unlock while an error is shown.

The non-recursive context release also breaks `RunsOnLoopThreadOnceLooping`.
A nested dispatch on the loop thread then gives the context away, and a
worker runs its function while the loop is running.

Dropping `g_idle_add` violates the liveness half of `ExecutorSpec`. It was
tried by hand and is not among the listed mutants.

### Bounds and why they are enough

- **Dispatch.** Two workers, because a second worker is needed to find
  `_funcs` non-empty while the first is queued. Two calls per thread, which is
  enough for the main thread to dispatch from inside a dispatched function
  (nested, recursive acquire), for a worker to dispatch both before and after
  the loop starts, and for the list to grow while `dispatch_cb` has the lock
  dropped. The run reaches 49,424 distinct states.
- **MenuMerger.** Three sections (as in the phone and desktop menus), two
  item labels and two items per section. A change can then insert two items
  at once, which tells the insertion order apart, and a change in the first
  section shifts two later ones.
- **ServiceStartup.** Three sections and two menus, as in `Service()`. There
  are two item labels, up to two items per section, and two platform signals.
  A signal can then land on each of the eight steps of an append. A signal
  can also change a section that is already in one menu while it is being
  added to the other.
- **VariantOwnership.** Three children and three keys. These allow every
  pattern of repeated keys from the bus (all equal, two equal, all
  distinct) and a fully distinct encoded map. Each release can happen before
  or after each of the others. The passing run reaches 453 distinct states.
- **SimUnlock.** The bounds are three PIN attempts (as in the tests), one
  PUK attempt, four calls and two dialogs. Four calls are enough to reach
  PUK exhaustion (three wrong PINs and one wrong PUK). They also allow a
  wrong and a right code to be in flight together. Two dialogs allow a
  cancel and a reopen while a call's signals are still to come. The run
  reaches 3,313 distinct states.
- **MatchResult.** Two results, two messages and two messages per location
  are enough for a merge to collide on a location. The two locations are a
  vector and its proper prefix (`<<0>>`, `<<0, 1>>`), the case where
  `compare_vector` decides on length. A third location made the state space
  3.5 million states. Locations that differ in an index are covered by
  `compare_vector` on its own.

### Fairness

- Taking `_lock`, and `g_main_loop_run` taking the context, are only
  intermittently enabled, so they are strongly fair. Both are blocking waits
  on a mutex or a condition that the holder always releases.
- Every other step of a started call is weakly fair: a thread that has begun
  a call keeps running it.
- Dispatching a pending idle source is weakly fair. GLib dispatches ready
  sources on every iteration.
- In SimUnlock, the modem answering a call and the loop handling an event
  are weakly fair. Ofono answers every D-Bus call with its property
  signals. The loop dispatches every queued event. The user's actions have
  no fairness.
- ServiceStartup has no fairness. Its one run checks an invariant.
- Constructing a dispatch has no fairness, because no caller is obliged to
  dispatch.

## 4. What is not modelled, and why

- **Factory** (`src/src/indicator/factory.cpp`). Each `new*()` method
  obtains its singletons through an `if (!m_x)` test and builds one object.
  There is no interleaving, and no state beyond the three pointers. A model
  could only restate that test. `newMenuBuilder` hands the MenuBuilder a
  reference to the Factory, so a MenuBuilder that outlives the Factory
  dangles. MenuBuilder and the Factory's owner are not in the tree.
- **Startup failure.** `createInstance` ends the process with `exit(0)`.
  ServiceStartup models that as the end of the process. The success status
  it reports matters only to the process supervisor, which is not in the
  tree.
- **SIM unlock texts and call replies.** The attempts-left text, the
  last-attempt popup and the notification bodies are not modelled. Call
  replies and D-Bus timeouts are not modelled either. spec.md §6 observes
  call outcomes only through property signals.
- **Variant/Codec scalars.** The scalar codecs are single GLib conversions
  behind asserts. Only the container decoders' reference ownership is
  modelled.
- **connectivity-qt, DBusTypes, the docs example.** These are declarations,
  type registration and printing.
- **MenuMerger lifetime and double append.** The items-changed handler is
  never disconnected (`@todo disconnect`), so a MenuMerger destroyed before
  its sections would leave a dangling callback. `append()` of a section it
  already holds would connect the handler twice. `Service()` does neither,
  so the models do not explore them.
- **MatchResult move.** The move operations leave the source with a null
  `Priv`, and any later use of the source crashes. The matchers that move
  results are not in the tree, so no use of a moved-from result can be
  taken from the source.
- **MatchResult formatting.** `concat_failures` formatting is left out.
- **ModemSet, RadioState, AccessPointRegistry, RootState.** Their
  implementations are not in this tree. Only spec.md and the integration
  tests describe them, so any model of them is modelled from the spec. They
  are planned in section 5, as compositions with the modules above.

## 5. Plan for the following sittings

In order of importance:

1. **ModemSet + signal bars.** A pure operator for the strength-to-bars
   thresholds (§4.1), checked against the table; SIM slot labels by discovery
   order; status precedence. Modelled from the `SimStates_*` tests.
2. **RadioState.** Flight mode ↔ URfkill block-all, both ways, and the Wi-Fi
   toggle correcting itself on the next signal (`FlightMode_*` tests). One
   liveness property: shown state converges to the observed rfkill state.
3. **AccessPointRegistry.** Grouping by (ssid, secured, adhoc), group
   strength as the maximum of its members, ordering
   (`GroupedWiFiAccessPoints`, `WifiStates_*`, test-access-point-item).
4. **RootState.** A composition that instances ModemSet, RadioState and
   AccessPointRegistry, feeding their updates through GMainLoopDispatch, to
   check that no torn view model is exported.
