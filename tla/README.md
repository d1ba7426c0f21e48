# Elatura in TLA+

Elatura keeps long-lived web applications (a chat, a document) usable through
small, bounded views: *application lanes* with a lifecycle, browser extensions
that observe, trim or discard a page, a *companion* that serves bounded pages of
a conversation, adapters that turn a conversation into a smaller one, and an
Android listener that turns notifications into content-free hints.  Almost every
component is a volatile owner of bounded state whose inputs come late, twice or
out of order.  This directory models those owners, checks them with TLC on small
instances, and proves their safety for every size with TLAPS.

Paths below are relative to the repository root; `core/` is
`packages/core/src/`, `chatgpt/` is `packages/adapter-chatgpt/src/`,
`chromium/` is `extension/chromium/`, `firefox/` is `extension/firefox/src/`,
`web/` is `packages/companion-web/src/`, and `android/` is the package directory
of the Android application.

## 1. Inventory

### Components that keep state

| Component | State | Operations | Interacts with |
|---|---|---|---|
| Lane runtime (`core/application-lane-runtime.ts`) | per lane: descriptor, last event, pending ids, ring and set of recent event ids; a global map of pending requests | upsertDescriptor, admitEvent, beginRequest, acceptResponse, cancelRequest, releaseLane, clear | transports call it with parsed messages |
| Interaction ledger (`core/application-lane-interaction.ts`) | lease per lane, highest generation per lane | acquire, humanActivity, inspect, revoke, resetSession | callers bring the time |
| Chromium binding runtime (`chromium/src/binding-runtime.ts`) | generation and binding per lane, lane per tab | bind, rebindProjection, observeDescriptor, planCurrent, clear | shared with the effect runtime |
| Chromium effect runtime (`chromium/src/managed-effect-runtime.ts`) | pending effects by request and by lane, claimed references | begin, acceptReceipt, cancel, clear | owns no tab: calls the binding runtime, receives receipts of the static host |
| Chromium static host (`chromium/static/background.js`) | none between commands; each command reads a tab, awaits the browser, reads again | list, discard, keep-warm, wake, set-protection, apply-effect | popup messages, `chrome.tabs` |
| Synthetic companion (`core/companion-runtime.ts`) | resident records, conversation order, generations, epoch, requests in flight, accepted adapters | dispatch of ten operations, updateAcceptedAdapters, revoke, expiry | the caller's `beforeCommit` hook suspends a dispatch |
| Companion web (`web/controller.ts`, `core/companion-client.ts`, `web/render-sink.ts`) | lane owners, request ordinals; pending book and snapshot; mounted parts | dispatch, cancelPending, settlement, the second half of close() | transport promises settle in any order |
| Loopback exchange (`web/http-companion-transport.ts`, `web/browser-request-ledger.ts`, `scripts/run-synthetic-companion-loopback.mjs`) | requests under way, server, bounded log, byte cache, counters | dispatch, abort, read, refuse, answer, record, reset | page and server over connections that break |
| Firefox background (`firefox/background.ts`) | observation run, promise queue, browser storage | start-run, clear-run, page metrics, request streams, start-up load | web-request callbacks run between queued operations |
| Lane-activity sentinel (`firefox/popup.ts`, `chatgpt-lane-activity-*.ts`) | bindings in the popup, private reference in the content script | discover, bind, sample, export, route | background routes messages to tabs |
| Slim mode (`firefox/slim-content-controller.ts` and its parts) | mode, window, drift state, suppressed and removed turns, session configuration | set mode, reveal, apply, observe mutations, drift, grace, stock, reload | one awaited authorization |
| Live authorization (`firefox/live-authorization.ts`, `transform-*.ts`) | safety and opt-in generations, volatile grants | record, revoke, emergencyDisable, evaluate | would be asked before a live transformation |
| Android companion (`android/*.kt`) | shared preferences (hint ring, counters, flags), service, executor | append, recordError, recordDropped, service callbacks, clearHints, clearAll, identity reset | Android kills the process and recreates the service |
| Completion-hint ledger (`core/completion-hints.ts`) | queue, duplicate keys, last sequence per device | admit, drain, clear | fed with hint envelopes |
| Snapshot cache (`core/cache.ts`) | entries, two byte totals | put, get, delete, invalidate, prune, clear | injected clock |
| Fail-open pipeline (`core/orchestration*.ts`) | a budget ledger per run | six stages over adapter callbacks | adapters may throw, swallow or overrun |
| Response binding (`core/response-binding.ts`) | one attempt | select, authorize, collect, decode, pipeline, serialize | starts the pipeline under its own signal |
| Conformance harness (`core/conformance.ts`) | one run over an adapter | every stage of an adapter, most of them twice | adapters that answer, throw and mutate as they like |

### Components without state of their own, and modelled

| Component | What it computes |
|---|---|
| Lifecycle planner (`core/application-lane-lifecycle.ts`), Chromium projection and plan (`chromium/src/projection.ts`, `binding.ts`) | what to do with the projection of a lane |
| Representation check (`core/representation.ts`) | whether an adapter's tree of entries may be navigated |
| Lane witness and activity (`chatgpt/lane-witness.ts`, `lane-activity.ts`) | whether a lane may be put to sleep, from evidence taken earlier |
| ChatGPT adapter (`chatgpt/index.ts`, `synthetic.ts`) and active-path window (`core/legacy-index.ts`) | a snapshot of the end of a conversation, valid by itself |

Not modelled, each with its reason in `PROJECT.json`: structural fingerprints,
companion payload parsing, probes and view model, the slim DOM executor (which
nothing calls), content-script user interface, Android screens, benchmarks,
scripts, fixtures, release and security policy.

### What is hard

* **Late and repeated inputs.** Descriptors, replies, events, receipts, page
  replies and evidence may be delayed past the generation, the lease, the lane,
  the document or the conversation they were about.  The code answers with
  generations, claimed references, ownership of lanes and duplicate windows;
  each of these fences is only as good as every path that changes it.
* **Suspension.** `beforeCommit` (companion), the storage queue (Firefox), the
  awaited authorization (slim mode), the transport and the resumption of
  `close()` (web), awaited tab calls (Chromium), message routes (panel) and the
  executor (Android) all split one operation in two, and anything may run in
  between.
* **Redundant bookkeeping.** Maps and their inverses, a ring and a set, a
  running total and the records it totals, two books of pending requests.
* **Callbacks that are not trusted.** Adapters and stages may throw, swallow
  what was thrown at them, answer nonsense, cancel or mutate.
* **Partial failure and restarts.** Storage calls and commits fail; the
  background page, the content script and the Android process start again at
  any point.
* **Limits.** Every owner is bounded, and some limits interact: a replacement
  frees room, an eviction of one kind makes room for another.

### What makes each modelled component correct

* Lane runtime: requests are owned by exactly one current lane generation;
  truth never moves back; the duplicate window is exact.
* Interaction ledger: no lease outlives its generation, and however the clocks
  of the callers disagree a lease passes on only for one of four reasons.
* Effect runtime: a reference is one-shot; no receipt counts after a newer
  generation was seen, short of a reset of the binding runtime; a tab belongs to
  one lane.
* Static host: a receipt tells the truth about the tab; nothing is discarded
  that a plan did not allow; a warm tab stays warm.
* Companion: everything resident is current and within its limits; late work
  puts nothing back.
* Companion web: the two books agree; superseded requests change nothing;
  nothing closed or revoked comes back; what is mounted is what the client holds.
* Exchange: each dispatch is accounted once, a failed or cancelled one as what
  its caller was told, an answered one by its sizes.
* Firefox observation: a report that claims completeness is complete, across
  failures and restarts; starts are always answered.
* Slim mode: what only a reload restores is remembered as such and recorded; a
  page whose layout broke does not stay half slimmed, if it is ever quiet for as
  long as the delay of the apply timer.
* Panel: a sample is of the document it was bound to.
* Authorization: a grant ends with the use of lock or intent it was issued
  under.  Sleep: only on quiet, recent evidence of the lane's own generation.
* Pipeline and response binding: a stopped or cancelled run yields nothing.
* Conformance: a promise is called kept only if it was exercised, or if a stage
  answered nothing, which the harness does not object to.
* Snapshot: a conversation of its own, honest about what it left out.
* Stores: byte totals and counters are exact, a refused put takes nothing,
  numbers of a device are taken in order, the connection flag does not outlive
  the connection.

## 2. Modules

Each module names its source in its header, and `PROJECT.json` maps every
definition to the lines it stands for.  Definitions whose comment begins
"Faulty variant" are plausible bugs: no specification uses them, and each shows
that some property would notice.

| Module | Models | Correspondence |
|---|---|---|
| `ApplicationLaneRuntime` | lane runtime | one action per method; `pending` and `pendingIds` are the two records of requests; a refused call is a stuttering step; `upsertDescriptor` is three disjoint actions (insert, advance, replace generation) |
| `ApplicationLaneInteractionLedger` | interaction ledger | one action per method; pruning is part of each; `call` records the last call for the action properties |
| `ApplicationLaneLifecycle` | residency planner | its three intents as chains of early returns |
| `ChromiumBindingRuntime` | binding runtime | `bind`, `rebindProjection`, `observeDescriptor` as operators that the next module composes; a tab id and its projection reference are one value |
| `ChromiumManagedEffectRuntime` | effect runtime over the binding runtime | extends the module above, since the code shares the object; `superseded` and `replaced` record what happened since an effect was issued, `forgotten` what a reset of the bindings has made the code forget of it |
| `OneShotReferences` | what an owner of request references promises | abstract: issued once, admitted while waited for, given up at any time; `ChromiumManagedEffectRuntime` instantiates it with a refinement mapping |
| `ChromiumLanePlan` | projection of a tab, plan of a bound lane | extends the planner; a tab is what `tabs.get` answers |
| `ChromiumStaticHost` | service worker, popup, effect requests | extends the plan; a command is a slot whose steps are the code between two awaited browser calls; the user and the browser change the tab in between |
| `SyntheticCompanion` | companion runtime | `dispatch` is split at the `beforeCommit` await: a preparation, then a commit or refusal; the four accounted sizes are one; `lost` records requests whose conversation went away in between |
| `CompanionWebController` | controller, client state and render sink | `Dispatch`, then one of `Supersede`, `Reject`, `Apply`; `FinishClose` is the part of `close()` behind its await; the transport is external |
| `LoopbackExchange` | transport, request ledger, loopback server | page, connection and server act in turn; aborts and broken connections at any point; `dispatched` is what the caller was told, set by the transport's own limit, `books` the ledger with its own; `wire` holds the sizes |
| `FirefoxObservation` | background page and its storage | the promise queue is `queue`, its head's storage call is `io`; the request listener acts between; `Restart` keeps `storage` only |
| `SlimMode` | slim-mode content controller, discovery, window, drift reducer | `page` is the sequence of turn elements and placeholders; a request is two steps around the authorization; the apply timer is off or armed, every observed mutation restarting it (`armed` and `rearmed` in turn), the grace timer a flag; a reload keeps `config` |
| `LaneActivityPanel` | popup panel and diagnostic export, background route, producer | every question is a message on its way; documents are visits |
| `ChatGptLaneActivity` | witness, recovery and transition assessment | evidence is kept and used later, of lanes that move on |
| `TransformAuthority` | emergency lock, opt-in, clearers, evaluation of live authorization | an approval and a grant differ from the request in any set of identities; denials in the order of the code |
| `NotificationHints` | listener service, executor, hint store | `memory` and `disk` are the two faces of shared preferences; `Kill` and `Reboot` keep `disk`; jobs wait, run and append as separate steps |
| `CompletionHintLedger` | hint ledger | `Verdict` is the chain of refusals of `admit` |
| `SnapshotCache` | snapshot cache | entries and the two totals kept beside them; seeds of every form |
| `FailOpenPipeline` | pipeline and budget ledger | a stage is entered, its callback acts through the context, its answer is read, the checkpoint looks at signal and clock |
| `ResponseBinding` | response binding | extends the pipeline: its fifth stage runs it step by step |
| `AdapterConformance` | conformance harness | one action per stage, with its skips and early returns; a stage answers, refuses, answers nothing or throws |
| `RepresentationCheck` | representation check | the passes of the validation are the steps, the walk along parents one id at a time; a parent may dangle, ids of children and roots do not, which would only be refused |
| `SyntheticSnapshot` | ChatGPT validation, active-path trace, window, snapshot | operators for the four functions, actions for the callbacks in the order of the pipeline |
| `EarlyReturns` | a function written as a chain of early returns | `FirstRule`, used by six of the modules above |
| `InsertionOrder` | a JavaScript map as the sequence of its keys | `KeysWithout`, deletion, where the order decides what is evicted: companion and exchange |

`MC*` modules define the values of constants, the symmetry sets, and — where
several components that share nothing have one run — the choice of the part that
runs.  `*_proofs` modules hold the theorems: `ApplicationLanes_proofs` on the
lane runtime and the ledger, `Firefox_proofs` on slim mode and observation,
`Stores_proofs` on the four parts of `MCStores`, `Services_proofs` on those of
`MCServices`, one each on the effect runtime, the companion and the web
controller, and `CommonFacts_proofs` with the lemmas they share.

## 3. Runs

| Run | Bounds | Distinct states | Question |
|---|---|---|---|
| `lane_runtime` | runtime: 3 lanes for 2 places, 3 requests for 2 places and 1 per lane, 2 event ids for a ring of 1, 2 generations, 2 times; ledger: 3 lanes for 2 places and 1 lease, 2 references, lifetimes to 2 | 10 517 | Do requests, truth, events and leases hold under every order of calls and with any clocks? |
| `chromium_effects` | 3 lanes for 2 places, 2 tabs, 4 references of which 3 can be claimed | 36 243 | Are references one-shot (the refinement), and never admitted after a newer generation, short of a reset? |
| `companion` | 3 conversations for 2 places, 2 records of total size 3, 2 requests in flight, clock to 2 | 340 192 | Do late commits, evictions and endings keep the working set right? |
| `companion_web` | 4 dispatches over 2 conversations, client limit 2 | 811 437 | Do superseded, late and failing replies leave books and view right? |
| `firefox_observation` | observation: 2 requests, 2 paths for 1 class, 2 runs, 1 restart, queue of 2 commands; slim: pages of four groups and of one, one placeholder, one request waiting, drift limit 2 | 366 714 | Are claimed totals honest and starts answered; does slim mode recover? |
| `stores` | notices: 4 deliveries of 3 events, ring of 3 with a window of 2, 2 service instances, 2 commit failures, 2 processes; hints: 2 devices, 3 notices, queue of 2, gap 2; cache: 3 keys for 2 entries and two byte totals; snapshot: every forest of 4 nodes with one wrong link at most, 2 groups | 908 745 | Are counters and totals exact across evictions, failures and restarts?  Does a snapshot stand alone? |
| `services` | host: 1 tab, 2 commands at once; representation: every graph of 3 entries; response: up to 2 chunks, budgets one below what fits; authority: clock to 3, 3 calls; panel: 1 tab with 2 routes, 3 visits, 3 questions; activity: 2 conversations, 2 generations, clock to 2; conformance: 9 kinds of adapter; exchange: 2 requests of 1 or 4 bytes, answers of 1 to 5, limits of 4 (server), 2 (transport), 3 (cache entry) and 4 (cache), log of 1 | 1 114 344 | Does each small component keep its promise under every order of steps and every answer of its callbacks? |

Why the bounds suffice: each limit of the code is met with one member more than
fits (a third lane, a second request of a lane, a second active stream, a fourth
event), two generations or runs give "older" and "newer", and the second of two
actors is enough for each race, since none of the fences counts actors.  In the
lane runtime and the ledger every call is total over its inputs, so the state
graph is complete and not cut by any bound but the constants.  Elsewhere bounds
are guards, named in the modules: `MaxGeneration`, `ordinalMax`, `maxRuns`,
`maxRestarts`, `maxQueue`, `MaxElements`, `MaxPending`, `MaxDelivered`,
`MaxStarts`, `MaxFailures`, `MaxProcesses`, `MaxLong` (counters saturate),
`MaxSequence`, `maxVisits`, `maxAsked`, `maxGeneration`.  The four limits on sizes
of the exchange differ, so that an answer is withheld and booked as completed,
or delivered and booked as refused, as well as both or neither.  In the snapshot part
the current node is fixed to one of the four, which are equal to everything
else, and paths of four exceed the depth limit; a window, an omitted middle and
an isolated root take three.

`CHECK_DEADLOCK` is off in `services` only: a response attempt, a conformance
run and an exchange really end.

Symmetry is declared over references and identifiers that the code compares
for equality only, never in the run that checks liveness.

The type invariants hold on these instances; they are not in the configurations,
which keep to properties that relate pieces of state, and the proved modules
have them as theorems.

### Where code and documentation part

| Run / property | Statement | What the code does |
|---|---|---|
| `chromium_replaced` / `ReplacedNeverAdmitted` | `docs/chromium-managed-effects.md:75`: a same-generation projection replacement makes the pending operation stale | the receipt is compared with the binding of the moment: replaced and replaced back, it is admitted |
| `companion_expired` / `ExpiredNotRepopulated` | `docs/synthetic-companion.md:121`: a late response cannot repopulate an expired working set | the commit rechecks activity, epoch and generation; expiry by time changes those only when another dispatch notices it |
| `firefox_cleared` / `ClearedStaysIdle` | `docs/privacy.md:20`: clearing the run disables observation again | a failed `storage.local.clear` is swallowed; the next start-up continues the old run |
| `companion_navigation` / `NavigationFollowsPage` | `web/render-sink.ts:216`: the record lives only while its conversation stays mounted | a navigate reply is mounted beside the page of another conversation |
| `notification_reboot` / `ConfirmedInThisProcess` | `android/notification-companion/README.md:26`: the listener has connected in the current process | a start time counted from an earlier boot passes for one of this process |
| `SampledInVisit` | `docs/firefox-chatgpt-lane-activity-panel.md:42`: a client-side route change rotates the reference, and a later sample is stale | the reference rotates when a question finds another route than the last question did; a route left and returned to in between goes unnoticed |
| `BoundToTarget` | the same document, line 29: changing an input clears the binding | an answer under way when the input changes still sets one |
| `SupersededStaysStale` | `docs/chromium-managed-effects.md:75`: a newer generation makes the pending operation stale | `clear()` of the binding runtime forgets the generation and leaves the pending effect: bound again at the older generation, its receipt is admitted |
| `ConformantExercised` | `docs/adapter-contracts.md:54`: the harness exercises a scenario rather than checking method names alone | a plan, materialization, alternate representation or validation that returns nothing is no issue, and the stages that need it are skipped in silence |
| `BreachNeverTransforms` | `docs/fail-open-pipeline.md:40`: a budget breach maps to a reason code | an adapter that catches the exception and answers normally is transformed over its limit |
| Reveal previous, beside `RecoveryRecorded` | `docs/firefox-slim-mode.md:23`: reveal clears the session configuration | it writes one with more groups and reloads |
| `DisconnectedIsIsolated` | `docs/fail-open-pipeline.md:59`: `disconnectedRootAnchor` records an isolated root | it is also set for a root right above the window, which is linked to it |

The first five have a run each, refuted by a finite behaviour.  The others are
stated in their modules and are violated in the same instances; no run is kept
for them.  The related positive facts are checked: `SupersededNeverAdmitted`,
`LateWorkIsDropped`, `WrittenThrough`, `RenderWithinClient`,
`FlagFollowsService`, `SampledWhereBound`, `StoppedNeverTransforms`,
`ConformantEarned`, `RecoveryRecorded` and `SnapshotStandsAlone`.  Two smaller observations have no
property: an identity reset on Android clears the stored service start, so a
connected listener reads as unconfirmed until its service is created again; and
a projection in progress during that reset may use both keys.

## 4. Fairness

Two properties are about progress, both in `firefox_observation`.

`StartAnswered` assumes weak fairness of `QueueStep` alone: a promise
continuation that can run does run, and browser storage answers each call, with
success or failure.  It says that a failed call does not block the queue, which
rests on the `catch` in `enqueueStorage`.

`DriftEnds` assumes `SlimFairness`: an apply timer that is armed and is not
restarted fires, the grace period ends, and a scheduled reload happens.  The
apply timer is a debounce of 180 ms: `scheduleApply` clears and sets it again at
every mutation the observer sees.  So each restart turns `armed` into `rearmed`
or back, and `Apply` is owed only if the timer stays in one of the two from some
time on; weak fairness of `Apply` would claim more than the code gives.  A page
that keeps mutating at shorter intervals postpones `Apply` for ever, and with it
the end of drift.  The property is therefore stated for a page that is `Quiet`:
the timer is not restarted for ever without having been off in between.
Without that condition TLC refutes it.  Nothing else is assumed of the site, the
user or the authorization: a page that is quiet now and then may mutate for
ever, and one whose layout stays broken ends in stock or in a reload.

The companion's `beforeCommit` hook, the web transport, the static host and the
message routes have no timeout in the code; no progress is claimed for them.

## 5. Proofs

Eight modules hold theorems.  Every safety property of a run, invariant or
action property, is stated by one of them for all values of the constants.
`PROJECT.json` lists the results; the arguments:

| Theorem | Property | Argument |
|---|---|---|
| **`ApplicationLanes_proofs`**, runtime | | |
| `TypeCorrect` | `TypeOK` | inductive as stated, because it says that a lane that is not retained holds nothing; without that an inserted lane could inherit an event, a ring or requests |
| `Ownership` | `PendingOwnership` | inductive with `TypeOK`; both directions are needed, since a generation replacement clears the global map by the lane's own set. Lemmas `ConsumeOwnership` and `DropOwnership` cover the two ways a request ends |
| `Windows` | `DuplicateWindow` | strengthened to `RingsFit`, which adds the length limit: without it the pushed id might itself be the one that leaves the ring |
| `Truth` | `TruthMovesForward` | an action property; every step follows from the guards and the types |
| `Events` | `EventNotSuperseded` | inductive with `TypeOK`: whatever advances a descriptor passes its event through `KeepEvent`, and whatever replaces one drops it |
| `Limits` | `WithinLimits` | strengthened to `Few`, finite sets below their limits, with `RingsFit` for the rings |
| the same module, ledger | | |
| `LedgerTypeCorrect`, `Current` | `LeaseIsCurrent` | `LedgerInv`, both together: a lease that survives a call is of the generation the call brings only because it was current before |
| `Fence`, `Orderly` | `GenerationFence`, `LeasesPassOrderly` | action properties from `LedgerInv`, one case per method |
| `LedgerLimits` | `LedgerWithinLimits` | a call tracks or leases one lane at most, and only below the limit |
| **`ChromiumManagedEffectRuntime_proofs`** | | |
| `TypeCorrect`, `Ownership`, `Waiting`, `AntiReplay` | `TypeOK`, `ProjectionOwnership`, `OneEffectPerLane`, `AdmittedOnce` | `IInv`: the invariants of the two runtimes, proved apart, and that what the history calls superseded or replaced is still pending (`HistoryPending`) |
| `Superseded` | `SupersededNeverAdmitted` | from `IInv`: a superseded effect that no reset has made the code forget is of an older generation than its lane's (`SupersededPending`), which is what the receipt is compared with. The reset is a real exception and not an abstraction: `SupersededStaysStale`, which has none, is refuted |
| `OneShot` | `ReferencesAreOneShot` | refinement of `OneShotReferences`: initial states to initial states, every step to a step or a stutter; uses `AdmittedOnce` and `OneEffectPerLane` |
| **`SyntheticCompanion_proofs`** | | |
| `TypeCorrect`, `WorkingSetStaysBounded`, `ResidentStaysCurrent` | `TypeOK`, `WorkingSetBounded`, `ResidentIsCurrent` | `IInv`: records, their order and the accounted sizes agree (`ResidentOK`), what is resident is current, an ended session is empty, and requests in flight carry no generation of the future. Every step is summed up once (`Effect`: which generations it raises, which conversations it takes away), and the invariant is proved of the summary. Sizes are sums over finite sets |
| `LateWorkStaysDropped` | `LateWorkIsDropped` | an action property from `IInv`: a request in `lost` waits with a generation below that of its conversation (`LostIsOutdated`), which is what the commit rechecks |
| **`CompanionWebController_proofs`** | | |
| `WebTypeCorrect`, `BooksAgree`, `MountedIsHeld`, `Released` | `TypeOK`, `PendingAgreement`, `RenderWithinClient`, `ReleasedStaysGone` | `WebInv`: the books (types and agreement), what is mounted, and two orders: what is held is older than the owner that may replace it (`ClientOlder`), and every owner is younger than the last release (`OwnersYounger`); without the latter a reply to a request from before the release could be applied |
| `OwnersOnly` | `OwnersReplace` | an action property from `WebInv` |
| **`Firefox_proofs`** | | |
| `RemovalIsRemembered`, `RecoveryIsRecorded` | `RemovalRemembered`, `RecoveryRecorded` | `SlimInv`: page, configuration and controller are `Recoverable`. Beside the two properties it needs that a mode other than stock has its configuration written too: the first removal happens under such a mode, when nothing is missing yet |
| `AccountIsHonest`, `StateIsWrittenThrough` | `HonestAccount`, `WrittenThrough` | `ObsInv`: the account of the active run counts what is open, what has been recorded and what is *due*, that is, in the queue behind the call that has begun (`Balanced`, `Counted`); storage holds the run or a call that stores it is under way (`Stored`). A run whose start still waits has left no trace (`StartsAreNew`) and the stored run is taken up before anything else (`LoadedFirst`): else a count would fall to the wrong run |
| **`Stores_proofs`** | | |
| `HintsTypeCorrect`, `HintsStayAccounted`, `FlagStaysTrue` | `TypeOK`, `HintsAccounted`, `FlagFollowsService` | `HintsInv`: each file of preferences is ring, sequence and counters of one history (`InOrder`), a thread has one job of an instance that was created (`ServiceOK`), and what was delivered is waiting, running or counted once |
| `UsageStaysExact`, `RefusalTakesNothing` | `UsageIsExact`, `RefusedPutTakesNothing` | `CacheInv`: the two totals are the sums of the entries and fit the limits; eviction and prune take keys one by one, each with its bytes |
| `Taken` | `TakenInOrder` | inductive with types (`NumbersOK`); it ties the remembered number of a device to the last one taken, which the verdict compares with |
| `Queued` | `QueuedOnce` | the queue and the set of its keys agree through eviction: the keys of what is evicted leave, and no key that stays is among them |
| `SnapshotsStandAlone` | `SnapshotStandsAlone` | `SnapshotInv`: each stage hands on a valid conversation, a plan of it, the snapshot of that plan. `TraceFound` and `TraceFinds`: what the climb along the parents finds is the one path that is linked from a root to the current node; `SelectedOfPath`: of the omitted part of the path at most the root is selected, so the selection is cut at one place, which the boundary names |
| **`Services_proofs`** | | |
| `ReceiptsAreTrue`, `WarmStaysWarm` | `ReceiptTruth`, `KeptWarm` | `HostInv`: what a command has done when it gets to each of its calls (`CommandOK`), and that a keep-warm nobody disturbs holds its tab protected from its decision on (`WarmOK`), whatever the user, the browser and the other commands do |
| `DiscardWasAllowed` | `PlannedDiscardAllowed` | an action property from `HostInv`: a command gets to its discard only by a plan that was sound for its own tab |
| `AcceptedMeansForest` | `AcceptedIsForest` | `RepresentationInv`: what is completed holds its parents and has no circle; the chain being walked leads on to its next id (`ChainOK`), so one that ends at what is completed, or at a root, has no circle either. `RootsReachAll` turns this into reachability |
| `StoppedStaysUntransformed`, `CancelReachesNothing` | `StoppedNeverTransforms`, `CancelledReachesNothing` | action properties from the shape of run and attempt: every path to an output passes a checkpoint in the same step |
| `VerdictIsEarned` | `ConformantEarned` | `ConformanceInv`: a run that is still clean has had every stage before the present one answer twice alike where its promises let it run, answer nothing, or lack what a stage that answered nothing did not give it (`CleanAt`) |
| `DispatchesAreAccounted` | `ExchangeAccounted` | `ExchangeInv`: each counter is the number of exchanges that are to be booked so, by what the caller saw and by the sizes on the wire (`BookedAs`, `CountsOK`), an answer that has come stays what it was (`WayOK`), the server has handled every one, and log and cache keep to their limits. The bytes of the cache are a sum over the sequence of its keys |
| `SamplesStayWhereBound` | `SampledWhereBound` | `PanelInv`: a reference stands for one document and route in whatever place it is kept (`MarksOK`), and an answer under it is of that place (`AnswersOK`), for any number of questions under way |
| `GrantEnds` | `GrantEndsWithIntent` | generations only grow, and a grant carries those it was issued under |
| `Sleep` | `SleepIsEarned` | evidence is honest when taken (`ObservationHonest`, `RecoveryHonest`) and stays so, since time and generations only grow |
| **`CommonFacts_proofs`** `FirstRuleIsFirst` | | the least index whose guard holds exists, by the well-foundedness of the naturals; hint ledger, authority, activity and pipeline read their verdicts with it |

Where a definition recurs over data (sums over finite sets, joined sequences,
the keys that stay in a cache, the climb of a path, the steps from the roots)
the facts about it are proved by least counterexample: `LeastNumber` and
`SmallestSet` come from the well-foundedness of the naturals, a lemma shows that
the recursion has a solution (`SumIterExists`, `KeysKeptExists`, `FlatExists`,
`StepsExist`, `ClimbExists`), and the rest is by its one-step equation.  This
needs definitions as recursive functions, not `RECURSIVE` operators, which no
module here declares; `SelectSeq` is such an operator, for which
`InsertionOrder` has the function `KeysWithout`.

Assumptions on constants are the named `ASSUME`s of the component modules
(naturals, positive limits, absent values outside of the sets), all evaluated by
TLC in the runs.  Nothing else is taken.  One deserves a word:
`SlimAssumption` says that a page as the site renders it is a sequence of turns
and has no placeholder, since placeholders are elements that the controller
itself creates (`createPlaceholder`), and a reload gives the site's own page.
Times are ISO text in the code and compared as text; the models have them as
naturals, of which only the order is used.

Model-checked only: the two liveness properties `StartAnswered` and
`DriftEnds`, since fairness and `ENABLED` are out of the prover's reach; and the
five refutations, whose behaviours TLC exhibits.

## 6. What is left out of the modules

* Parsing and shape validation: inputs are well formed; a malformed one is
  refused before any state changes, except where that refusal has an effect
  (`RefusePayload`, unusable replies, `SubmitMalformed`, malformed answers of
  the pipeline's callbacks, answers of nothing by the stages of an adapter under
  test), which is modelled.
* Content: text, bytes, titles, paths and signatures are members of small sets.
  The four accounted sizes of the companion are one, since the code adds,
  subtracts and compares each in the same way at the same places.
* Content-free counters that only a snapshot reads; issue codes, diagnostics and
  status texts.
* Firefox observation: bytes, durations, marks, tags and the redaction grammar.
* Slim mode: heights, counters, the status chip.
* Android: the HMAC key, damaged records, timestamps other than that of the
  service start, the physical-test tally, the screens.
* Loopback server: static assets, session information, self-tests; what the
  companion makes of a request is in `SyntheticCompanion`.
* Conformance: the canonical form of values and the version policy.
* ChatGPT adapter: contents of nodes, the bounded list of issues, fingerprints,
  compatibility identities.
* `firefox/slim-dom-executor.ts` and the evaluation of live authorization have
  no caller in this build; the latter is modelled with an external one, the
  former is not.

## 7. Plan

Done, in this order: lane runtime with its proofs; interaction ledger; Chromium
binding and effect runtimes; synthetic companion; companion web; Firefox
observation; Android hints; then planner, static host, hint ledger, cache,
representation, pipeline, response binding, transform authority, slim mode,
panel, lane activity, conformance, exchange, ChatGPT snapshot; the refinement of
one-shot references; liveness of slim mode; proofs of every safety property that
a run checks.

The suite has a fixed size in mind: a dozen runs of about a minute each, and
forty properties.  New modules share runs, and deeper properties replace
shallower ones (first the type invariants that a theorem covers).

Left:

1. Proofs: type invariants of the modules that have none as a theorem; that the
   representation check refuses no forest, the converse of `AcceptedMeansForest`;
   that a counter of the Android store never falls while the process lives.
2. Composition: `CompletionHintLedger` fed by the hints of `NotificationHints`;
   `LoopbackExchange` over `CompanionWebController` on one side and
   `SyntheticCompanion` on the other; receipts of `ChromiumStaticHost` to
   `ChromiumManagedEffectRuntime`.
3. Abstract specifications: the lane runtime's requests as another owner of
   `OneShotReferences`; a *working set* (conversations that may be read, and no
   more) implemented by `SyntheticCompanion`; a *view* (what the newest owner
   asked for, or nothing) implemented by `CompanionWebController`.
4. Operations: the HMAC key race and the physical-test tally of Android; the
   fingerprint's budgets; the hazards of `PROJECT.json` without a property.
