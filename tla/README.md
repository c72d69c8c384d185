# A TLA+ model of GridFlex EMS

GridFlex EMS is an energy management demonstrator: a decision rule in C++, a C
hardware abstraction layer below it, a C ABI around it, an ASP.NET backend that
serves it over HTTP, and a Python package that simulates an installation
(solar array, building, battery, grid connection), runs the controller in the
loop with it and shows the result in a dashboard. This directory holds TLA+
models of those parts, the TLC configurations that check them, and proofs for
TLAPS. Paths below are relative to the repository.

## The system

| Part | State it keeps | Operations | Talks to |
|---|---|---|---|
| EMS rule, `controller/src` | none between decisions (the limits) | `decide`, the validations of measurement, limits and command | called through the C ABI |
| C ABI, `controller/src/native_api.cpp` | controllers allocated, the last error of each thread | `create`, `decide`, `destroy`, `last_error_message` | called by the backend |
| Backend gateway, `backend/GridFlex.Api` | lazy singleton, safe handle | decision, readiness and status requests, shutdown | C ABI, HTTP clients |
| Decision statistics, `ControlDecisionStatistics.cs` | counters, time of the last decision | record decided, rejected, failed; snapshot | gateway decorator, status endpoint |
| Hardware layer, `hardware/src`, `controller/src/hardware_command_executor.cpp` | setpoint, call count and failure switch of a device | `execute`, `apply`, sensor reads | commands of the rule |
| Simulated plant, `simulation` | battery charge, the clock of a run | charge, discharge, import, export, measure | the two runs |
| Controller in the loop, `controller_in_the_loop.py` | the interval under way, the recorded steps | `run`, `compare` | plant, a decision provider |
| Control API client, `control_api.py` | none | `decide`, `get_status`, `wait_until_ready` | backend over HTTP |
| `gridflex-sil` command, `sil_report.py` | the scenario and interval under way, a clock while it waits, the report directory | wait for the API, run the scenarios, write the report | client, runner, file system |
| Reference strategy, `scenario.py` and the services below it | as a run | one interval after another | plant |
| Dashboard service, `dashboard.py`, `dashboard_server.py` | exchanges of a run | list, status, run, explain | client, runner, page |
| Dashboard page, `dashboard_static/dashboard.js` | selection, run on show, interval, timer, runs in flight | select, run, step, play | dashboard service |

What makes these parts hard to get right:

* **The loop.** The controller decides from a measurement and the plant applies
  the answer. The answer comes over a network from a program in another
  language: it may be missing, belong to another interval, or ask for what the
  plant cannot do. The plant must stay physical whatever arrives, and a run that
  fails must not look like one that finished.
* **Two strategies that are one.** The C++ rule works on powers, limits and a
  state-of-charge window; the Python reference on energies. Reports compare them
  as if they were the same strategy.
* **The gateway.** Request threads share a native object that is created on
  first use, whose creation may fail and be tried again, and that a shutdown
  destroys while calls may be inside it. The reason of a rejection is kept per
  native thread and read by a second call.
* **The hardware.** A decision becomes two device calls, and each can fail alone.
* **The statistics.** A decision is two interlocked writes and a status five or
  more reads, and nothing makes either of them one step.
* **The command.** It talks to a backend that may be down, restarted or lost, over
  connections that time out, and may be killed between two files of its report, or
  between the last of them and its exit. A decision that was made for a client that gave
  up still counts.
* **The explanation.** The controller's answer has no reason. The dashboard
  recomputes the rule in Python, from limits it read before the run and converts after
  it, when a status of the wrong shape throws two finished runs away.
* **The page.** Handlers run one at a time, but a run is requested in one and
  shown in another, and a playback is a chain of timers that keeps a value of
  the run it was started on. An answer that cannot be read becomes `{}` and takes the
  place of the run.

`PROJECT.json` lists these and the smaller ones as hazards, each at its line,
with the properties that cover it or the reason none does yet.

What makes each part correct:

* rule: charges only up to and discharges only down to its window, never refuses
  what the plant measures, uses its freedom in full;
* plant and runs: stored energy between empty and full, books that balance,
  surplus only stored or exported, deficit only supplied, records in order;
* comparison: no controller beats the reference, and an unconstrained one equals it;
* gateway: no use after destroy, one controller, every reason its own, counts
  that match the answers, every request answered, the controller destroyed;
* hardware: a truthful result, and no pair of active devices reported as success;
* statistics: no count lost, snapshots that bracket what has happened and never go
  back, a time once there was a decision;
* command: an interval decided at most once, a wait that ends in time, a page only
  beside complete runs and before a success, an end;
* dashboard service: a reason exactly for what the rule would have moved, reasons
  that hold of the plant, a document without gaps, an answer unless one of four things
  was raised;
* page: an interval on show that exists in the charts, one story told by run, charts,
  link and status line, no tick after a stop, a run button that comes back, a playback
  that ends.

## Modules

| Module | Models | State and actions |
|---|---|---|
| `EnergyUnits` | quantities, tolerances, power from energy and back | operators |
| `EnergyController` | the C++ rule and its validations | operators: the rule keeps no state |
| `Plant` | battery, grid, balance, measurement, sums | operators: the objects live in the runs |
| `EnergyLedger` | **abstract specification** of any run over a scenario | open, close an interval, complete, abort |
| `ControllerLoop` | `ControllerInTheLoopRunner.run` | `pc` splits an interval at the call of the provider: `Measure`, `Answer` / `ProviderFails` / `ControllerAnswers`, `Apply` / `ApplyNotANumber` / `RefuseAction`, `Return` |
| `ReferenceTimeline` | `SimulationScenarioRunner.run` | `RunInterval`, `Return` |
| `ScenarioComparison` | `compare()`: composes `ControllerLoop` and `ReferenceTimeline` over one scenario | the first run's actions, then the second's |
| `DashboardRun` | `POST /api/runs`: composes `ScenarioComparison` with the status, the recording provider and the explanations | `RefuseRequest`, `ReadStatus`, `StatusRaises`, `Exchange`, `RunPlant`, `RunReference`, `Complete`, `Fail` |
| `DashboardPage` | the page in the browser | one action per event handler, timer or answer |
| `NativeGateway` | container, gateway, safe handle, C ABI, statistics, shutdown | one action per step of a request thread between two points where another thread can run |
| `ControllerLifetime` | **abstract specification** of what the gateway promises of the native controller | create, enter, leave, close |
| `DecisionStatistics` | recorders and snapshots of the statistics | one action per interlocked operation |
| `HardwareExecutor` | `HardwareCommandExecutor` over the actuators | `Execute`, `Apply` per device, `SetApplyFailure` |
| `SoftwareInTheLoop` | the `gridflex-sil` command, the client's exchanges with the backend, the network between them | command: `Ready`, `NotReady`, `Sleep`, `Send`, `Receive`, `DecideFails`, `PrintComparisons`, `GetStatus`, `MakeDirectory`, `Write`, `Announce`, `Abort`; backend and network: `Start`, `BecomeReady`, `Crash`, `Decide`, `Lose` |
| `FloatBattery` | the battery in rounded arithmetic | `Charge`, `Discharge` |
| `ControllerLoopProofs`, `ScenarioComparisonProofs`, `DashboardRunProofs`, `NativeGatewayProofs`, `DecisionStatisticsProofs`, `HardwareExecutorProofs`, `SoftwareInTheLoopProofs`, `DashboardPageProofs` | theorems | |
| `MC*` | instances for TLC; `MCScenarios` holds the shared scenarios and limits | |

How the state corresponds to the code:

* `ControllerLoop`: `soc` and `elapsed` are the battery's and the runner's
  fields, `measurement` and `decision` the locals of the loop body, `steps` the
  list of `LoopStep`s; each record carries the sums `LoopResult` would compute so
  far. `outcome` is how `run` ends: a result or the exception that leaves it. An
  interval is two plant steps and one provider step, because that is where
  control leaves the runner.
* A scenario's interval carries the power of the array and of the building,
  which the source computes from irradiance and activity factors that are used
  nowhere else.
* `NativeGateway`: `creator` is the container's lock on the singleton, `holders`
  the references of the safe handle (its owner's, and one per call under way),
  `closed` the handle's flag, `lastError` the thread-local string, `controllers`
  the native objects alive. `received` and `answered` count for the properties
  only. A request is named by what it will meet: the rule its measurement
  violates, `valid`, `malformed`, or a readiness or status request.
  A decision request whose gateway cannot be resolved is answered
  `Unavailable`, which to the client is a server error like any other. Any call may end
  with an internal error, whatever its measurement. The service behind the endpoint
  passes the decision on; its own checks of it (no decision, a decision of another step)
  have no step, since the native code copies the step number and always answers.
* `DecisionStatistics`: `decidedBy`, `rejected`, `failed`, `lastAt` are the fields;
  `position` says which read of a snapshot comes next, `reading` what it has.
  `answered` and `floor` are history for the properties. `NativeGateway` decides
  which outcome a request has and counts it in one step; here the outcome is any
  and the steps are apart.
* `SoftwareInTheLoop`: `run` and `step` are the loops of `main` and of the runner,
  `now` the monotonic clock of the wait, `disk` the report directory: each document
  is absent, of an earlier command, half written, or shows a run, by its number.
  `request` is the decision request on its way, `serving` the backend's readiness,
  `decided` counts for the properties only. What `main` prints, after the runs and after
  the report, are places where it can still fail (`print`, `announce`): the command has
  succeeded only after them. A decision has no content here and the report no text:
  `ControllerLoop` has the one, nothing the other.
* `FloatBattery`: a number is a whole multiple of the smallest unit with at most
  `Precision` significant bits, rounded to the nearest, of two to the even one.
* `DashboardRun`: `request` is what the handler is sent (its path, whether its
  length is sound, whether it is JSON, the scenario it names); `reported` is what the
  status, which is read before the runs, comes to: the controller's limits, another
  backend's, none, or `Unusable`, a status that raises when it is converted after the
  runs (a limit that overflows a float, a `nativeController` that is neither missing nor
  an object). `exchanges` is the recorder's list, `response` and `document` the answer. An
  exception that is no `ControlApiError` ends the handler without one (`Dropped`).
* `DashboardPage`: `selected`, `run`, `index`, `timer` are fields of `state`; the timer
  is kept as the value of `last` its closure holds, and `ticking` says whether it is
  still to come. `charts` is the run that was rendered last, which is another one than
  `run` after an answer without readable JSON (`Unreadable`). `requests` and `pending` are
  the runs in flight, answered in any order.
* `HardwareExecutor`: `held` is what the simulated device stores of the last
  command it applied, `result` the two error codes of the returned result.

The container, the marshaller and the web host are not in the repository; they
are modelled from how the code uses them and marked `external` in the map.

## Units and arithmetic

Energies are integers, a number of quanta; powers are counted in `1/PowerScale`
quanta per hour, so that the division by a duration in the rule and the
multiplication in the plant are exact for the durations used (the
`ExactDuration` assumption). The relations between the tolerances are those of
the code: the balance's 1e-9 is not above the measurement's 1e-6 nor the
conservation check's 1e-6.

A power that is not a number is one of the answers: Python's `json` accepts it and
so does the client. `min` and `max` hand it on to the battery, and the run ends at
the conservation check; an idle battery ignores it. Infinities are left out: the
client stops at an infinite step number with an exception of another kind
(`OtherError`). Rounding is only in `FloatBattery`; the other modules are exact.

## Runs

`PowerScale = 2` (so hours 1 and 2 are exact), both absolute tolerances 1,
`NetRelativeDivisor = 100`. One quantum is both the smallest energy and the
tolerance, so that a balance within the tolerance is a real case (an interval of
the instance nets +1). `MCScenarios` has five intervals: two surpluses, one
balance, two deficits, each larger or smaller than the battery, its power limits
or the grid; batteries empty, half full and full; a strong grid, a weak one and
an outage. Two intervals suffice for a decision to meet the state another left,
three for two of one direction to follow one of the other.

| Run | Question | Bounds |
|---|---|---|
| `loop_any_provider` | is the plant safe, and bounded by the reference, whatever a provider answers? do the two implementations coincide when the controller's limits do not bind? does each implement the ledger? | up to 2 intervals, and 3 of those that fill and empty the battery; 32 different answers (right and wrong step, four actions of which one is unknown, negative, small and huge power and none that is a number), failures, and the rule with limits wider than the battery; then the reference |
| `loop_controller` | does the C++ rule keep its window, use what it may, get refused, end? | up to 3 intervals; a window strictly inside the battery, so runs start below, in and above it |
| `gateway` | races, failed creations, shutdown during calls; is everyone answered and the controller destroyed? does it have one life (`KeepsLifetime`)? | 2 threads, 3 requests (a thread's second request meets what its first left), one message that fits the buffer and one that just does not; a current, an older and a missing library |
| `decision_statistics` | what may a reader of the status rely on? | 2 recorders, two of the five actions (a snapshot can be overtaken between two counts), 2 snapshots; symmetric recorders |
| `hardware_executor` | what does the result say, and what is left on the devices? | 2 powers, 4 calls per device |
| `dashboard_run` | is a run explained by what was decided and happened? | up to 2 intervals of six; a backend that answers as the rule, in 32 other ways, or fails; its own limits, another backend's, none, or a status that cannot be converted; refused requests |
| `dashboard_page` | what does the user see while runs are in flight? | 2 scenarios of 2 and 4 intervals, 3 runs requested, each shown, failed or unreadable |
| `gridflex_sil` | what does a user of the command get, whatever backend and network do? | scenarios of 1 and 2 intervals, alone, together and repeated; 5 seconds of waiting, 2 between attempts that take up to 3; 2 crashes of the backend |
| `gateway_failed_count`, `gateway_startup_check`, `dashboard_idle_import`, `float_battery` | four statements of the documentation and of the program's texts | violated, below; `float_battery` with floats of 4 bits and batteries up to 64 units |

`loop_any_provider` runs `AnyComparison`, whose first part is `OpenLoop` or the rule
behind the client and whose second is the reference, so one exploration answers for
all of them. `RefuseAction` is a
step of the open loop alone: the C++ rule names no action the plant does not know.
The waiting of `gridflex_sil` is long enough for a first attempt that fails within
the time, after a sleep, and beyond it, and its crashes for a backend that is lost,
comes back and is lost again between two intervals. The type invariants of
`NativeGateway`, `DecisionStatistics`, `HardwareExecutor`, `SoftwareInTheLoop` and
`ReferenceTimeline` are proved and not repeated as properties of a run.

`CHECK_DEADLOCK FALSE` is set for runs that end (a scenario run, a
command, a server that has stopped or has received its bound of requests); `hardware_executor` checks
deadlock. Every property has a mutant in `PROJECT.json`: an operator in the
module, marked `Mutant`, that changes one definition the way a plausible bug
would and violates the property under the run's own configuration.

### Disagreements with the documentation

* `gateway_failed_count`: the README says the status counts "rejected and failed
  requests". A decision request answered 500 because the gateway cannot be
  created never reaches the decorator that counts.
* `gateway_startup_check`: decision 0003 says the version check "rejects an older
  library at startup". The check runs when the gateway singleton is first
  resolved; a server with an older library starts, and reports itself not ready
  once it is asked.
* `dashboard_idle_import`: the explanation of an idle battery at its minimum says
  "so the deficit is imported". In the catalogue's grid outage it is unserved. The
  texts are chosen from the decision and the limits, not from what the plant did.

* `float_battery`: `Battery.charge` promises that the battery "cannot be charged
  beyond its total capacity". The energy that fills it is a rounded difference, and
  the sum may be rounded up again: a battery of 10.9 kWh that stores 2.3 holds
  10.900000000000002 after a full charge, and the next charge accepts
  -1.8e-15 kWh. In floats of 4 bits, a battery of 22 units that stores 3 ends with 24.

Two more statements of `docs/dashboard.md` are true only under a condition, which
`ReasonsHold` therefore has as its antecedent. "The battery takes or supplies
everything" needs a battery at least as large as the controller's maximum state of
charge; and an interval of a controller that disagrees with the reported limits is
shown as `unexplained` only when no limit of theirs happens to give the same power: a
stale limit that gives the same power is named as the reason, and nothing the service
holds could tell. `ReasonsHold` and `ExplainsTheRule` compare with the limits that were
read, so this hazard (`dashboard.py:411`) is listed without a property.

## Fairness

* `ClosedLoop`: weak fairness of the whole next-state relation. The runner is a
  single thread that runs to its end, and `urllib` requests carry a timeout, so a
  pending answer arrives or fails. `OpenLoop` has no fairness.
* `NativeGateway`: weak fairness of each thread's handling of the request it has,
  and of a disposal that has begun. No request need arrive, the server need not
  stop. A thread waiting for another's creation has no enabled step, so its
  progress needs the creator to release the lock on every path, which is what
  `RequestsAnswered` is about.
* `SoftwareInTheLoop`: weak fairness of the command's own steps. It is one thread, its
  sleep ends, and each of its socket operations has a timeout; that an attempt takes
  at most `AttemptTime` also assumes a peer that does not send one byte at a time.
  Nothing is asked of the backend or the network, which may never come up.
* `DashboardPage`: weak fairness of the start, of a timer that is due and of each
  request's answer: a browser runs its timers and gives up what is not answered.
  Nothing is asked of the user, who may stop, step and select for ever.
* `DecisionStatistics` and `DashboardRun` state safety only.

## Proofs

The theorems hold for every value of the constants that satisfies the modules'
assumptions: any set of valid scenarios of any length, any limits the
constructor accepts, any answers.

* **Type and safety of the loop with any provider** (`OpenLoopInv` and its
  corollaries). The inductive invariant `Inv` joins `TypeOK`, `BooksBalance`,
  `NoCounterflow`, `ResultIsComplete` with `PhaseOK`, which
  links the two halves of an interval: the pending measurement is that of the
  next interval and of the present battery. Without it nothing says that the
  surplus an answer is applied to is the one the battery was measured with.
  `LoopStepSound` and `LoopStepConserved` carry the arithmetic.
* **The C++ rule in the loop** (`ClosedLoopInv`, `ClosedLoopNeverRefused`,
  `ClosedLoopWindowRespected`). Adds that a decision being applied is what the
  rule decides for its measurement; `DecideSound` bounds its power by the window,
  and the exact durations turn the bound on power into one on energy.
* **The order of the records** (`OpenLoopStepsInOrder`). `OrderInv` links every
  record's state of charge to the one before it and the last to the battery.
* **The freedom of the rule** (`ClosedLoopNothingLeftUnused`,
  `ClosedLoopAppliedAsDecided`). `DecideBinds` says which bound a decision meets,
  `AppliedSound` what the plant makes of it; every record keeps both.
* **Refinement** (`OpenLoopKeepsLedger`, `ClosedLoopKeepsLedger`,
  `ReferenceImplementsLedger`, `AnyComparisonReferenceLedger`): both kinds of run and
  the reference implement `EnergyLedger`; `Apply` maps to `CloseInterval` (or `Abort`),
  `Return` to `Complete`, failures to `Abort`, the rest to stutters.
* **A run is bounded** (`OpenLoopRunsOut`): `StepsLeft`, what is left of the scenario and
  of the interval, is a number that every step lowers. This is the half of `RunEnds`
  that needs no fairness: whatever the provider answers, no run goes on for ever.
* **The reference** (`ReferenceTypeOK`): its battery stays between empty and full.
* **The comparison** (`AnyComparisonReferenceDominates`,
  `AnyComparisonSameAsReference`, `AnyComparisonReferenceLedger`), for any provider.
  `ComparisonInv` keeps of every recorded interval how its surplus or deficit was
  shared out between battery, grid and the rest, from what stored energy
  (`RecordOK`), so that the second run can be held against a first one that is
  over. `IntervalDominates` then extends the bound by one interval: by
  `BatteryFirstDominates` a provider that moves less energy than the reference
  still owes it or has already paid for it. `IntervalSame` extends the equality: by
  `UnboundStep` the rule's decision, with limits that do not bind, moves as much as
  the battery allows, which is what the reference moves.
  With the C++ rule behind the client a comparison is one with any provider
  (`ComparisonIsOpen`), it follows the rule to its end (`ComparisonFollowsRule`), and so,
  with limits that do not bind, both runs are the same (`ComparisonSameStrategy`).
* **The dashboard's run** (`DashboardImplementsComparison`,
  `OpenDashboardExplainsTheRule`, `OpenDashboardReasonsHold`,
  `OpenDashboardDocumentComplete`). The service implements the comparison it is
  composed of: reading the status, refusing and answering are stutters of it
  (`DashboardSteps`), so what is proved of the comparison holds of every run on show.
  `DashboardInv` adds to `ComparisonInv` what ties an explanation to what happened:
  the recorder's exchange `i` holds the measurement and the decision of record `i`
  (`RecordsTold`), the one being answered is the last (`PassedOn`), a document is sent
  only of two complete runs, and these are given up only for a status that cannot be
  converted (`Sent`). The explanation and the rule are written in two
  languages: `BindingNames` and `RuleMovesSmallest` show that the bounds of which Python
  names the least are those of which C++ moves the least. With the rule behind the
  client the service implements the comparison with the rule
  (`ControllerDashboardImplementsComparison`), and every reason it shows is true
  (`ControllerDashboardExplains`): no interval is unexplained.
* **The gateway's handle** (`GatewayTypeOK`, `GatewayNoUseAfterDestroy`,
  `GatewayKeepsLifetime`), for any number of threads and requests. `HandleInv`
  says who holds a reference at which place, that there is a controller exactly
  while somebody does, that only the creator creates and only before there is a
  gateway, and that the owner gives its reference up when the handle is closed.
  `LocalStep` covers every step that moves a thread without touching the handle.
  On it rests the refinement of `ControllerLifetime`: the callers inside are the
  holders but the owner, the phase is read off the handle's flag and the native
  objects alive. A creation that succeeds maps to `Create`, the acquisition of a
  reference to `Enter`, its release to `Leave`, and the owner's release, on disposal or
  after a capture that comes too late, to `Close`.
  So there is one controller in a server's life, entered only while it is open, and
  it goes with the last of owner and callers.
* **The reason of a rejection** (`GatewayReasonIsOwn`, `GatewayNoStaleError`).
  `ReasonInv` follows one request from the call to its answer; `OthersKept` is
  the fact that makes it inductive: a thread's step leaves every other thread's
  request and native reason alone.
* **The gateway's counts** (`GatewayCountsMatchAnswers`): what was counted is what was
  answered and the answers about to be sent. `SendingAfter` and `CountSends` say what
  one step makes of the finite set of threads that are about to.
* **A request's end** (`GatewayRequestsRunOut`), the half of `RequestsAnswered` that needs
  no fairness: a request moves towards its answer, in ten steps at most, and never
  back; one that cannot move waits for a creation that another thread has in hand.
* **The hardware** (`ExecutorOnlyDeviceFailures`, `ExecutorSuccessHolds`,
  `ExecutorBothActiveOnlyReported`), for any powers and any number of calls. `Progress`
  says which device has been told what while a command is half executed.
* **The command** (`CommandDecidedOnce`, `CommandGivesUpInTime`,
  `CommandReportComplete`), for any command line, times and number of crashes. Its
  invariant ties a request that is still somewhere to the interval the command is at,
  bounds the clock at each place of the wait, and says what a report written so far
  shows (`DiskOK`): in particular that the page stands from the last write on, before
  the command has announced it and succeeded. `CommandRunsOut` bounds it: `Left` is what is before the command, a
  triple of numbers, and everything it does, a sleep and a failed attempt included,
  lowers the triple, which no step of the backend or the network raises. That is the
  half of `CommandEnds` that needs no fairness.
* **The statistics** (`StatisticsTypeOK`, `StatisticsCountsExact`,
  `StatisticsSnapshotBracketed`, `StatisticsTimeOnceAnswered`,
  `StatisticsSnapshotsGrow`), for any number of recorders and actions. Two facts
  carry the snapshots: a count that has been read lies between what was answered
  when the reading began and the counter now, and a count still to be read is
  not below it; and an action that was answered has left a time. `CountsExact`
  counts the recorders between their two writes.
* **The page** (`PageTypeOK`, `PageShownAsAnnounced`, `PagePlayButtonTrue`), for any
  catalogue, runs of any length and any number of requests. `FormInv` says that a
  run can only be requested once something is selected. The interval exists in the run
  that was rendered last, not in `state.run`, which an unreadable answer leaves without
  steps; and a playback can stop behind its button only by meeting such a run.

The assumptions about the constants are named, in the modules that declare them. Those
of `DashboardRun` include that no limits at all (`NotAsked`, `NoLimits`, `Unusable`) are not equal
to some, which is how the source tells `None` from limits.

Only model-checked: the statements of the runs that expect a violation, among them
`FloatBattery`, whose values are a small format's; and every liveness property:
fairness and `ENABLED` are outside what the installed provers support. Every safety
property of a passing run is the conclusion of a theorem. Facts by
induction over data are avoided: sums are kept in the records as they grow.

## Not modelled

* Sensors of the hardware layer: a read is a chain of checks with one status each,
  and nothing in the repository composes readings into a measurement.
* What a report says: tables, SVG scales and paths, wording; the catalogue's fixed
  scenario data; the plain simulator's command line, which runs the reference and
  prints it.
* Of the dashboard: static files, the list of scenarios, the drawing, and the status
  line, whose answers nothing reads.
* Build, CI and benchmarks.

The hazards without a property, with the reason of each, are in `PROJECT.json`.

## Plan

Every safety property of the runs is proved, and the liveness properties of runs,
requests and commands but for the fairness. What remains worth proving is a bound like
`StepsLeft` for a disposal and for a playback.
