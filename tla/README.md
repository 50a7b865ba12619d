# relay-node in TLA+

relay-node is the agent of a media relay. A manager hands it a signed *desired
state* (streams, destinations, limits). The agent configures MediaMTX
accordingly, decides who may publish, runs one FFmpeg per (stream, destination),
counts the traffic of the host and reports to the manager. An installer puts it on a
host, enrolls the host with the manager and opens the firewall under a rollback
timer.

This directory holds TLA+ modules for the parts of it that keep state, the TLC
configurations that check them on small instances, and TLAPS proofs of all safety
properties that the passing runs check, for every value of the constants. Source paths are
relative to the directory that holds the sources.

Check one instance with `tlc -config MCStateStore.cfg MCStateStore`, the proofs of one
module with `tlapm StateStoreProofs.tla`. `PROJECT.json` maps every definition to its lines, and
lists runs, mutants (small bugs that each property must catch), hazards and findings.

## 1. Inventory

| component | source | state it keeps | operations |
|---|---|---|---|
| signed desired-state store | `relay_agent/state_store.py` | state and envelope in memory, last error, the signed cache file | `load_cache`, `accept_remote`, `snapshot`, `status`, `mark_error` |
| desired-state validation | `relay_agent/models.py` | none | `from_payload`, `build_destination_url` |
| publisher admission | `relay_agent/http_server.py` | cap, ready paths, reservations with deadlines | `authorize`, `update_ready_paths`, `set_max_server_connections` |
| MediaMTX path reconciliation | `relay_agent/mediamtx.py` | names it manages, `managed-paths.json` | `reconcile` (get, add, patch, delete by HTTP) |
| worker supervisor | `relay_agent/worker.py` | registry key -> worker | `reconcile`, `stop_all` |
| destination worker | `relay_agent/worker.py` | thread, process, progress, backoff | `start`, `stop`, `_run`, `_consume_progress` |
| traffic accounting | `relay_agent/traffic.py` | monthly totals in memory and in a file | `sample`, `set_quota_bytes` |
| runtime loops and health | `relay_agent/service.py`, `telemetry.py` | health flag, last path list, applied revision | three loops, `start`, `stop`, `health` |
| telemetry figures | `relay_agent/telemetry.py` | byte samples per stream, last CPU and network counters | `collect` |
| agent HTTP server | `relay_agent/http_server.py` | none | a thread per request |
| enrollment | `scripts/bootstrap_client.py` | claim, token, signing key, identity | `enroll`, `load_identity`, `wait_until_active` |
| installer | `install.sh`, `scripts/*.sh` | backups, releases, `current` links, `/etc` | backup, staging, switch, containment |
| firewall with automatic rollback | `scripts/firewall_*.sh` | ufw rules, transient timer, marker file | apply, confirm, roll back |
| configuration, host checks, release tooling, systemd units | `config.py`, `preflight.sh`, ... | none | - |

**How they interact.** Four kinds of threads share one process. The *state loop*
fetches an envelope, has the store accept it, applies its limits to admission,
supervisor and traffic accounting, each under its own lock, and reconciles MediaMTX's
paths. The *path loop* lists MediaMTX's publishers, passes them to admission, stops and
starts workers and, every 30 seconds, reasserts the paths. The *telemetry loop* and the
*request threads* read from all of them. The main thread waits for a signal and stops
everything. No lock covers two components, so every composition is a sequence of
steps between which the others move.

**What is hard, and what makes each part correct**

- *Store.* The process can be killed, or the machine lose power, between writing the
  cache and publishing to readers, and between a rename and its fsync. Correct: readers
  never see an older or contradicting state, not even over restarts; what they saw can be
  loaded again.
- *Admission.* It sees requests and, seconds later, a list; publishers live in MediaMTX.
  Correct: never more than the cap are let in, no publisher is uncounted, no slot leaks while
  the path loop lives.
- *Paths.* Any call can be refused or have its answer lost, both loops call it, the operator
  uses the same name space, and a name can stay on record when no path has it any more.
  Correct: foreign configuration under a name on no record is untouched (under a recorded one
  it is not, section 6), own paths are known to be own, MediaMTX converges to the desired paths.
- *Supervisor.* Workers are stopped outside the lock, one by one and for seconds, while
  the main thread may stop all of them. Correct: one process per destination, workers
  match the state, removed workers end, shutdown ends.
- *Worker.* Two readers, a polling thread and `stop()` on one process. Correct: no
  false stall, no unlimited silence, paced restarts, a prompt stop.
- *Traffic.* Counters that restart at reboot, shrink with an interface, and a file that
  may not be written. Correct: no byte twice, no saved total taken back.
- *Runtime.* A report is put together under four locks while a new state is being
  applied. Correct: what it says belongs together; the loops keep doing their work.
- *Telemetry.* Bitrates are differences of counters that arrive late, start anew with every
  session and with every process. Correct: no byte in two rates, none left out while a session
  lasts, and no stale list called complete.
- *Validation.* What it accepts is served for hours by code that no longer looks. Correct:
  everything accepted can be served, and a worker is replaced exactly if its destination
  changed.
- *Enrollment and installer.* They can be killed anywhere and are run again, and the scripts
  that undo a failed run pass over commands that fail. Correct: one relay per host, whole
  credentials, whole releases, rules never left unconfirmed without a timer, a failed run
  without traces; the last two as far as the undoing has its effect.

## 2. Modules

| module | models | checked by |
|---|---|---|
| `Envelopes` | an envelope as far as the store compares it, validity, the order `AtLeast` | through `StateStore` |
| `AtomicFile` | `_atomic_secret_json`: visible content, durable content, temporary files | through `StateStore` |
| `DesiredStateRegister` | abstract: a register that only moves forward, with outages | refined by `StateStore` |
| `StateStore` | the store and the part of the state loop that feeds it | `MCStateStore`, proofs in `StateStoreProofs` |
| `Admission` | `AdmissionController`, MediaMTX's publishers | `MCAdmission`, proofs in `AdmissionProofs` |
| `PathReconciler` | `PathReconciler.reconcile`, its two callers, MediaMTX's path table | `MCPathReconciler`, `MCPathReconcilerCrash`, proofs in `StateLoopProofs` |
| `WorkerLife` | abstract: what a worker is to the supervisor, a thread that starts FFmpeg until it is told to stop | used by `WorkerSupervisor`, refined by `DestinationWorker` |
| `WorkerSupervisor` | `reconcile`, `stop_all`, shutdown, over workers that live a `WorkerLife` | `MCWorkerSupervisor`, proofs in `WorkerProofs` |
| `DestinationWorker` | one worker with time: stall, grace, backoff, reader, stop | `MCDestinationWorker`, proofs in `WorkerProofs` |
| `Traffic` | `TrafficAccountant` against kernel counters | `MCTraffic`, proofs in `TrafficProofs` |
| `Runtime` | the loops and `/healthz` over the components, lock by lock | `MCRuntime`, `MCRuntimeLost`, proofs in `RuntimeProofs` |
| `Telemetry` | the counter of one stream from MediaMTX over the path loop to the rate in a report | `MCTelemetry`, proofs in `TelemetryProofs` |
| `DesiredState` | operators: the checks and normalisations of `from_payload`, in their order | through `Generations` |
| `Generations` | payload after payload through `DesiredState`, and the workers made of the result | `MCGenerations`, proofs in `StateLoopProofs` |
| `Enrollment` | `enroll` with its files and the manager | through `Installer` |
| `Installer` | `install.sh` and its scripts; composes `Enrollment` by EXTENDS | `MCInstaller`, proofs in `InstallerProofs` |

Conventions. One variable per field of the code, with the field's name in its comment;
variables marked *external* belong to MediaMTX, the kernel, the manager or FFmpeg;
variables marked *history* are read by properties and never by guards. Operators
with a comment "Mutant" are the bugs `PROJECT.json` injects, used by no
specification. A specification is `Spec` (with fairness `FairSpec`) over `vars`; where one
module of proofs extends two components, the names of one say which it is (`ContentSpec` of
`Generations`, `WorkerSpec`, `WorkerFairSpec` and `WorkerTypeOK` of `DestinationWorker`).

**StateStore.** `Start` is `load_cache` in `Runtime.start`. `Fetch`, `Refuse`, `Replay`
and `CreateTemp` are the branches of `accept_remote`; `Acceptable` is its validation
and comparison. `CreateTemp`, `Rename`, `SyncDirectory` are the three effects of
`_atomic_secret_json`, `WriteFails` its exceptions, `CreateTempFails` its `O_EXCL`.
`Publish` assigns memory under the lock. `Kill` and `PowerLoss` hit at every step.
Fetched envelopes are arbitrary: authentic or not, old, expired, of the future. `trust`
records whether a promise across restarts can still be kept, see *Limits of the code*.

**Admission.** `CheckRequest` is `authorize` up to its last line, `Reserve`, `PassAgain`
and `Deny` the three outcomes of `_reserve_capacity` under the lock, `List` the answer
MediaMTX gives and `UpdateReadyPaths` the later use of it, so that every request can fall
between the two. Deadlines count down. `PathLoopEnds` is the end of the path loop's thread by an
exception it does not catch; only `Restart` brings it back.

**PathReconciler.** Each call to the Control API is a step: it succeeds, is refused with
`MediaMTXError` (`ApiRefused`, `MutationRejected`), or its answer is lost before or after
it took effect, which ends the calling thread (`ApiLost`). `SaveManaged` is the one write
of the registry. The two callers compete for the lock with arguments read before it.
`OperatorAdds` configures a path under any name that no path has, whether the agent's record,
in memory or on disk, holds it or not.

**WorkerSupervisor.** `Collect` and `Create` are the two locked halves of `reconcile`,
`StopWorker` and `Joined` the stops between them. `Life(s)` instantiates `WorkerLife` for the
worker in slot `s` and gives the moves of its thread and its FFmpeg: the supervisor knows
nothing of a worker that `DestinationWorker` is not shown to keep. `StopWorker` only sets the
event, because whether the signal that goes with it finds a process is a matter of the
instant. Worker objects occupy a bounded number of slots and are forgotten when they are
garbage.

**DestinationWorker.** Time is in ticks, and a tick passes only when nothing is due
(`Urgent`). Total size and media time are one number. `Reap` waits for the process and
`ReadersJoined` for its readers; `oldLine` is a progress report in the hands of a reader
that outlived the join. `PopenTakes` bounds what the code does not bound. `Spawned` and
`SetProcess` are the two halves of a start between which `stop()` does not see the process.
`Seen` maps the thread's nine places to the six of `WorkerLife` (instance `SeenLife`): a
delay and the top of the loop are `pausing`, everything from the end of polling to the next delay is `reaping`.

**Traffic.** One of the two directions. `SampleNotSaved` is a sample whose write
fails after memory changed. `sent` is what really was sent this month; `before` is what
the very first sample finds in the counter and cannot tell from this month's bytes.

**Runtime.** A limit is represented by the generation it came from. `ApplyNextLimit` sets
one place after the other in the order of `_apply_limits`; `ReadNext` collects one part of
a report or health answer after the other in the order of `ReadOrder`. A report has the quota
twice: `sampledQuota` is the one of its traffic figures, taken before everything else
(`service.py:171`, `traffic.py:154`). `ListLost` and
`ReconcileState("dead")` are exceptions that the loops do not catch.

**Telemetry.** One stream, with times. `Ask`, `MakeList` and `UsePaths` are the request, the
instant MediaMTX makes the list, and its use; `BeginReport` copies list and health under the
runtime lock and `Collect` makes the rate after the metrics request. A reading carries as
history which session its counter counts and how many bytes were received before it.

**DesiredState, Generations.** A value of a payload is as good as what its checks can tell:
a URL has a scheme and whether it is written in capitals, slashes at its end and a query; an
id is a UUID and whether it is written in capitals; `Malformed` is every value that is refused,
`Unreadable` every value on which a check raises something that is no `StateValidationError`.
`PayloadOk` and `PayloadRaises` keep the order of the checks, since the first one that fails
decides. `Reconcile` is one step here; its interleavings are `WorkerSupervisor`'s.

**Installer.** A step of `install.sh` and of each script it runs is one action. `Fail` can
follow every step and enters the containment of `on_exit` with what the shell variables hold
by then; `Kill` and `Reboot` can follow every step, of the containment too. A timer can
run out at any moment and its script has three steps. `Host` keeps what `/etc/ufw` says
(`etcUfw`: absent, disabled, or the rules of an enabled firewall) apart from the rules in force
(`ufw`); a host begins without `/etc/ufw`, with a disabled firewall or with an enabled one, and
`InstallPackages` makes a disabled `/etc/ufw` if the ufw package was not there. `Undo` lists the
steps of `rollback.sh` with what each leaves of the host; `RollBackHost` goes through it,
`RollBackHostInVain` is a step whose commands fail behind `|| true` and leave the host as it is,
or an enabled firewall off, `RollBackHostFails` ends the script where a command is not followed by
`|| true`, `OperatorRollsBack` begins it again by hand. `RollBackRules` has the same for
`firewall_rollback.sh`. `Finish` is `finished=true`: between the stop of the timer and it a
failure is still contained. An attempt's number
stands for the timestamps in file and unit names. `Enrollment` is one of its steps,
with the files and the manager's answers one by one.

## 3. Runs

Passing runs:

| run | instance | distinct states | shows |
|---|---|---|---|
| `MCStateStore` | 2 generations, 2 contents, instants 0..2, 2 PIDs | 532 k | `ServedIsOnDisk`, `StaysAvailable`, `NoRollback`, `NoRollbackInProcess`, and the refinement `ImplementsRegister` |
| `MCAdmission` | 2 paths, caps 1 and 2, reservations of 4 ticks | 662 k | `EveryPublisherCounted`, `NoOverAdmission`, `CountComesRight` |
| `MCPathReconciler` | 2 paths | 112 k | `OwnershipIsKnown`, `OperatorUntouched`, `Converges` |
| `MCWorkerSupervisor` | 1 destination, 2 configurations, 2 workers at a time | 32 k | `OneProcessWhileServing`, `FanOutMatches`, `StoppingEnds` |
| `MCDestinationWorker` | backoffs 1, 2, 3; stall 2, grace 1, joins 1, reset 4 | 121 k | `SilenceIsBounded`, `NoFalseStall`, `StopIsPrompt`, `RestartsArePaced`, and the refinement `ImplementsWorkerLife` |
| `MCTraffic` | 2 months, 2 boots, counters up to 4 | 68 k | `NoDoubleCounting`, `SteadyCountIsExact`, `TotalNeverShrinks` |
| `MCRuntime` | 1 path, generations 0..2 | 533 k | `ReportsAreConsistent`, `LoopsKeepUp` |
| `MCTelemetry` | 2 sessions, 3 bytes, every wait one tick | 747 k | `EveryByteInOneRate`, `CompleteIsCurrent` |
| `MCGenerations` | 2 generations, 2 streams, 2 destinations, every field varied | 6 k | `AcceptedCanBeServed`, `KeptIfAndOnlyIfSame` |
| `MCInstaller` | 2 attempts, 2 answers of the manager | 3150 k | `OneRelay`, `IdentityIsWhole`, `LinkIsComplete`, `SafetyNet`, `FailureLeavesNoTrace`, `ConfirmationHolds` |

Most runs also check the `TypeOK` of their module (`WorkerTypeOK`), which besides types says
which variables are set in which phase; those of `StateStore`, `Traffic` and `Telemetry` are
proved (section 5) and not checked again.

Runs that show a disagreement between the code and what it says of itself; each checks
one property, and TLC finds it violated:

| run | property | disagreement |
|---|---|---|
| `MCPathReconcilerCrash` | `NeverRefusesItsOwn` | the registry is written once, after every API call; a crash or a lost answer after `add_path` makes the agent refuse its own path for good, though the refusal is for "Existing production configuration" (`mediamtx.py:170`) |
| `MCRuntimeLost` | `CleanupHappens` | an answer lost while it is read is no `MediaMTXError` and ends the path loop; workers then outlive their publishers, against `service.py:141` |

**Why the bounds are enough.**
*Store*: two generations and two contents give every relation the order knows (newer,
same, equivocating, older); three instants and a tolerance of one give an expired, a valid and
a future envelope; two PIDs give a reused one and a fresh one. With the clock at 2 at most, an
authentic envelope is never refused for being issued in the future alone; the proofs, for every
clock, cover that case.
*Admission*: two publishers at a cap of one contend for the last slot, a cap falling from
two to one finds both in use; a reservation of four ticks outlives a connect and two
polls as twenty seconds do, and expires if the list is late.
*Paths*: with two paths one call fails while another is still to come, and the two
callers can want different sets.
*Supervisor*: everything it does is per key; `Create` waits for a vacant slot, so two
workers of one key at a time are what the hazards are about, and slots are used again.
*Worker*: the times keep the order of the real ones (grace < stall < reset); three delays
show the index moving, clamped and reset.
*Traffic*: a counter of four can be below, at and above its last value on either side of a
month and a boot.
*Telemetry*: a second session can overtake the counter of the first, stay below it, or come
and go between two lists; with one tick for every wait a list can reach its greatest age and
still be in use.
*Generations*: a field is checked by itself or against one other (duplicate ids, limits
against the generation, times against each other, URL against key), and each such pair takes
all its values; a second generation meets workers of the first.
*Runtime*: a report can meet two changes of the limits.
*Installer*: a second run meets what a failed or killed first one left, its timer
included, and is given another answer by the manager than the first. The
constraint `Explored` cuts histories off where something was `excused`, where three of the
invariants claim nothing and the others are about files no excuse concerns, and where
commands of both rollback scripts missed their aim; the proofs cover all of these.

Deadlock is checked except where the system really stops: `MCWorkerSupervisor` (the
process ends), `MCDestinationWorker` (a stopped worker ends), `MCInstaller` (all attempts used up),
`MCTelemetry` (all bytes sent and the path loop dead), `MCGenerations` (the state loop ended).

## 4. Fairness

| module | assumed | why the code justifies it |
|---|---|---|
| `Admission` | time passes, an answered connect succeeds or fails, the path loop applies a list, and MediaMTX answers lists again and again | while the path loop lives it polls every few seconds and goes on after a `MediaMTXError`; any other exception ends it (`PathLoopEnds`, on which there is no fairness), and `CountComesRight` has `<>[]polling` as its condition |
| `PathReconciler` | both loops come round; a call that stays possible succeeds some day | they wait on an event with a timeout; strong fairness because calls may fail any number of times in between |
| `WorkerSupervisor` | every thread runs on | all waits are timed: `wait(5)` then SIGKILL, `join(7)`, `join(10)`, HTTP timeouts |
| `DestinationWorker` | the thread runs, the current reader reads, time passes (strongly: reports of FFmpeg put a tick off again and again, and do not stop the clock) | all waits are timed; the reader of an earlier run has no fairness: it may be late for ever |
| `Runtime` | both loops go on with what they have begun; a list that can be had again and again is had; a MediaMTX that is down fails a list | as above. No fairness on the uncaught exceptions, on restarts, on what the manager sends or on the readers |

`WorkerLife!FairSpec` asks of a worker what `WorkerSupervisor` assumes of it, weak fairness
of its thread; it is written without ENABLED, so that `DestinationWorker` can be shown to
keep it. `StateStore`, `Traffic`, `Telemetry`, `Generations` and `Installer` state safety
only. `Converges`, `CountComesRight` and `LoopsKeepUp` name the conditions under which they
hold as part of the formula.

## 5. Proofs

`StateStoreProofs` proves, for every set of generations, contents and PIDs and every
clock bound and tolerance: `TypeCorrect`, `StoreInvariantHolds`, `AlwaysAvailable`
(`StaysAvailable`), `ServedSurvives` (`ServedIsOnDisk`), `NeverRollsBack`
(`NoRollback`), `NeverRollsBackInProcess` and `StoreImplementsRegister`
(`ImplementsRegister`, the refinement).

*Assumptions*: generations are naturals (`GenerationsAssumption`), instants and the
tolerance too (`TimeAssumption`), and `None` is no envelope (`NoneAssumption`).

*The argument.* Neither `NoRollback` nor `ServedIsOnDisk` is inductive: after a
restart the store serves what it finds on disk, so that the disk must never be behind what
was served, whichever of visible and durable content survives; and while a write is under
way the disk is ahead of memory. `StoreInvariant` therefore has six named parts.
`ReadersSeeMemory`: what memory holds is what was last served. `ServedIsOnDisk`: every
content that can survive the next fault is at least that. `DiskIsLoadable`: it passes the
validation of `load_cache` now. `HandIsNext`: the envelope being written passed the
comparison with memory, and still would at any later time. `WriteProgress`: what the file
holds after the rename and after the directory's fsync. `StaysAvailable`. All
but the types are conditional on `Trusted`. The parts are preserved action by action;
`AtLeastTransitive` carries the order from the envelope in hand over memory to what was
served, and is where an order that is not transitive would fail. `StepMovesForward`
gives the action property and, with the types, the step of the refinement.
`TrustIsNotRegained` keeps the condition monotone. `NeverRollsBackInProcess` needs less
(the types and the comparison for the envelope in hand) and no trust.

`TrafficProofs` proves, for every bound: `TrafficTypeCorrect`, `CountsNoByteTwice`
(`NoDoubleCounting`), `CountsEveryByteOfASteadyRun` (`SteadyCountIsExact`) and
`SavedTotalsOnlyGrow` (`TotalNeverShrinks`). A total that is right now says nothing of the
one after the next sample, which may come from memory or, after a restart, from the file.
`TrafficInv` therefore bounds, for both, the total *and what the next sample would add to
it* by what was sent and what the first sample finds (`LeavesRoom`); in a steady run it makes
the same sum exact (`SteadyIsExact`), and it keeps the file behind memory (`Lags`).
`SampleIsSound` shows that a sample made of any state that leaves room leaves room again, so
that it does not matter whether its write succeeds. Assumption: the bounds are naturals.

`TelemetryProofs` proves, for all times and bounds: `TelemetryTypeCorrect`, `OrderHolds`,
`RatesShareNoByte` (`EveryByteInOneRate`) and `CompleteReportsAreCurrent`
(`CompleteIsCurrent`). Between the report before and the one under way
there are up to four readings: the sample, the copy of the list, the list in use and the one
on its way. `Ordered` says of each pair that the later one `Follows` the earlier: nothing was
received backwards, and the counter rose by exactly what was received if the session is the
same, or is at most that if it is another. Readings move along the chain, MediaMTX's
counter is its end (`StepsOfMediaMTX`). For the second, `InTime` says at each line of the path
loop how old the list in use is at most, given what is left of the wait there. Assumptions:
times and bounds are positive, `None` is no reading.

`AdmissionProofs` proves, for every set of paths and every cap: `AdmissionTypeCorrect`,
`NoPublisherUncounted` (`EveryPublisherCounted`) and `CapIsNeverExceeded` (`NoOverAdmission`).
That a publisher is reserved or ready now does not say that it is when its reservation ends.
`Counted` therefore measures reservations against what is still to happen: one that connects
has more left than its connect and two polls can take (`ConnectingIsReserved`); one that is
online has what the list on its way, or the next one, still needs to be applied, or is ready
and on every list (`OnlineIsCounted`). Both hold while nothing was disturbed, which
does not come back (`DisturbedStays`). Assumptions: the times are naturals, caps are positive,
the set of paths is finite, and `ReservationOutlasts`: a reservation is longer than a connect
and two waits for a list. `PollWithin` and `ConnectWithin` are no constants of the code: the
one is from when on a list is late, which makes a history `disturbed`, the other is the time
MediaMTX takes at most until an admitted publisher is online. With 20 seconds
(`http_server.py:83`) and a poll every two (`config.py:112`) there is room for several seconds
in each; nothing in the code holds a slower MediaMTX to them.

`StateLoopProofs` is about what the state loop does with a generation. For every set of
payloads: `OnlyAcceptedIsUsed`, `AcceptedIsServable` (`AcceptedCanBeServed`, where
`KeysAreDistinct` is the place at which the two checks for duplicates and the lower case of ids
meet) and `KeptExactlyIfSame` (`KeptIfAndOnlyIfSame`). The last compares a worker, through
the fingerprint of what `from_payload` made for it, with the payload as the manager wrote it.
`ServingInv` ties each worker to the destination of the payload it serves and says since which
generation; `FingerprintsTell` says that fingerprints of two checked destinations are equal
exactly if the destinations are the same however written, from what each normalisation keeps
and forgets (`NormalIdsTell`, `NormalUrlsTell`). It assumes `PayloadsShaped`, that a
destination has the fields the models read; that is how payloads are represented, and TLC
evaluates it for the instance. For every set of paths: `ReconcilerTypeCorrect`,
`OwnershipStaysKnown` (`OwnershipIsKnown`), `OperatorIsLeftAlone` (`OperatorUntouched`, for names
on no record) and `RefusesItsOwnOnlyUnrecorded`. Between a call to MediaMTX and the save the record is behind, and
the reconcile acts on what it saw of a path before. `OwnershipInv` adds what is right about
the path in hand (`HandIsRecorded`) and about those left to delete (`StaleAreManaged`), which
hold because only the holder of the lock changes the record. The last theorem says
how narrow the disagreement found by `MCPathReconcilerCrash` is: it needs an addition that
never reached the record.

`WorkerProofs` has two parts. The supervisor, for every set of destinations, configurations and
worker objects: `SupervisorTypeCorrect`, `NeverTwoProcesses` (`OneProcessWhileServing`) and
`FanOutIsWhatWasWanted` (`FanOutMatches`). `SupervisorInv` says which phases of the two
threads go together, that a registered worker is current and not told to stop, that one
being stopped has left the registry and its key has no other as long as the path loop is at it,
and that while the agent serves nobody has lost sight of a worker that has not ended. The
moves of a worker enter by what `LifeMoves` says of `WorkerLife` and by nothing else.

One worker, for every list of delays and all times: `WorkerTypeCorrect` (`WorkerTypeOK`),
`SilenceStaysBounded` (`SilenceIsBounded`), `StallsAreReal` (`NoFalseStall`),
`RestartsStayPaced` (`RestartsArePaced`), `StopStaysPrompt` (`StopIsPrompt`) and
`WorkerMovesAsAWorker`. `CountsAgree` and `SilenceAgrees` tie what the worker counted and its
age of the last progress to what FFmpeg reported, up to the line in the pipe; `Paced` ties the
backoff index to the short runs in a row, which two branches advance at different lines; and
`StopInTime` bounds, by the line the thread is at, what stop() has taken so far together with
what is left to wait. `WorkerMovesAsAWorker` is the refinement step by step: every step of
`DestinationWorker` is one of `WorkerLife` or none, so that what the first part takes for
granted of workers is what the second shows of one. Assumptions: keys and slots are finite,
`None` is neither; the list of delays is not empty and has positive delays, times are naturals.
That such a list has a longest delay (`LongestDelayIs`) is an induction over its length, done
as the least counterexample of a well-founded order (`LeastNumber`).

`RuntimeProofs` proves, for any number of generations and every set of paths:
`RuntimeTypeCorrect` and `ReportsBelongTogether` (`ReportsAreConsistent`). `LimitsInOrder` says
that the limits in force descend along the order of `_apply_limits` and which of them are
those of the generation in memory at each line of it; `ReadsInOrder` which parts of a report
were read; `ReadsAreInForce` that a revision read before is in force still and not older than the
last reported. A limit read after the revision is then of the same generation or a later one. Of
the quota that a report reads before its revision all that holds, and is proved, is that it
is not older than the revision of the report before.

`InstallerProofs` proves, for any number of runs and of answers of the manager:
`HostIsOneRelay` (`OneRelay`), `IdentityStaysWhole` (`IdentityIsWhole`), `InstallerTypeCorrect`,
`LinksStayComplete` (`LinkIsComplete`), `RulesAlwaysComeBack` (`SafetyNet`),
`FailuresLeaveNoTrace` (`FailureLeavesNoTrace`) and `ConfirmationIsKept`
(`ConfirmationHolds`). `EnrollInv` needs only the steps of `Enrollment`, by
`InstallerEnrolls`. `InstallInv` has parts that hold always, since kills and reboots spare
files: the shell variables are set in the order they are needed (`VariablesInOrder`),
releases and their backups are whole (`LinksAreWhole`), timers of later runs are unused
(`TimersInOrder`), and there is no `/etc/ufw`, nor a copy of one, before the package is
installed (`PackageFirst`); and parts that hold until something is `excused`: a backup is the
host the run found (`BackupsAreFaithful`), the one live timer is this run's and stands before
every change of the rules (`TimerIsOurs`), `rollback.sh` restores one part of the host after the
other (`UndoneSoFar`), and a completed run keeps its rules (`RulesAreKept`). `SafetyNet` needs
more, since a run may begin on a host whose rules no longer come from any run it knows of:
`RulesComeBack` says that what the run found in `/etc/ufw` is confirmed, and that what is in force
and configured now is too (`Settled`) or a timer of this run will make it so. It holds
until a rollback missed its aim (`unrestored`, `silent`), which `ExcusedStays` says is never
forgotten. Assumptions: bounds are positive, `None` is no number, host or rules.

*Model-checked only.* All safety properties and action properties of the passing runs are
proved. Liveness stays with TLC, because fairness and ENABLED are out of the prover's reach:
`CountComesRight`, `Converges`, `StoppingEnds`, `LoopsKeepUp` and the fairness part of
`ImplementsWorkerLife` (that the thread does not rest). So do the two violations of section
3, which are single behaviours.

## 6. Limits of the code the models show

Behaviour found while modelling that contradicts no line of the repository, or is
stated as a condition of a property and has no run of its own:

- **Rollback after an unsynced rename.** A process killed between rename and directory
  fsync leaves a visible cache that is not durable; the next process serves it, and
  a power loss can take it back (`trust` goes `volatile`, then `lost`). The same
  happens when the clock is set back by more than the tolerance: the cache is refused as
  issued in the future, and an older generation is accepted.
- **A recorded name is taken over.** A name stays on record while no path has it: the save is
  skipped when a later call of the round fails (`mediamtx.py:171`, `:177`), and a restart of
  MediaMTX drops the agent's paths but not their names. If the operator then configures a path
  of that name, `mediamtx.py:164-168` patch it as the agent's own and `174-176` delete it,
  whatever the comment in line 170 says ("Existing production configuration is never silently
  taken over."). `OperatorAdds` allows it, `OperatorUntouched` and its theorem are about names
  on no record.
- **A dead loop is not noticed.** An OSError of the cache write (a temporary file left
  under the same PID is enough) ends the state loop for good; the process lives on with
  the state it has. A path loop that has ended never gives a ready slot back: publishers that
  have left go on counting against the cap until the agent is restarted.
- **More publishers than the cap.** A client that comes back to a counted path gets no
  new reservation; a list fetched earlier can then free its slot. After a restart
  of the agent the ready set is empty until the first list, while MediaMTX keeps
  its publishers. `disturbed` marks these histories.
- **A stale reassertion.** The path loop can wait for the lock with an older snapshot and
  delete paths the state loop has just added; the next round repairs it (`Converges`
  says infinitely often, not for ever).
- **Shutdown can raise.** `stop_all` can join a worker that is registered and not started:
  `RuntimeError` (`JoinRaises`). `StoppingEnds` counts it as an end.
- **Two FFmpegs during shutdown.** `stop_all` empties the registry before its workers are
  stopped, and the path loop is joined after that: a reconcile under way finds the keys
  missing and starts second workers for the same destinations. `OneProcessWhileServing`
  excuses the shutdown.
- **Payloads that end the state loop.** `urlsplit` raises a plain `ValueError` for a URL such
  as `rtmp://[x/` (`models.py:50`), an unhashable platform or schema version a `TypeError`
  (`models.py:111` and `:234`), an instant out of range in UTC an `OverflowError`
  (`models.py:42`). `service.py:123` catches none of them (`Escapes`), though `models.py:117`
  says that errors "reject the entire new generation".
- **A quota older than its revision.** A report takes the quota of its traffic figures before it
  reads the revision (`service.py:171` and `:175`): with a state applied in between it names
  the new revision beside the old quota, and the new quota among the applied limits.
- **A first rate too high.** A report from before the first list of a process notes a
  counter of zero (`telemetry.py:159`): the next one takes all that a running session ever
  received for bytes of one period. `EveryByteInOneRate` excuses such a sample.
- **Complete reports of a dead loop.** Once the path loop has ended, `_mediamtx_healthy` stays
  true: reports go on with the last list and call themselves complete.
- **A wall clock set back** over the end of a month makes `traffic.py:83` begin the old
  month anew and then the new one: both totals are lost. Months only go forward in `Traffic`.
- **A list in pages.** `mediamtx.py:81-96` puts a list together from several answers; a path
  that moves between two pages is missing. `List` and `MakeList` are one instant.
- **A late progress reader** counts a report of the run before in the next one
  (`misread`): a healthy FFmpeg whose count is below it is killed as stalled.
- **"no additional workers admitted"** is logged by `service.py:161` over capacity, but
  `worker.py:364` admits every ready publisher's workers.
- **A new boot adds its counters** (`traffic.py:107-108`) where the comment calls them "only
  a new baseline"; that is right for a saved total, bytes since the last sample before the
  reboot are lost. At a change of month bytes since the last sample are counted nowhere.
- **The rollback timer** can run out between the check and the stop of
  `firewall_confirm.sh`; one of a killed attempt can fire during or after a later
  one; a reboot forgets it while the rules stay. `excused` marks these histories. And
  `on_exit` stops it even if `firewall_rollback.sh` failed before it restored the rules
  (`unrestored`): the firewall is then off until a `rollback.sh` comes to its end. A signal
  between the stop of the timer and `finished=true` starts the containment without it.
- **Commands whose failure is passed over.** `rollback.sh` says `ROLLBACK_COMPLETE` also if its
  `systemctl` calls (lines 17, 58-60, 70) had no effect, and `firewall_rollback.sh` writes its
  marker also if `ufw disable` or the restart of `ufw.service` had none. `silent` and
  `unrestored` mark these histories; links and files are restored in them too, services and
  rules need not be.
- **A firewall that was disabled.** `rollback.sh` restarts `ufw.service`, which does nothing
  for a disabled configuration, and leaves the disabling to `firewall_rollback.sh`. Run by hand
  after a kill, without that script, it leaves the relay's rules in force until the timer's
  run, or until a reboot if that timer is gone.
- **A host without ufw.** `backup.sh:23-27` records that there is no `/etc/ufw`, the package makes
  it, and the containment removes it and leaves the package: `firewall_apply.sh:11` then
  refuses every later run until somebody restores it. A timer that is still live can put
  a disabled `/etc/ufw` back after that (`FailureLeavesNoTrace` allows it).
- **A torn binary.** `install(1)` copies the mediamtx binary in place
  (`install_runtime.sh:136`) and `rollback.sh` keeps releases: after a copy cut short,
  lines 129-133 refuse every later run until somebody removes the file. No link ever names
  it (`LinkIsComplete`).

## 7. Not modelled

The HMAC and the derived passphrases (an envelope is authentic or not); alphabets and
lengths in `models.py` (a value is refused or not); the bundle checks of enrollment (valid
or not); the FFmpeg command line and the classification of its messages; parsing of HTTP
requests; CPU, memory, network and SRT figures, which are arithmetic over values read in
one call; quota warnings and projections, which are computed from the totals and kept
nowhere; `config.py`, which reads the environment once and exits if it is wrong; host
checks, package checks and the release tooling, sequential scripts whose failure is the
installer's `Fail`; a failure of `firewall_rollback.sh` when the timer runs it, which is taken to
have its effect there; `sysctl` values and whether the units are enabled. They keep no
state or change none that the properties are about. MediaMTX, FFmpeg, systemd, ufw, the
manager and the operator are external: their actions are what the code relies on or
reacts to.

## 8. Plan

Done: every component that keeps state, the refinements of the store and of the worker, and
proofs of every safety property the passing runs check. Next, in this order:

1. *Prove.* What the temporal properties rest on and the prover reaches: the steps that a
   well-founded measure takes towards `StoppingEnds` and `Converges`.
2. *Model.* An abstract admission register (at most `cap` owners of slots) that `Admission`
   refines while undisturbed; a failing timer script.
