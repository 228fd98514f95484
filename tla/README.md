# Formal model of tpd

tpd launches a command in a disposable development container.  One invocation
is one process; processes of the same user share nothing but files (approval
state, lock files, sockets) and one container engine.  This directory models
what such processes do to each other, checks it with TLC on small instances and
proves the most important parts with TLAPS for any number of processes.

## 1. Inventory

| Component | State | Operations | Hard about it |
|---|---|---|---|
| Companion services (`internal/runtime/docker_services.go`) | one container, one flock file and one run dir with sockets per service; the `tpd.uses-service` label of main containers | `StartServices` (lock in name order, find, reuse, replace, create, probe), `Release`, `StopServices` (lock, count consumers, stop, remove) | processes interleave between any two engine calls; errors, SIGKILL and crashing daemons at each of them |
| Service network (`docker_network.go`) | the bridge `tpd-services`, who is attached | ensure, connect, disconnect | two launches create it at once; prune removes it |
| Launch sequence (`pkg/tpd/launch.go`) | locals of one process, deferred steps | resolve, approve, prepare, start services, create, connect, release, run, stop services | which deferred step still runs after which failure |
| Container session (`docker_run.go`) | container, raw terminal, hijacked stream, signal channel, suspend gate | start, pumps, forward signals with a grace period, suspend and resume, shutdown | five goroutines, two timeouts, one channel that is closed |
| Approval gate (`internal/approval`) | a state file and a non-blocking flock per profile | filter, decide, prompt, merge choices, reconcile, save | transaction over a prompt; fingerprints that change; kill in between |
| Tool installation (`internal/mise`) | cache volumes shared by containers | generated shell command | concurrent installs into one volume |
| Derived images (`docker_build.go`, `docker_prepare.go`) | image tags, a lock per tag | inspect, lock, inspect again, build | concurrent builds, failing streams |
| Prune (`internal/prune`) | none, reads the engine | list what is in use, remove the rest | checks, then removes, next to launches |
| Catalog loading (`internal/profile/catalog.go`) | the catalog being built | built-ins, user profiles, user fragments, names taken twice; strictly or tolerantly | one broken file among many, any order, two meanings of a name |
| Profile merge and provenance (`internal/profile`) | none (functions) | extends chain, merge, tombstones, origin of each key | origin decides what must be approved |
| Approval dialog and the screens of `tpd init` (`internal/approval/prompt.go`, `internal/scaffold`) | rows, marks, folders, filter, cursor, popup, window | every key, resize, late answers of the filter | copies of rows, hidden rows, offsets past the end |
| Scaffolding (`internal/scaffold/scaffold.go`, `merge.go`) | one profile file and a temporary one | pick, name, bases, look, ask, merge, validate, write | somebody else edits the file meanwhile; failures and kills in the write |
| Session bus proxy, spinner, ports (`pkg/tpd`) | a child process; a goroutine; listeners | start and wait, stop; assign | waits racing exits |
| Validation, doctor, command line, generators | none across calls | sequential | data, not control |

How they interact: the command line calls `LaunchWithWriter`, which resolves
the profile (catalog, merge, provenance), passes it through the approval gate,
builds a spec, prepares images, starts the bus proxy and the services, creates
and runs the main container, and unwinds its deferred steps.  Processes meet in
three places: the flock files, the engine's list of containers, and the state
files of the approval gate.

What makes each correct: services must be up for whoever uses them and go away
with the last user; a launch never works on a container that is not tpd's; no
lock wait depends on a user; a session always ends with its container removed
and its terminal restored; nothing untrusted reaches a container that was not
approved in exactly that form; installs and builds leave complete results;
prune removes nothing in use; provenance survives every merge; one broken file
hides nothing else; a screen answers what it shows; a profile file is never
torn, and nothing its user wrote is dropped unasked.

## 2. The modules

In the order of their importance, which is the order they were written in.

| Component modules | Instance | Theorems | Section |
|---|---|---|---|
| `SharedService` (contract), `ServiceLifecycle` | `MCServiceLifecycle` | `ServiceLifecycleProofs` | 3 |
| `ApprovalGate` | `MCApprovalGate` | `ApprovalGateProofs` | 4 |
| `Session` | `MCSession` | `SessionProofs` | 5 |
| `ProfileMerge`, `CatalogLoad`, `MergeReference` (what a result has to be) | `MCProfileMerge` | `ProfileMergeProofs` | 6 |
| `Resources`, `Prune` | `MCPrune` | `PruneProofs` | 7 |
| `ToolInstall` | `MCToolInstall` | `ToolInstallProofs` | 8 |
| `LaunchFrame` | itself | `LaunchFrameProofs` | 9 |
| `Dialog` (contract), `ListScreens`, `InitFlow` | `MCInitFlow` | `InitFlowProofs` | 10 |

Compositions: `Prune` runs beside the launches of `Resources`; `CatalogLoad`
loads what `ProfileMerge` resolves; `InitFlow` opens the screens of
`ListScreens` and goes on with what they answer.  Two contracts are refined:
`ServiceLifecycle` implements `SharedService`, and each screen implements
`Dialog`.  Elsewhere modules meet through what one promises another:
`ApprovalGate` takes for granted what `ProfileMerge` shows, that the "subset the
user wrote" is the values credited to a user entry or to nobody, and
`ServiceLifecycle` takes the session of `Session` as one step.

Every safety property of a passing run is proved. Liveness is only model-checked
(`LocksAreGranted`, `StopStepEnds`, `GateReturns`, `SessionEnds`,
`InputResumes`, `SignalEndsContainer`, `LaunchEnds`, `Ends`): fairness and
ENABLED are out of the prover's reach. For two of them the safety they rest on
is proved: no ring of launches that wait for each other's locks (section 3), and
a resolution that only ever goes on (section 6). The induction theorems of the
proof library take an operator as a parameter, which the installed provers
cannot instantiate; induction is done over sets (`LeastNat`, `SetInduction` in
`InitFlowProofs`, from the theorem that a well-founded relation has minimal
elements) or by the run itself, where the modelled code walks the data
(`ProfileMergeProofs`).

Next: port assignment and the containment checks on paths.

## 3. Companion services

### The model

`ServiceLifecycle.tla` has one action per engine or flock call.  `pc[l]` is the
call launch `l` makes next, `todo[l]` the services its current loop (start or
stop) still has to handle; `Cur(l)`, the first of them, is the one in hand,
because both loops go in sorted name order.

| Model | Code |
|---|---|
| `Begin`, `EnsureNetwork` | `LaunchWithWriter` up to `StartServices`, `ensureServiceNetwork` |
| `LockService`, `FindService`, `RemoveStraggler`, `ReuseService`, `StopStale`, `RemoveStale` | `acquireServiceLock`, `startService` |
| `PrepareService`, `CreateService`, `StartService`, `Probe`, `AttachService`, `CleanupService`, `StartFails` | `createService` and what its errors do |
| `CreateMain(Fails)`, `ConnectMain`, `ReleaseLocks`, `Abort` | `LaunchWithWriter` after `StartServices` |
| `StartMain(Fails)`, `SessionReturns`, `SessionInterrupted`, `RemoveMain` | `RunContainer`, as far as services see it |
| `LockStop(Fails)`, `BudgetExpires`, `CheckConsumers`, `FindStop`, `StopService`, `RemoveService`, `RemoveRunDir`, `StopFails` | the deferred `StopServices` and `stopService` |
| `MainExits`, `DaemonListens`, `DaemonExits`, `Kill` | engine, daemons, kernel |

State of the surroundings: `state`, `hash`, `attached` describe the container
that has the service's name (`foreign`: without tpd's labels); `socket[s]` is
`live` while a daemon listens on it and `dead` when only the file is left;
`linked[l]` are the services whose listening socket is the one mounted in the
main container of `l`, because a bind mount keeps the inode it was made with.

`Init` is what earlier, possibly killed, tpd processes may have left.

Abstractions: a failing engine call has no effect; the waits of a probe and of
a grace period are a choice of outcome; the release of several locks is one
step; a launch has one main container and at least one service; a service
exposes one socket and its consumers mount it; all launches use one workspace
mode; the network exists once it has been ensured; the assembly of mounts,
files and environment of a service container is left out.

### The contract

`SharedService.tla` says what README.md promises under "Companion services":
a client joins only when all it needs is up, and a service goes down, to be
replaced or for good, only when no client needs it.  `ImplementsSharedService`
maps running service containers to `up` and created or running main containers
to `using`.  It holds for launches that agree on the definitions and while
daemons do not crash.  Without these premises it is false, as the code intends:
a changed definition replaces a service under its users.

### Properties

- `StopDecisionStands`: between the count of zero consumers and the removal of
  the container no consumer appears.
- `ForeignUntouched`: a container with only the name of a service is never
  stopped, removed, replaced or connected.
- `ConsumersAreServed`, `MountsStayLive`: what a running main container
  declared runs, is on the network, has the wanted definition, and its mounted
  socket stays the live one, whatever other launches start, fail, stop or die.
- `ServicesHaveKeepers`: unless calls fail, launches are killed or stop budgets
  run out, every service container has a launch
  that will still consider stopping it, so none is left behind.
- `LocksAreGranted`, `StopStepEnds`: waiting for a lock ends though nobody has
  to end a session; stop steps end.

### Runs

| Run | Instance | Shows |
|---|---|---|
| `lifecycle_faults` | 2 launches, 2 services, one shared; engine errors, kills, expired stop budgets | `StopDecisionStands`, `ForeignUntouched`, `ConsumersAreServed`, `MountsStayLive`, `ImplementsSharedService` |
| `lifecycle_fair` | 2 launches, 2 shared services, one with two definitions, crashing daemons, fairness | `ServicesHaveKeepers`, `LocksAreGranted`, `StopStepEnds` |
| `lifecycle_budget` | 2 launches, 2 services, stop budget expires | a counterexample to `ServicesHaveKeepers` |

Why the bounds are enough: the interactions are between pairs (a stop step and
a launch, a replacement and a consumer), two services are what lock order and a
loop with something left need, and each process takes every error path of the
code.  A launch runs once; a later tpd is the second launch, and what an
unlimited past can leave is in `Init`.  No counter needs a bound.  For more
launches and services there are the proofs.

Fairness is `WF_vars(Step(l))` for each process: a process that can take a
step takes one.  That is the operating system's scheduling and the engine
answering its calls.  Weak fairness is enough for locks because a launch takes
each flock a bounded number of times.  Nothing obliges a session to end, a
launch to start, or a daemon to listen.

### What the code does otherwise

- `lifecycle_budget`.  The 30 s of the stop step (`launch.go:268`) pass while
  it waits for a flock, which ignores them.  All engine calls then fail, for
  this service and those after it, and services only this launch declared
  keep running.
- README.md:233 calls the replacement of a service under live consumers "a brief
  outage"; `OutageIsBrief` (in no run; TLC refutes it as an invariant of
  `lifecycle_fair`) says that a running consumer
  is connected to the service once it listens again and no launch works on it.
  It is not: its bind mount keeps the old socket file.  `MountsStayLive` has the
  premise that definitions agree, so this case is outside it.

### Proofs

`ServiceLifecycleProofs.tla`, from the named assumptions of `ServiceLifecycle`
(service names are integers of which every non-empty set has a least; each
launch declares some services; `NoOne` is no launch).

`StopDecisionStands` is not inductive: that no consumer appears follows from
who holds which flock.  `IInv` adds

- `LoopInv`: a loop has something left, and only declared services;
- `LockInv`: whoever works on a service holds its flock, a launch keeps the
  flocks of the services it has started, and has all of them while it creates
  its main container;
- `MainInv`: from creation to start the main container exists, so it comes up
  only by `CreateMain`;
- `StopInv`: the property.

The argument: a consumer can only come up in a launch at `createMain`; that
launch holds the flock of every service it needs; a stop step past its count
holds the flock of the one it is about to remove; so they are different
services.  `Untouched(m)` says what a step of one launch leaves alone of
another, so each step is examined once for the launch that takes it and once
for all others.

`ForeignSafe` adds `ForeignInv`: whoever is past the look at the labels has
seen tpd's own, and no step turns a container into a foreign one.

`ConsumersAreServed` and `MountsStayLive` have their premise in the formula: the
profiles agree on the definition of a shared service and no daemon exits by
itself.  Engine errors, kills and expired budgets are allowed.  They need
`ServedInv`:

- `ClaimInv`: from the moment a launch has started or found a service until its
  main container has exited the service runs as the launch wants it and is on
  the network;
- `RenewInv`: while a launch replaces a service, no container that is up uses it;
- `StageInv`: what `startService` has established at each of its calls;
- `MountInv`: a container mounts sockets of services it declared.

The argument: a step changes a service only in a launch that replaces or stops
it (`OnlyItsOwn`, `OthersLeave`).  Such a launch has its flock, so no other
launch is between finding it and creating its main container; and it has seen
that no container that is up uses it.

`ContractIsKept` assumes the same premise, and shows that the initial states are
those of `SharedService` and that each step is one of its steps or a stutter.

`KeepersRemain` assumes no fault but crashing daemons, and that some launch declares
each service, definitions being free to differ.  `UpInv`: a main container is up
only while its launch has its stop step ahead.  `GoneInv`: who removes the run
directory has removed the container.  So a launch leaves a service either
without container or having counted a launch that will still consider it.  With
an expired budget it is false, which `lifecycle_budget` shows.

`LocksDoNotLeak`, `NobodyWaitsInRing` and `WaitersWaitForWork` are about the
flocks themselves, under every fault.  `LockInv` says which locks a launch has at
least; `HeldInv` says that it has no others, so none is left in a session, at the
wait for a stop step, after an error or a kill.  Only while a failed start
releases them ("abort") it may have fewer than all.  `Sorted`: what a launch has
started comes before what it has left to start.  So a launch that waits holds
only locks before the one it waits for (`HeldBeforeWaited`), and of any finite
set of launches that wait the one that waits for the last service (`LastToWait`)
waits for a launch outside the set.  Hence while anybody waits, and there are
finitely many launches, some launch is in the middle of its start or its stop
step, not in its session, and does not wait itself.

Only model-checked: liveness.  That such a launch goes on, and so every lock is
granted (`LocksAreGranted`), takes fairness.

## 4. Approval gate

### The model

`ApprovalGate.tla` is the gate of `LaunchWithWriter` for several processes that
launch one profile again and again while its definition changes.

| Model | Code |
|---|---|
| `Begin` | `LaunchWithWriter` up to the gate: flags, terminal, and the definition resolved before the lock is taken |
| `TakeLock`, `Leave` | `WithLock`, or nothing for a dry run |
| `Hash`, `Untrusted`, `Rendered` | `ComputeApprovalHash` |
| `Render` | what its entries contain; `renderServiceDefinition` for a service |
| `Reconcile`, `WriteBack` | `reconcileState`, `reconcileKeys`; the save in `Filter`, which `ReadOnlyStore` drops |
| `Undecided`, `Asked`, `Kept`, `Cascade`, `Pass` | `decide`, the `apply...Field` functions, `cascadeDependentMounts`, the result of `Filter` |
| `Filter` | the first `Filter` and who answers what it asks |
| `StartChecked`, `PressKey`, `Enter` | `newApprovalModel`, `approvalModel.Update`, `buildChoices` |
| `LoadPrior`, `Merge`, `SaveChoices` | the second load, `mergeChoicesIntoState`, `FSStore.Save` or `EphemeralStore` |
| `FilterAgain` | the second `Filter`, whose questions are dropped |
| `GiveUp` | an error of load or save, `esc`, death of the process |

A grant is a record of field, key, value and `rest`; a profile a set of grants
with the subset the user wrote.  A fingerprint is the set of what is not the
user's own, without `rest`: what `renderServiceDefinition` leaves out of a
service (image, packages, repos, files, command, caches, labels) may change
under an answer, which is by design
(`docs/superpowers/specs/2026-08-05-approval-system-design.md:46-52`).  The 48
bits of SHA-256 the code keeps are taken to be injective.  A state file
is a fingerprint, the set of fields that were decided (in the file: the keys
that are present, an empty list meaning that all was denied) and the approved
slots; the scalar `network` is a slot whose key is empty.  `answered` is history.

Abstractions: one profile name, as files and locks are per profile; a failing
load or save has no effect, which the rename in `Save` gives; the dialog is its
set of checked rows; a corrupt or symlinked state file is a failing load.

### Properties

- `FileSaysTheAnswer`: for its fingerprint the file decides everything, exactly
  as last answered, whatever merges, write-backs and deaths came in between.
- `Consent`: what a launch goes on with is what the user wrote and what was
  approved for exactly these grants as they are rendered (with the image and the
  rest they have now), minus mounts of denied services.  It says
  at once that nothing is approved by an answer to something else, that the
  second `Filter` may drop its questions, and that nothing approved is lost.
- `DecidedOnce`: an answer is never replaced by another for the same
  fingerprint.
- `WritesUnderLock` (proved, in no run): only the holder of the lock writes,
  and no dry run.
- `GateReturns`: a launch that needs nobody's answer does not wait for one.

### Run

`gate` checks the four others with two processes, each with a dialog, `--yes`, a
dry run without questions or no terminal, three definitions and fairness.  The
definitions are a service of the catalog whose socket the user mounts himself;
the same with another image, which the fingerprint does not show; and the
service after an update that changes its value, without the mount and with a
benign variable.  Processes launch without end, so every sequence of
them occurs.  Two processes are the most that meet: one has the lock, or none.

Fairness is `WF_vars(Step(l))`: a process in the gate goes on.  It says nothing
of launching, of keys, or of `enter`: a dialog may stay open for good.

`OnlyPriorPreselected` (in no run; TLC refutes it with the constants of `gate`)
states the comment on `PriorApproved` (`approval.go:16-18`), that rows not approved
before start unchecked: benign ones start checked, even when they were denied
before.

### Proofs

`ApprovalGateProofs.tla`, for any launches, grants, definitions and flags.  Its
assumptions: a profile has one grant per slot, and the sentinels are neither
grants nor launches.  `GateInv` adds to `TypeOK`

- `HeldInv`: a launch inside a transaction that is not dry holds the lock;
- `AnswerInv`: the file says exactly the last answer;
- `OwnInv(l)`: what is asked is all that the fingerprint covers, it is asked
  only while the fingerprint on file is another one, and after saving the state
  `l` filters with says what it answered.

The argument: a state of the same fingerprint that decides all of it leaves
nothing to ask (`Decided`); any other state leaves everything to ask
(`Undecideds`); a complete answer, merged, decides all of it (`Merged`); and
reconciling touches no decision about what is asked (`Reconciled`).  Between
load and save nobody else writes, because of the lock.  `GateReturns` is only
model-checked.

## 5. Container session

### The model

`Session.tla` is one call of `RunContainer`.  `pc` has a label for each of its
goroutines: `main`, the signal `handler`, the `stopper` (SIGTSTP) and `keys`
(the pump of the keyboard, whose Ctrl+Z suspends too).  The goroutines that
wait for a grace period are counted (`graces`, then `attempts` once they are
about to remove), because they do not differ; the output pump is the variable
`out`.

| Model | Code |
|---|---|
| `SetRaw`, `Attach`, `Start`, `WaitReturns`, `Drain` | `RunContainer` in order |
| `CloseConn`, `ShutDown`, `CloseChannels`, `JoinHandlers`, `JoinFallbacks`, `PassGate`, `RestoreTerminal`, `Remove` | its deferred calls, last in first out |
| `Signal`, `TakeSignal`, `CheckSignal`, `Forward`, `HandlerEnds` | `sigCh` with room for one, the goroutine that ranges over it |
| `GraceOver`, `GraceCalledOff`, `FallBack`, `Cleanup` | `forwardSignalThenFallback`, `cleanupOnce` (which succeeds once, not runs once) |
| `StopSignal`, `TakeStop`, `CheckStop`, `StopperEnds` | `stopCh` and its goroutine |
| `Enter` to `ReleaseGate` | `suspend`, with `pauseInput`, `suspendSession` and `resumeInput` between |
| `ReadKeys`, `TakeChannel`, `WaitForInput`, `WriteKeys`, `KeysEnd` | the keyboard pump, `waitForInput`, `writeConn` |
| `AppExits`, `AppWrites`, `OutputEnds`, `OutputFails`, `Continue` | container, output pump (which may fail while the application runs), shell |

`frozen` is the process stopped as a whole: by SIGSTOP in a suspension, or by
SIGTTIN when it asks for a terminal the shell has given to somebody else.
`Runs(g, p)` therefore says that nothing of tpd moves while it is frozen.

Abstractions: what an `exec` in the container answers is only logged by the
code, so `StopApp` and `ContinueApp` have no outcome; a failing ioctl on the
terminal and SIGWINCH are left out; the retry loop on EAGAIN is staying at
`read`; of what is read only Ctrl+Z matters.

### Properties

- `TerminalMode`: the shell has a cooked terminal whenever tpd is stopped and
  once it has finished, for good; otherwise a running session has it raw.
- `QuietAfterShutdown`: past the shutdown only the main goroutine acts: nobody
  signals, removes, suspends or changes the terminal behind it.
- `NoOrphan`: a session that returns has removed its container, or has tried
  again itself, whatever a fallback's removal met.
- `InputWaits`: what is typed during a suspension waits for its end.
- `SessionEnds`, `InputResumes`, `SignalEndsContainer`: shutdown,
  suspension and signal come to their ends.

### Runs

`session` checks them with one signal besides any number of SIGTSTPs and Ctrl+Zs; every removal and both pumps may fail, the application may
stay silent or ignore signals, the shell may continue tpd in the foreground or in
the background.  One signal (`MaxSignals`) brings the handler, the grace period,
the fallback and its removal next to the shutdown and to suspensions.  A second
one adds a fallback of the same kind; the safety properties are proved for any
number of signals, and TLC confirms all seven for two in four minutes.

Fairness is weak fairness of each goroutine, and of the end of the output pump
once the container does not run; nothing obliges the pump to fail.  Nothing obliges the application to exit or to
write, a user to type, or the shell to continue tpd; so the liveness properties
say "or tpd is stopped".

### Proofs

`SessionProofs.tla`, from `MaxSignals \in Nat` and `Nobody` being no goroutine.
`SessionInv` adds to the types

- `GateInv`: exactly the owner of the gate is inside a suspension;
- `BeginInv`: what has not been started yet does nothing;
- `TermInv`: with a terminal, it is cooked exactly where the owner of the gate
  has given it away, and tpd is stopped only there;
- `EndInv`: what the shutdown has waited for does not begin again;
- `CountInv`, `InputInv`: each fallback has a signal of its own; text read
  since the pause is in hand before the wait or at a wait that is not over.

The argument: a helper changes the terminal only with the gate, so there is
one at a time; the main goroutine passes the gate after `shuttingDown` is set,
so whoever takes it afterwards sees the flag at its second look and leaves
everything alone.  The five safety properties follow; liveness is only
model-checked.

## 6. Loading, resolution and merge of profiles

### The model

`CatalogLoad.tla` loads a catalog: the built-in files, the user's profiles file
by file in any order, the user's fragments, and the names that are then a
profile's and a fragment's at once.  A launch loads strictly, and the first
thing wrong ends it; prune and completion load tolerantly and leave it out.
In what was loaded one profile is resolved by `ProfileMerge.tla`.  The recursion
of `resolveChain` is a stack of frames, a frame holding the entry, the index of
the loop over its `extends`, the set `resolved` and the profile `merged` so far;
`chain` is what `chainState` collects.

| Model | Code |
|---|---|
| `LoadBuiltins` | `loadBuiltinsFrom`, `loadBuiltinFragmentsFrom` |
| `LoadUserProfile`, `ProfilesLoaded`, `LoadUserFragment` | `loadUserDir`, `loadUserFragments` and their tolerant twins, one file a step |
| `LeaveOut` | an error, or a warning of the tolerant ones |
| `NoFragment` | `validateFragmentName`; a file that cannot be used is `Faulty` |
| `CrossTypeDisplayNameCollisions`, `FragmentsLoaded` | the same name in the code; the end of `loadCatalog(Tolerant)` |
| `Lookup`, `Validate` | `ResolveProfileWithProv` |
| `Cycle`, `Leaf`, `Refuse`, `Descend`, `Missing`, `Skip`, `Call`, `MergeParent`, `MergeBody` | the branches of `resolveChain` |
| `Merge`, `MergeScalar(Prov)`, `MergeMap`, `MergeProvMap`, `MergePackages`, `MergePackageProv` | `MergeProfiles` and its helpers |
| `InitProvenance`, `ResolveRef`, `Nulls` | `initProvenance`, `Catalog.ResolveRef`, `collectNullKeys` |

A value is the entry whose file wrote it.  So "credited to who wrote it" is
`scalarsBy = scalars`, and the entry with no name, as which an intermediate
result is credited and which counts as trusted, is `Nobody`.  `Scalars` stands
for image, command, network, tty, memory and cpus; `MapFields` for repos,
files, mounts, environment, tools, caches, labels, ports, devices, services
and the two lists of dbus.

Abstractions of loading: why a file is faulty (unreadable, no YAML, a bad or
reserved name, a directory that cannot be read); built-in files are sound,
being those of the build; names have one level, so a folder of the catalog is
part of a name.  Of resolving: the order of the package list; validation apart from required
fields; the difference between no dbus section and an empty one; an empty
command list, which is no command.  `ResolveFragment` is the same without the
validation.

### Properties

- `MeetsReference`: the result is what the catalog defines, value by value.
  The reference, `MergeReference.tla`, goes from the datum (a scalar, a key of a
  map, a package) to its writer instead of walking: the entry itself, or the
  last parent with a say; for packages, the first giver after the last clearing.
- `ChainInOrder`: the chain for display lists every entry that is reached, once,
  in the order of a depth-first walk.  The order is defined place by place: what
  comes after the first n entries is the first parent not yet listed of the last
  of them that has such a parent (`FollowsWalk`).
- `CreditsAreRight`: everything a call returns is credited to the entry that
  wrote it and nothing else is credited.
- `RefusedForCause`: a profile is refused exactly if it reaches a cycle, a
  missing entry or a profile under a fragment, or lacks a required field.
- `LoadsWhatIsSound`: a strict load is refused exactly when a tolerant one would
  leave something out; otherwise the catalog is every sound file under its name
  but fragments whose name is a profile's, whatever the order of the files.  So
  one broken file hides nothing else from prune.
- `PathIsSimple` (proved): the recursion is bounded.
- `WalkGoesOn` (proved): each step takes the walk to a later position.
- `Ends`: loading and resolving come to an end, whatever the files.

### Runs

`merge` checks them on three families of directories.  `Families` and `Loners`
are free of errors: four names of which `a` is the user's, `d` may be shadowed,
and the `extends` lists make self-references, cycles, holes, diamonds, repeated
parents and fragments over profiles; each file says nothing, declares, deletes a
key or deletes a field.  `DirtyLoads` has, in both modes, every choice of sound
and faulty files under taken and free names in the user's two directories.  One
field of each kind with one key is enough, as fields and keys do not interact;
four files are what a diamond needs, which is where merge order shows; two files
in a directory are what an order of files needs, and there are up to three.
Resolving is deterministic, so most of the 510 144 states are as many steps.

`merge_once` finds a counterexample to `MergedOnce`.  The design document of
multiple extends says that an entry reached twice, "directly or via nested
extends", is merged once and its first resolution wins
(`2026-07-31-multi-extends-fragments-design.md:50-52`).  The code skips
repetitions within one list only, so a shared ancestor is merged again for the
second parent and overrides what the first has changed of it.  `MergedOnce` says
that no value of an entry loses to one of its own ancestors; `MeetsReference`
says what the code does instead.

Not counted as a finding: a tolerant load drops a fragment whose name is taken,
so a profile that extends it by its qualified name no longer resolves in that
catalog, although the comment (`catalog.go:290`) calls the kept profiles
launchable; a launch, which loads strictly, is refused altogether.

Fairness is weak fairness of the only process: it goes on.

### Proofs

`ProfileMergeProofs.tla`, for any catalogs, fields, keys and depth, from the
named assumptions (directories map names to files; `Nobody` is no entry).
`LoadIsSound` is an induction over the files read: `ProgressInv` says that at
each point the catalog is the sound files read so far (`Contents`), and that a
strict load has met none to leave out.

`CreditsAreRight` is not inductive, as frames hold partial results: `MergeInv`
says that these are credited as well.  The argument: credits are merged by the
rules values are merged by (`ProvFollowsMap`, `ProvFollowsPackages`,
`ProvFollowsScalar`), provided that the child is credited or is the body of a
file, all of whose values have its own name (`MergeCredited`); the only things
ever merged are results of calls and bodies (`GetIsBody`).

`MeetsReference` and `RefusedForCause` need to know that the reference's
recursion over the catalog makes sense, which is not assumed: a catalog may have
cycles.  `Settled` says it of an entry: it is `Resolvable`, and the equations
for who wrote what in the entries it reaches have one solution.  An entry whose
parents are all settled, and that fits and does not reach itself, is settled
(`SettledFromParents`); a leaf is.  `resolveChain` returns for settled entries
only, so its walk is the induction.  `ResolveInv` says

- of each frame (`LineInv`, `FrameIs`): its entry leads to the entry of the next; the
  parents before its index are settled; `resolved` is what they are; and every
  value of `merged` is what these parents give by the reference (`Inherited`
  over the turns so far, and in the end `Written`);
- of a return: the entry is settled and every value is its `Writer`'s;

so when a call fails, the path on the stack leads to the entry that closes a
cycle, is missing or does not fit (`FailureHasCause`).

`ValueOfMerge` gives what `MergeProfiles` does to one value, `InheritedOneMore`
what one more parent does to the reference; that they agree is the step of
`MergeParent`.

`ChainInOrder` is about the whole list, while the code only sees whether an entry
is on it.  `WalkInv` says in between that an entry of the list that has parents
not yet listed is on the stack, that frames are in the order of the list, and
that what a frame has done with is listed.  So the last entry with such parents
is the frame in hand, and what it calls for next is the first of them
(`NextFollowsWalk`); when the stack is empty no such entry is left, and the list
is closed under parents (`WalkIsWhole`).

That the recursion ends is proved in three parts.  `Position` reads off the stack
which parent each call is at, and whether it looks at it, waits for it or has it.
Every step takes it to a position that is later in lexicographic order
(`EachStepGoesOn`).  In a catalog of D entries that extend at most B others it has
D + 1 digits of at most 3B + 5 (`WalkIsBounded`), because a simple path is no
longer than the catalog.  And no infinite sequence of such positions gets later
forever (`NoEndlessWalk`): from the first digit on, each comes to stay.

Only model-checked: `Ends`, which puts these together under fairness, and which
covers loading as well.

## 7. Image preparation and prune

### The model

`Resources.tla` is `Prepare` and what follows it up to the session, one action
per engine or flock call: pull, base image, cache volumes, the helper container
that makes their directories while the derived image is looked for, locked,
looked for again and built, the network of the services, the main container.
`Prune.tla` adds one `tpd prune`: what the catalog uses, the three listings, the
containers, the question, and for each candidate another look and the removal.

| Model | Code |
|---|---|
| `BaseExists`, `Pull`, `ResolveBase`, `EnsureVolume`, `Fork`, `Join`, `Drain` | `Prepare`, `ensureImagePulled` |
| `CreateHelper`, `RunHelper`, `RemoveHelper`, `HelperFails` | `ensureCacheSubpaths` |
| `LookUp`, `LockTag`, `LookAgain`, `Build`, `ImageFails` | `ensureDerivedImage`, `lockDerivedTag`, `buildDerivedImage` |
| `InspectNetwork`, `CreateNetwork`, `ReinspectNetwork` | `ensureServiceNetwork` |
| `AttachService`, `CreateMain`, `ConnectMain`, `StartMain`, `MainExits`, `RemoveMain` | the launch, as far as its resources see it |
| `Load`, `InspectBase` | `computeUsed` |
| `ListVolumes` ... `Confirm` | `run` up to the question |
| `RecheckX`, `RemoveX` | the three loops of `run` |

The engine is modelled from how the code uses it, as Docker behaves: creating a
container creates missing volumes, empty and without tpd's label; a subpath
that is missing cannot be mounted; a container refers to its volumes in any
state and to its image while it runs, whatever force a removal asks for; a
network with running members stays.  `Edit` is the user, who changes or deletes
one profile; that, and a pull that replaces the base image, is `changed`.

Abstractions: all profiles have one base image, and derived images of services
are not told from those of profiles; launches and prune see one catalog (a caller of
the library may set `ProfileDir`, `launch.go:69`, while prune reads the default
directory, `prune.go:373`: then the profile counts as one prune does not have);
a launch has one service, always started (services are section 3); a tag has one content; a helper that fails is removed
in the same step; SIGKILL is left out; one prune.

### Properties

- `LaunchUnharmed`: a launch misses an image or a directory it has prepared
  only if something was changed or prune had `--all`.  It fails if a base image
  that is not there yet defers nothing: a launch may pull it meanwhile.
- `DefaultKeepsOwned`: without `--all` nothing is removed that belongs to a
  profile the user still has, readable or not (images: that resolves).
- `ActiveSpared`: what a container uses that was there at the user's yes is not
  removed while it is created or runs, with `--all` neither.
- `NoRebuild`, `LockHasBuilder`: a derived image is built by one launch at a
  time and only while it is missing; no way out of a build keeps its lock.
- `NetworkShared`: a launch is left without network only by a prune of networks.

### Run

`prune` has two launches of one packaged profile with a cache and a service,
and a second profile that only has the same cache and may be unreadable or
deleted; prune is called without flags, with `--all` or with `--images
--networks`.  Two launches are what a lock and a race for a name need.  One base
content is enough for the pull race, which is about a base that is missing; the
launches are interchangeable, hence the symmetry.  The engine starts with or
without the volume, the image and the base, and without a network.

The model makes some limits of the code visible that are not counted as
findings.  An unreadable profile defers volumes but not images
(`prune.go:376`, `:390`), so its derived image is removed and built again by its
next launch.  An image whose container is created between the second look and
the removal loses its tag.  `--all` may remove a volume between
the helper and the creation of the container, which then fails to start.

### Proofs

`PruneProofs.tla`, for any launches, profiles, volumes, base contents and
commands.  `BuildInv`: who is at the build has the lock of its tag and, past the
second look, its image is missing; who has a lock is at the build.  The two
together make the builder of a tag unique, so a build by another launch cannot
add it.  `SpareInv`: a container is live exactly from the creation to the end of
the session, a launch `before` mentions never creates another, and what prune
has in hand is outside what live containers of `before` use; the second look
establishes the last part, since `LiveContainer` counts what is created.

`TypeInv` adds to the types what prune's lists can contain at each of its steps
(`Scoped`) and that a helper has its volumes (`Mounted`).

`DefaultKeepsOwned` needs `KeptInv`: while nothing is changed and `--all` is not
given, `kept` has every volume of a profile that is there, and the image of every
packaged profile that resolves or whose base is still to be inspected, unless a
missing base defers all images (`CatalogKept`); and what prune is about to remove
is not in `kept` (`CandidatesUnkept`).

`LaunchUnharmed` needs `ReadyInv`: under the same conditions a launch has what
its calls so far have prepared (`OnBase`, `HasPaths`, `HasImage`) and is not at
an end that blames prune.  A launch only adds to the engine (`LaunchAdds`), so
what could take something away is prune, and `KeptInv` says it does not.

`NetworkShared` needs `NetInv`: unless prune has networks among its types, a
launch past the creation of the network finds one.

Everything `prune` checks is proved; `TypeOK` is proved and in no run.

## 8. Tool installation

### The model

`ToolInstall.tla` is the shell command each main container starts with, in
several containers on one cache volume, one step per system call another
container can see.  The parts of the command are one list with `&&` and
`|| true` before `exec`, so the command runs whatever failed (`Fails`).

| Model | Code |
|---|---|
| `Config`, `ConfigFails` | `ActivateCommand`, the parts in `CreateContainer` |
| `Runtimes`, `Snippet`, `AddRuntimes` | `BackendRuntimesCommand` |
| `UpToDate`, `Check`, `List`, `Unlink`, `RemoveDir`, `Mkdir`, `Open`, `Write`, `NextPart` | `PluginInstallCommand` up to the marker: `rm -rf`, then per file `mkdir -p` and a redirection |
| `IsLink`, `ClearPointer`, `ClearTmp`, `Link`, `LinkAstray`, `Swap` | the pointer `plugins/appimage`: a new link renamed over it |
| `Install`, `Kill`, `Exit` | `mise install`, the engine, the command |

`rm -rf` lists and then unlinks, so what is added meanwhile keeps the directory
and fails it; a file that is unlinked while it is written is lost to its writer.
`ln -s` onto a link to a directory goes into that directory (`LinkAstray`); it
fails only when there is one of that name already, or no directory.

Abstractions: versions, digests and downloads; a plug-in is `Files` equal files
and the marker; the volume is never full.

### Properties

- `PointerIsWhole`: until two scripts collide, whoever follows the pointer finds
  every file of a plug-in whole, at every step.
- `ScriptsGetTools`: as long as no two scripts have been at the plug-in at once,
  each script that failed no write and no download of its own ends with its
  tools installable, whatever killed ones have left.
- `SeesWhole`, `SettledPlugin`: what the comment at `plugins.go:50` promises, at
  every step and in the end.

Nothing in the code keeps scripts apart, so the premises are history.  `met` is
that one script was at the plug-in's command while another one changed the
volume.  `collided` is less: they did so with the same version (`SameVersion`),
or one was killed between its `ln` and its `mv` while another was past the `rm`
of that link (`LeavesLink`).  After either, nothing is promised for good: what it
leaves may pass for up to date (`Check`).

### Runs

| Run | Instance | Shows |
|---|---|---|
| `tools` | 2 containers, tpds of any of 2 versions, kills at any step, explored until they collide | `PointerIsWhole`, `ScriptsGetTools` |
| `tools_race` | 2 containers with the same version, no kills | a counterexample to `SettledPlugin` |

Two containers are what a race needs; a third would be another left-over, which
`Init` and the restarts give.  Two files are what a half-written plug-in needs,
and the tools are one of every backend, with and without its runtime declared.
No counter needs a bound.  `CONSTRAINT NotCollided` ends the exploration where
both properties have become void.

`tools_race`: no lock guards the installation.  Of two containers that install
the same version at once, the usual case of one tpd, one is through and has
repointed the pointer, and the other's `rm -rf`, which listed the directory
before, takes away what the first has written, fails on the rest, and goes on to
its command.  If the marker survives, later scripts find everything up to date.

The other collision: all versions use one name for a new link.  A script is killed
between `ln` and `mv`; its container starts again and replaces its directory,
and the `mv` of another version's script publishes the link to it.  TLC finds
this when `tools_race` gets `Tpds <- OwnTpd` and `Kills = TRUE`.

`CommandHasTools`, in no run, is what a reader might expect of the command and
the script does not aim for: it runs without its tools after any failure.

### Proofs

`ToolInstallProofs.tla`, for any containers, tpds, versions, files, tools and
kills.  `PluginInv`, which holds until two scripts collide, adds to the types

- `PointerInv`: the pointer leads to a complete version that nobody is replacing;
- `LinkInv`: a link in waiting, found at `link` or `swap`, is that of a script
  that waits to swap itself;
- `WrittenInv`: what each script has written so far.

The argument: while no two are at one version, a script is alone in its
directory, and replaces it only when it found it incomplete or the pointer
elsewhere; whoever swaps puts in place its own complete version, or the link of
a script past its last write, since no kill has left it another.

`ScriptsGetTools` also needs what a script alone at the plug-in has reached: the
tools and runtimes its config has so far been given (`OwnConfig`), an empty
directory left of what it unlinks, its own link where it links, and at the end
its own version behind the pointer (`OwnVolume`); what others do before and after
they are at the plug-in changes none of it.  And it needs that a runtime has no
backend prefix (`ToolsAssumption`), since a prefixed tool would ask for a runtime
of its own; those of the code have none.

## 9. Launch frame

### The model

`LaunchFrame.tla` is `LaunchWithWriter` from its spinner on: the mutex, flag,
channel and goroutine of `spinnerProgress`, the process, socket and deadline of
`startBusProxy`, and the deferred calls, last in first out.  Services and session
are steps; sections 3 and 5 are about them.

| Model | Code |
|---|---|
| `SpinnerStart`, `Ticks` to `Draws`, `Progress` | `Start`, `run`, `WriteProgress` |
| `StopLock`, `StopClose`, `StopWait`, `StopClear` | `Stop`, called before the session and deferred |
| `RemoveStale`, `Spawn`, `Poll`, `Misses`, `GiveUpOrWait` | `startBusProxy` |
| `Kill`, `Join`, `RemoveSocket` | its give-up and its clean-up |
| `Prints`, `Logs`, `Copied`, `Progress`, `Printed` | what the proxy prints and `os/exec` copies, also from a dead one; what the launch prints |
| `RegisterStop` to `ServicesStopped`, `Unwind` | `LaunchWithWriter` |
| `Interrupted`, `Again`, `OrphanDies` | a signal nothing handles, or SIGKILL; a later tpd with this pid; the proxy that stayed behind |

Abstractions: the filter arguments of the proxy, the text of the line, the
environment of the container.  A proxy whose tpd was killed runs on (`orphan`)
and may remove the path of its socket when it ends, whosever socket is there by
then.  By the time the kernel gives the pid out again it listens or is dead,
which is an assumption about how long that takes.

### Properties and run

`frame` checks, for launches one after another with and without terminal, bus
and services, with every failure, a proxy that comes late, dies or leaves its
socket, and signals:

- `SpinnerQuiet`: the container, and the caller in the end, gets a terminal with
  no frame on it and no goroutine that could draw one;
- `BusIsOwn`: a launch goes on only with a socket at which its own proxy has
  listened, not one left by an earlier tpd with its pid;
- `ProxyReaped`: a launch that returns leaves no proxy, no socket and no writer;
- `LaunchEnds`: winding up ends.

The state is finite without a bound.  Fairness is that goroutines come to their
turn (strong where they compete for the mutex, and for the closed channel among
the ready cases of a `select`, which Go chooses from at random), that the clock
goes on, and that a killed process dies.  Nothing makes a proxy listen.

`DiagSerialized` (in no run; TLC refutes it as an invariant of `frame`) is the
words of `startBusProxy` (`dbusproxy.go:93-94`) that serialised writes keep "any
caller-supplied writer safe": only the proxy's output goes through
`lockedWriter`, tpd's own lines go to the writer directly.

### Proofs

`LaunchFrameProofs.tla`, without assumptions.  `SpinnerInv`: the goroutine is
over, or the spinner is active, or `Stop` is between closing the channel and
wiping the line.  `ProxyInv`: a proxy that was started is waited for, or its
clean-up is among the deferred calls.  `WriterInv`: who writes to the
diagnostics writer.  `LaunchEnds` is only model-checked.

## 10. List screens and `tpd init`

### The model

`ListScreens.tla` is the approval dialog and the three screens of `tpd init`:
bubbletea models around a bubbles list.  Messages come one at a time, but a
filter is computed in a command whose answer is a later message, and the list has
copies of the rows (`listed`).  An answer has the rows that matched with the
marks of when its filtering began (`Copies`); filterings run in goroutines of
their own, so they answer in any order, and `newest` tells the last one.  After each message the screen is
drawn, and a slice past the end of a popup's contents panics (`DrawPanics`).

| Model | Code |
|---|---|
| `Fresh`, `Open` | `newApprovalModel`, `newPickerModel`, `newNewProfileModel`, `newFolderNavModel` |
| `Toggle`, `MarkAll`, `Fold`, `SetItems` | `toggleSelected`, `setChecked`, `rebuild`, `syncList` |
| `OpenPopup`, `ClosePopup`, `Scroll`, `PopupStart`, `NavStart` | the details popups |
| `Natural`, `Grown`, `Fit`, `FirstRow` | `setHeights`, `popupListHeight`, `window` |
| `SwitchFocus`, `Choose`, `Cancel`, `Resize` | `Update` of each |
| `Move`, `StartFilter`, `Type`, `AcceptFilter`, `ClearFilter`, `Filter`, `Answered` | the bubbles list |

`InitFlow.tla` is `Run`: screens, or text prompts without a terminal; the bases;
the contents; what becomes of a file that is there; the merge; the validation;
the atomic write.  `Edit` is somebody else who writes the file, `Die` a kill.

Abstractions: of a profile file, `extends` and one other key, which stands for
all that are merged alike; the verdict of the validation is a choice; matches
keep the order of the rows (the list sorts them by score); fragments typed at a
prompt come in the order of the rows; with `--extends` nothing is asked on a
terminal either; a new profile's name is typed on its screen only; wording,
wrapping (a number of lines per entry and width class) and comments in the YAML.

### Properties

- `KeepsContract`: each screen implements `Dialog`: it ends once, by a choice
  that is exactly what was marked or by being cancelled, a mark changes on what
  is highlighted only, and the approval dialog never panics.
- `ScreenFits`: the highlighted row is among the rows drawn, and a popup has
  room for what it shows.
- `NothingLost`: unless the user said overwrite, the file keeps its `extends` as
  a beginning of the new list and its other keys.
- `WholeFile`: the profile is a whole file at any time.
- `TempsRemoved`, `DrawnIsSubmitted` (proved, in no run): no temporary
  file outlives an `init` that was not killed; wherever the newest filtering has
  the last word, or there is no filter, the rows drawn are those that match and
  the boxes drawn are the marks that `enter` answers with.
- `BoxesAreTrue`: the comment of `syncList`, that rows re-render with the marks.

### Runs

`init` checks them with three grants, a picker of two entries, a new profile's
base out of two, and a folder with one fragment next to another; two widths, two
heights, one filter text besides the empty one, popups of two lines
(`Window` and `MaxRows` are the 10 and 20 of the code), every combination of
flags that differs, five kinds of earlier file and one write of somebody else
(`MaxEdits`), and one superseded filtering under way besides the newest (`MaxAnswers`).
What a popup's box has beyond its contents and needs not of the screen's own
lines (border, description, header) is `Spare`, per screen and width.  Contents are shorter than, equal to and longer than a popup, and
rows are fewer and more than the window has room for, so every case of the
arithmetic occurs.  Safety only: nothing obliges a user to press a key.

`BoxesAreTrue` is in no run; TLC refutes it as an invariant of `init`: under a filter, `a` and
then `n` start two filterings; if the first one answers last, the dialog draws
all boxes checked, nothing is under way any more, and `enter` approves nothing.
The theorem about `DrawnIsSubmitted` says that this order is the only way.

What the model makes visible and the code accepts:

- In the folder screen and the pickers a popup scrolled to the end of narrow
  contents panics when the window becomes wide (`foldernav.go`, `navPopup`); the
  contract therefore excludes panics of the approval dialog only.
- The approval dialog answers for rows a filter hides: `a` checks them too.
- `q` and `esc` cancel the new-profile screen while its name is typed.
- A file somebody creates between the last look and the rename is replaced
  (`raced` in `NothingLost`).

### Proofs

`InitFlowProofs.tla`, for any rows, windows, flags and files.  `CopiesInv`: in the
approval dialog the list's copies carry the marks, since every change gives it
new copies.  `NewestInv`: at most one filtering is the newest, under way or
answered, and its copies are those of now; so every key and fold that changes
rows or marks begins a filtering.  `FileInv`: only the rename brings the contents into the file, and a
temporary file exists only from its creation to its rename or removal.

`NothingLost` needs `LossInv`: from the last look at the file to the rename the
contents keep what the file had, unless somebody else wrote it (`raced`) or the
user said overwrite.  The step that matters is `UnionExtends`: `Added` is the old
list followed by what it lacks of the new one, a recursive function on the
numbers up to the new one's length.  That there is such a function
(`StepFunction`), and that what it gives begins with the old list
(`AddedExtends`), is shown by induction over these numbers (`SetInduction`).  Of
the lists in a file `FlowAssumption` says only that they are finite sequences, so
the theorem holds for files of any length.

`ScreenFits` needs `ScreenInv`: sizes are numbers, and the list has its natural
height except under a popup, where it has what `Grown` gives; every step that
changes a window, the rows or a popup sets the height anew.  `KeepsContract`
adds `ShownInv`: a screen is open only while `Run` waits for it.  Each step of
a screen then maps to one of `Dialog` or a stutter.

Everything `init` checks is proved, and so is the type invariant `FlowTypeOK`, in
no run: the sizes are those of `ScreenInv`, and filters that answer late still
find rows (`PartTypes`).

## 11. Not modelled

Window resizing of a running session passes a size on and shares only a wait
group with it.  Profile validation, doctor, command line, the service hash,
drawing, engine probes and generators are sequential transformations of data or
pure I/O.  Of modelled components these parts are left out: how flags and a
profile become a launch spec and a container's configuration; ports; the
contents of a Dockerfile and of a build's output; the lists of names and the
breakdown of a profile that the catalog gives for display; the rendering of
generated YAML.  The lines that are hard to test, and the properties about them,
are listed under `hazards` in `PROJECT.json`; those without a property say why.
