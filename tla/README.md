# A verification of agentbrowse

TLA+ models of the parts of agentbrowse whose correctness depends on the order in
which things happen, TLC runs over small instances of them, and proofs checked by
TLAPS. Every definition is translated from the code; `PROJECT.json` names, for each
of them, the lines it stands for.

    tlc -config MkdirLock.cfg MCMkdirLock.tla        # a run
    tlapm CommandLine_proofs.tla                     # a proof

## 1. The system

agentbrowse gives agents a Chromium in a container or a virtual machine, keeps the
browser's profile (its sign-ins) on the host that runs it, and lets a person watch
and take over through a native Live View.

| Component | State | Operations | What is hard |
|---|---|---|---|
| Directory locks (`cli/farm.ts`, `cli/profile-binding.ts`, `cli/sessions.ts`) | a lock directory with an owner file | acquire, break a stale one, release | processes that die anywhere; the stale check and the removal are separate system calls |
| Browser farm (`cli/farm.ts`) | per backend: volumes, containers; target receipts | create, provision, destroy, delete a profile | short-lived processes at once; every step may fail and nothing is undone |
| Fleet and bindings (`cli/fleet.ts`, `cli/profile-binding.ts`) | one binding per profile: backend, target, restore marks | choose a backend, bind, clear, delete | reads outside the locks, used after them |
| Provider sessions (`cli/sessions.ts`, `cli/provider.ts`) | one receipt per session: profile, lease, target | prepare, launch, release | operations of several commits; stale leases; the command line beside them |
| Backups and restores (`cli/backup.ts`, `host/profile-backup.py`) | reservation journal, staged volumes, host receipts | reserve, stage, publish, complete, release | a protocol over two machines that is resumed after crashes |
| Reconciliation (`cli/restore-reconciliation.ts`) | plan, journal, retired receipts, reservations in several namespaces | plan, retire, reserve, complete, release, resume | crashes between renames and journal writes; receipts rewritten after the review; hosts replaced |
| Hypeman, Kernel backends (`cli/hypeman-backend.ts`, `cli/kernel.ts`) | an instance per target, its forwarding, the Chromium under its supervisor, the profile's bytes | start, wait, stop, sync, delete, export, import, upload | a wait outside the lock; a supervisor that restarts what was stopped; lost answers; names used again |
| Live View input (`src/session/session.zig`, `pending_input.zig`, `input_state.zig`) | queue, drainer flag, epoch, held keys and buttons, control latch | offer, drain, cancel, release, authorise | threads that send outside the mutex; held keys when the channel is lost |
| Live View session (`src/session/session.zig`, `native_bridge.mm`) | control socket, peer connection, reconnect schedule | connect, reconnect, stop | callbacks in any order, of old and new connections |
| Clipboard, cursor, scrolling (`src/session/*_state.zig`, `scroll_accumulator.zig`) | small state machines | | echoes, sequence numbers, boundaries |
| Video frames (`src/session/frame*.zig`) | reference-counted frames, the latest-frame slot | publish, acquire, release | a renderer and a decoder thread |
| OpenTUI conversion (`src/opentui/AsyncFrameConverter.ts`, `frame-conversion-worker.ts`) | pool, queue, worker, a shared word per frame lease | convert, close, shut down | a worker that fails or dies holding a frame |
| OpenTUI view (`src/opentui/LiveViewRenderable.ts`), tunnel (`client/tunnel.ts`) | operation generation, session, ssh child, picture | connect, disconnect, dispose, destroy, poll, resize | awaits overtaken by other calls; an ssh that ignores SIGTERM; stale frames |
| OpenTUI keyboard (`keysym.ts`, `LiveViewRenderable.ts`) | keys held, what each sent, the modifiers of the guest | key, mouse, focus, blur, control | macOS chords become Linux chords, and the key-up no longer says what went down |
| Picker (`browser-picker.ts`, `examples/opentui-browser.ts`) | the list, its discovery, who has the keyboard | open, close, choose, switch | answers out of order |
| TypeScript client (`client/cdp.ts`) | commands by number, the probe's tab | open, evaluate, close | timeouts and late answers; a browser to be left as it was |
| Screencast helper (`tools/screencast/`) | the run, its latch, permits, the recorder in the guest | record, permit, copy, verify, clean up, abort | the only copy of the recording is in the browser that cleanup destroys |
| Hypeman relay (`host/hypeman-relay.py`) | listening ports | sync with the running instances | |

How they interact: the command line and the provider call `ProviderSessions`, which
calls `BrowserFleet`, which calls one `BrowserFarm` per backend; all of them keep
their state in files under directory locks and share nothing else. A Live View
session receives messages from the control socket's thread and callbacks from the
native peer connection, and calls from the frontend's thread; its mutex is never held
across a send. The OpenTUI view hands frames of the session to the conversion pool,
whose worker shares one atomic word per frame with it. The backends talk to the
Chromium of an instance over HTTP and CDP on an address that the next instance may
have got; the screencast helper is a provider's client with a second channel into the guest.

## 2. Modules

| Module | Models | State and actions |
|---|---|---|
| `MkdirLock` | the lock loop, one system call a step | `lock` is the directory (its maker, the owner file, whether it is 90 s old), `pc` the line of each process; one action per call: `Mkdir`, `WriteOwner`, `Stat`, `ReadOwner`, `Break`, `CheckDeadline`, `Unlock`; `Crash`, `Age`, `ExpireDeadline` are the environment |
| `BrowserFleet` | fleet, farms, bindings | `bindings`, `volumes`, `containers`, `targets` are the files and the backends' resources; `at` and `job` are each process's position and locals. An operation is a chain of actions, one per commit or unlocked read (`ChooseBackend`, `BindProfile`, `Place`, `RunBrowser`, `WriteTarget`, `BindTarget`; `FindTarget`, `RemoveContainer`, `RemoveTarget`, `ClearTarget`; `ChooseProfile`, `RemoveProfile`, `DeleteBinding`), and `Fail` ends it at any of them |
| `ProviderSessions` | session leases | EXTENDS `BrowserFleet`: prepare, launch and release run under the registry lock and call the fleet's actions as subroutines (`job.next` says where they return), while the command line's own operations go on beside them |
| `RestoreReservation` | restore and release of a backup set | EXTENDS `BrowserFleet`: `marks` and `journal` are the client's receipts, `receipt` and `image` the host's, `entry` is each process's place in the set. Three sections (client, host, client), one action per commit (`Reserve`, `Mark`; `OpenHost`, `CreateStaging`, `WriteReceipt`, `Fill`, `Publish`, `CompleteEntry`, `Verify`, `DeleteStaging`, `ReleaseEntry`; `OpenComplete`, `WriteRestored`, `WriteCompleted`, `OpenRelease`, `Free`, `RemoveJournal`); the fleet's actions go on with `requireReadyProfile` as a guard |
| `RestoreTransaction` | what a restore promises | names reserved one by one, staged only when all are, given out only when all volumes are published, let go only when nothing is staged; `RestoreReservation` implements it (`IsTransaction`) |
| `PendingInput` | the bounded queue and the held set | operators on queue values |
| `InputDelivery` | input of a Live View session | EXTENDS `PendingInput`: each hold of the admission mutex and each call out of the program is one action of a thread; `channel`, `news` and `down` are the external wire |
| `SessionLifecycle` | one Live View connection, Zig session and native bridge | `lifecycle`, `closed`, `scheduled`, `lifeData`, `cursor` are the Session's atomics; `closing`, `enabled`, `sink`, `nativeScheduled`, `block`, `resetting`, `token` the bridge's flags; `login`, `ws`, `stream`, `peer`, `lifeChannel` the present transport. Every thread works off a list `todo[t]` with one shared access per action (`InvalidateTransport`, `SetLifecycle`, `StoreLifecycle`, `Schedule`, `NativeConnect`, `CreatePeer`, `Drain`, `Detach`, ...); delegates run on the thread `monitor`, completion handlers on `Workers`, and `BlockStarts`, `BlockFires` are the reconnect block |
| `FrameConversion` | the conversion pool and its worker | a main-thread handler with the `processQueue` at its end is one action; the worker has one action for each of its steps; `port` holds the messages between them |
| `Reconciliation` | restore after the source host was lost | `live`, `tgt`, `archive`, `op`, `planned` are the files of each namespace, `host` the destination, `approved` the plan each client was started with, `stage` and `space` where it is; a client has one action per commit (`OpenApply`, `RetireTarget`, `RetireBinding`, `ReserveNames`, `MarkNames`, `Record`, `Settle`; `RestoreHost`; `GiveName`, `RecordGiven`; `OpenReleases`, `HostRelease`, `FreeNames`, `Commit`, `Released`), `ClientEnds` comes between any two, and ordinary commands rewrite receipts under the locks |
| `GuestBrowser` | an instance and the Chromium in it | `vm` is the instance with the profile's volume, its supervisor and what the disk lacks, `forward` the host's ports, `receipts` the target receipts; `at`, `job` are the processes' operations: create with its wait, destroy, export, import, upload. Crashes, supervisor restarts, halts and lost answers are the environment |
| `CdpPage` | the temporary tab of the client | `conn`, `call` are the connection's table of commands and who awaits them, `page` the steps of open and close, `wire`, `replies`, `guest` the browser |
| `LiveViewSurface` | the OpenTUI surface, its tunnel and native session | `op` are the overlapping calls, each at one of its awaits; `surf` the renderable's fields, `tun` the ssh children, `ses` the native sessions, `conv` the one conversion |
| `OpenTuiKeys` | keyboard, focus and modifiers in front of the session | `pressed` is what the operator holds, `active` is `activeKeys`, `guest` what the native session holds, `gate` whether it takes input |
| `BrowserPicker` | picker and the application around it | `picker`, `search` are the controller and its discoveries, `surface` what the Live View shows of its connects |
| `ScreencastRun` | the screencast helper, its driver, peer, recorder and supervisor | `helper.todo` is the list of what `run()` awaits and `await` how that ended; `failed` is the latch, `exec` the guest's peer and encoder, `owner` the lease and the instance, `super` the supervisor |

The theorems about a module stand in a module of its name with `_proofs` behind it; those about
`OpenTuiKeys`, `BrowserPicker` and `LiveViewSurface`, the three parts of the OpenTUI view, in `OpenTui_proofs`, those
about `MkdirLock` and `Reconciliation`, which the command line's locks serialise, in `CommandLine_proofs`, those about
`CdpPage` in `GuestBrowser_proofs`, those about `SessionLifecycle` in `InputDelivery_proofs`, and the refinement of `RestoreReservation`, which extends the fleet, in `BrowserFleet_proofs`.

The `MC` modules fix constants and symmetry. Four of them put several modules in one run:
`MCRestores` (`RestoreReservation`, `Reconciliation`), `MCSessionClients` (`ProviderSessions`,
`ScreencastRun`), `MCInputDelivery` (`InputDelivery`, `SessionLifecycle`, `OpenTuiKeys`,
`BrowserPicker`) and `MCGuestBrowser` (`GuestBrowser`, `CdpPage`). Their parts meet in calls that
are an operator of one and an action of the other and share no state, so a behaviour takes
one of the parts (`part`) and leaves the others at their initial state; the run is the union of
the state spaces, not their product.

Two abstractions are shared by all of them. *A lock is a guard*: sections under the
allocation lock, a profile lock or the registry lock exclude each other in the fleet
and session modules, which is what `MkdirLock` establishes as long as no lock
directory has been 90 s old; what happens after that is finding 1. *An error is an
end*: the command line undoes nothing, so a thrown error, a refused check and a
killed process are the same `Fail` (`ClientEnds`), possible after every commit.

## 3. What the runs show

| Run | Shows |
|---|---|
| `lock` | Until some lock directory has been 90 s old the holder is alone and the directory is its own (`ExclusiveUntilStale`), only a step of its maker removes it, with which the maker leaves the critical section or gives up (`OnlyMakerRemoves`); every acquisition ends in the critical section or an error although the holder may never let go (`AcquireEnds`). Reconciliation and import take their locks in opposite orders; by the last property both are refused and neither hangs |
| `lock_crash` | finding 1 |
| `fleet` | With creation, retries and destruction of two profiles and deletion of one of them, ended anywhere: at most one container mounts a volume (`MountedOnce`), a container's volume exists (`MountedVolumeExists`), and the profile that nobody deletes has one home (`SingleHome`) |
| `session_lease` | With sessions and the command line side by side: a profile has one owner (`OneOwner`); a session operation never deletes saved storage (`SavedStorageSurvives`); an old lease cleans nothing up of a name that was drawn (`OnlyOwnerCleansUp`; the last observation is of names a user gives); a disposable lease leaves neither container nor volume behind (`DisposableLeavesNothing`). The screencast helper destroys the browser that holds its recording only after the copy was verified, also when the recorder's start was never answered (`SourceIsRetained`), and only the instance it pinned (`OnlyPinnedIsDestroyed`); it dispatches an action only on the supervisor's exact permit for it (`InputIsPermitted`), and a run it calls verified copied a recording the encoder finalised, gave every input, had every action acknowledged and destroyed the VM it recorded on, wherever ffmpeg dies or meets its limit (`VerifiedIsWhole`) |
| `session_shared_name`, `session_leak` | findings 2 and 3 |
| `restore` | With every commit of a restore or release possibly its last and the ordinary commands beside it: names and volumes change only as `RestoreTransaction` allows (`IsTransaction`, under the mapping `Status`, `Data`). After the host was lost, with two clients: what was retired is what the reviewed plan names (`OnlyPlannedIsRetired`), a name is reserved only when its old receipts are in the archive (`EvidenceIsKept`), no name is given out after another of the set was let go (`SetIsNotSplit`), and a binding that an ordinary command wrote after the review is left alone (`FreshBindingsStay`) |
| `input` | One FIFO across all threads (`SendsInOrder`); deliverable input always has a drainer (`NoLostWakeup`); once no packet is on its way, what the packets have left down is held by the session, so a later release reaches it (`NoStuckInput`), up to the cleanup release that the channel refuses. On the terminal's side what the guest holds belongs to a key that is down and whose release will name it (`HeldMeansDown`), and the picker shows what the discovery of its newest opening found (`ListIsNewest`). Of the connection: a reconnect that is marked is under way, although it is marked twice (`ReconnectUnderWay`); after close no transport is left, none is started and nobody is inside (`ClosedIsQuiet`); the waits for the monitor, the callbacks in flight, the sink and the other reset form no cycle (`NeverStuck`) |
| `frames` | A frame lease goes back exactly once (`LeaseReturnedOnce`) and never under the conversion that reads it (`NoUseAfterRelease`); the last close never meets outstanding work (`NeverRefusesShutdown`); every conversion is answered (`EveryJobSettles`) |
| `view` | The session shown belongs to the newest call and its own open tunnel (`SessionIsNewest`); when all calls have settled no session and no ssh child is left but the surface's, and a destroyed surface has none, unless a connect was called while a dispose was under way (`NothingLeaks`; see the observations); every call settles, although ssh may ignore SIGTERM (`CallsSettle`); and a visible surface comes to show the newest frame in the present size, although stale conversions are dropped (`NewestIsShown`) |
| `guest` | Except after finding 4 nothing that Chromium wrote is lost by a destroy, an export or an import (`WritesReachDisk`); an archive is of a browser that had exited and was synced, unless a create that still waited has started it again (`ArchiveIsWhole`; see the observations); a release that names an instance deletes no other (`OnlyExpectedIsDeleted`); a destroy that is retried after a lost answer still removes the forwarding (`DestroyCleansForwarding`). All but the third are promised to processes of one runtime directory. The probe's tab is closed, whichever step fails, unless an answer was lost; the visible tab is restored by a normal close with nothing lost (`LeavesBrowserAsFound`) |
| `guest_loss` | finding 4 |

Each property is also run against a mutant of one definition (a dropped guard, a
missing reset) that it must refute; the mutants stand before the definitions they
replace. The type invariants and a few more properties are stated in the modules and were found to hold
on instances of this size; no run lists them: `AbandonedIsCleared`,
`BindingIsHome` (proved), `JournalCovers` (proved), `PendingIsPristine` (proved),
`HeldIsDown` (proved), `EventsLeaveTheQueue`, `StateIsOfThisTransport` (proved), `ConnectedHasPeer` (proved),
`OneConversionAtATime` (proved), `ClosesEnd`, `UploadIsWholeOrGone` (proved) and `FocusReturns` (proved).

### Findings

1. **Stale locks** (`cli/profile-binding.ts:532`). Two waiters can both find an abandoned
   directory stale; the second removes the fresh directory the first has made, and both
   enter. It takes a crash while holding a lock and 90 s.
2. **Two leases on one profile** (`cli/sessions.ts:177`). The disposable branch does not
   look for owners, so a session named like a profile that another task has chosen
   takes a second lease on it.
3. **A leaked target** (`cli/sessions.ts:251`). A launch that fails after it created a new
   target leaves a receipt that names the old one; the release then destroys nothing.
4. **Writes lost by a destroy** (`cli/hypeman-backend.ts:450`). The wait of a create runs without
   the allocation lock and starts Chromium when its CDP port does not answer. A destroy that has
   just closed the browser and synced its files deletes the instance with what the new Chromium
   wrote in between.

### Observations

Behaviours of the models that no run is kept for. Where a property is named, a configuration with
the constants given refutes it.

* `deleteProfile` removes the binding late and by name (`cli/fleet.ts:194`). A create, a delete
  that removes that create's binding, and a second create leave a profile that is being deleted
  with volumes on two backends. `SingleHome` therefore speaks of profiles nobody deletes.
* A destroy clears the target of the binding by name as late (`cli/fleet.ts:313`; `ForgetsOnlyGoneTargets` of
  `BrowserFleet`). When a creation has used the name again since the container was removed, the binding
  forgets a browser that is up, for good if the creation then fails while it waits for it.
* A restore that cannot be resolved (`cli/profile-binding.ts:187`; `CanBeResolved` of
  `RestoreReservation`, two profiles, two processes, one of them in `Restorers`). `completeRestore`
  gives names out one by one. If it ends between two and the first profile is launched, the retry
  is refused because that volume has changed, and the release because it is complete.
* A reconciliation likewise (`cli/restore-reconciliation.ts:356`; `LostSetCanBeResolved` of
  `Reconciliation`). The release writes the status `releasing` before it asks the host; when the host
  refuses, because an entry is complete there, the journal refuses the restore as well.
* A V or Q that goes down alone and comes up while Command is held
  (`src/opentui/LiveViewRenderable.ts:640`; `ReleasedIsUp` of `OpenTuiKeys` with `TerminalKeys = {"left", "v"}`).
  `forwardKey` returns at the local shortcut before it looks at the event's type, so the key stays
  down in the guest until blur, although `docs/architecture.md:30` says that an explicit key-up
  releases its target.
* A screencast that is cancelled while its cleanup waits for the driver still releases its lease
  and ends `fixture-verified` (`tools/screencast/run.ts:298`, `:782`; `CancelledIsPending` of
  `ScreencastRun`), although `tools/screencast/README.md:58` says that it stays pending. A monitor
  check that is in flight when its interval is cleared publishes `helper-failure.json` after
  the success.
* `connect()` during `dispose()` (`src/opentui/LiveViewRenderable.ts:383`; `DestroyedOwnsNothing` of
  `LiveViewSurface`, refuted in the run's own configuration). `connect` tests `isDestroyed`, which `dispose` sets at
  its very end, and `dispose` awaits only the connects it found. One that is called in between installs its
  session and its ssh child; `dispose` then calls `super.destroy()` without another teardown, and both stay.
* An export beside a create that still waits (`cli/kernel.ts:369`, `cli/hypeman-backend.ts:448`; `ArchiveIsWhole`
  without `=> vm.restarted`). Between the export's stop and its download the wait, which holds no lock, asks Kernel to
  start Chromium again, and the archive is of a running browser. The cause is that of finding 4. It takes a
  creation that waits at the address of an instance since replaced by the one exported.
* `openTemporaryPage` leaves its connection open when the listing of the pages throws
  (`client/cdp.ts:149`, outside the `try`), and its tab when the answer to its creation times out.
* A connect that resolves while the picker is open takes the keyboard back from it
  (`examples/opentui-browser.ts:223`).
* `setLifecycle` reads `closed` and stores afterwards (`session.zig:710`). A callback that read
  it before `close` may store `connected` or `failed` over `closed`; nobody corrects it,
  though nothing else of the session is alive then (`ClosedIsQuiet`).
* An ICE interruption clears `data_open` (`session.zig:1400`). If the peer recovers by itself
  its channel was open all the time, no event sets the flag again, and the session is
  connected without input until the next reconnect.
* Two machines share the instances but neither locks nor receipts (`cli/kernel.ts`; `OneDirectory` of
  `GuestBrowser`, two `Runtimes`, both processes in `Destroyers`). One may delete the temporary target of the
  other's import while that is configured, with what Chromium wrote, or that of its export and make
  its own, whose running profile is then the archive.
* A release that cleans up a target with a name the user gave reads that name from the binding
  (`cli/sessions.ts:268`). If the command line destroys the target and creates one of the same name
  for another profile before the container is removed (`cli/farm.ts:499`), the other profile's
  container goes: the receipt is compared with the container's labels, never with the profile.

### Bounds, and why they are enough

* `lock`: three processes, one acquisition each; a break of a break needs two waiters
  and a holder. Deadlines and the 90 s age are nondeterministic, so no clock is bounded. With one
  acquisition each (`MaxOps`) a directory vanishes a bounded number of times: the retry after a
  `stat` that finds none (`cli/farm.ts:140`) skips the deadline check, so that `AcquireEnds` says
  nothing of a waiter that loses the race to ever new holders.
* `fleet`: two processes, two backends, two target names, two profiles of which one is
  deleted: every race the code can have is between two operations, and the second name is
  what `MountedOnce` needs. Tokens (fresh target names) are drawn in the session runs.
* `session_*` without the helper: two sessions with their own names, one saved profile, two tokens and two
  leases, so a lease can be released and taken again while its old holder still closes.
  `session_lease` has one backend (which backend is chosen is the question of `fleet`) and
  one durable profile from before there were bindings, which a session adopts.
* `restore`: a set of two names (one is given out before the other, staged before the other),
  one of which an ordinary command may take, and a third profile that is created and deleted;
  one target name. With all three profiles open to ordinary creation the run passes as well
  (1.3 million states). One process restores and releases, the other only runs ordinary
  commands. Two restorers of one set, and deletions of the set's own profiles in flight, are
  outside the bound on purpose: with them the code breaks `IsTransaction` (a release whose host
  phase came before another's restore lets the names go after it). `JournalCovers` and `PendingIsPristine`
  hold with both (13 million states, the search not finished, and the theorems of section 4), the
  second but for the profiles that are deleted.
  The lost host has two profiles, one bound in the namespace that is not the primary one and one
  without a home, two clients and one edit: a second edit is another revision of what was already
  rewritten once. With the first profile bound in the primary namespace the invariants hold as well.
* `session_lease`, the helper: an action on the driver alone and one that also moves the native
  pointer, and one change by others to lease or instance at any moment.
* `input`, the wire: one caller and the socket's thread, a queue of two, of one while the
  channel is awaited, and a table of one held key, so that each overflows, three
  numbered entries, among them a modifier batch, and one cancellation, which is what makes
  an entry stale; with two cancellations the run holds as well (1.4 million states). The
  keyboard: three keys at once, a cursor key of each direction, a symbol and a letter, which have all
  the translations the code distinguishes. The picker: two targets, three openings, two connects.
* `input`, the connection: one completion thread, which is enough for a handler that outlives its
  transport while delegates, the block and the host go on with the next; with two the
  invariants hold as well, `NeverStuck` by its theorem, the others by TLC (17.2 million states, 20 minutes). The number
  of transports is not bounded. One provided stream per request, as the signalling server
  answers; the delegate queue of a URLSession is serial; the host's calls come from one thread.
* `view`: three calls, which is what it takes for a call to be overtaken by one that is itself
  overtaken, and for a connect to begin and open while a dispose waits; one frame, one resize and one error.
* `guest`: a creating and a destroying process, two instances and two starts of Chromium in each, so
  that an incarnation is replaced and a stopped browser restarted. Both processes use one
  runtime directory. The page: two tabs or none, two answers late, one tab closed by others.
* `frames`: two libraries, three viewers (one synchronous) and two jobs, so that a job
  waits behind an initialisation, a conversion or a failure.
* Counters that would grow without end (acquisitions, sequence numbers, epochs) are
  bounded by `MaxOps`, `MaxSequence`, `MaxEpoch` in the guards.

`CHECK_DEADLOCK FALSE` is used everywhere: processes finish, callers may stop offering
input, viewers close.

### Fairness

* `MkdirLock`: each process that is acquiring keeps taking steps and its deadline passes.
  Nothing is assumed of a holder.
* `LiveViewSurface`: what JavaScript awaits of itself goes on, a child ends after SIGKILL and
  not necessarily after SIGTERM, a conversion ends, and the poll timer fires. Readiness of the
  tunnel and frames are not assumed.
* `InputDelivery` (for `EventsLeaveTheQueue`): a thread inside a call continues. The admission mutex is held only for
  straight-line code. No caller, message or transport event is assumed to come.
* `FrameConversion`: the event loop runs its microtasks and events, the shutdown timer fires,
  a close that may end ends, and the worker finishes and answers a conversion it has
  begun unless it dies. It need not answer a shutdown, nor is it assumed to die.

## 4. What is proved

Each theorem holds for any sets of processes, profiles, targets, keys, frames and so on, and for
any value of the bounds of section 3. A property of a run that is an invariant is seldom
inductive: it says nothing of an operation that has checked something and not yet acted on it.
The inductive invariant adds just that: what the locals of every operation mean at each of its places.

`CommandLine_proofs`, the locks: `TypeCorrect`, `ExclusionTheorem` (`ExclusiveUntilStale`) and
`OnlyMakerRemovesTheorem`. `ExclusiveUntilStale` says nothing of a process that has just made
the directory and not written the owner file, nor of one that is about to remove a
directory. The inductive invariant adds that a process between its `mkdir` and
its `rm` is the maker of the directory that is there, and that a process is at the
removal only when some directory has been old. Together with type correctness each action
preserves it, because only the maker's own unlock, the undo of a failed write and a break
remove the directory, and only `Mkdir` on an absent directory makes one.

`CommandLine_proofs`, the lost host, for any clients, names and namespaces:

* `LostInvariance`: `LostInv`. Beside the types it says what a client may rely on at each stage
  (`PlaceOK`): that the journal has the names of the plan it was started with, that before its first mark
  every owned name is unbound or marked and its old receipts are in the archive, that a client on its way through the
  namespaces left a completed, or a released, one behind. The locked section excludes the other clients
  (`Exclusive`), so only what is outside it must survive the steps of others.
* `RetiredTheorem` (`OnlyPlannedIsRetired`), `EvidenceTheorem` (`EvidenceIsKept`) and the action property
  `FreshTheorem` (`FreshBindingsStay`) follow from `PlaceOK` and `MarksOK`: a mark stands only on a
  name's own namespace, with the evidence behind it.
* `SplitTheorem` (`SetIsNotSplit`). Names are given out and released in the order of the namespaces: before a
  later one is touched the earlier ones that own names have completed some (`GivenOK`), or are all released
  (`ReleaseOK`). A completed name forbids the release of its namespace and a released namespace has no journal
  to complete from, so whichever came first at the earlier namespace keeps the other out of every later one.

`BrowserFleet_proofs`:

* `TypeCorrect`: `TypeOK`. It needs `JobOK`, which says what the locals of an operation
  hold at each of its locations (a profile, a backend, a name; a deletion only of a
  profile of `CliDeletes`).
* `MountTheorem` (`MountedOnce`) and `VolumeTheorem` (`MountedVolumeExists`). `RunBrowser`
  trusts what `Place` checked one step before. `MountInv` adds that one process at
  most is in a section under the allocation lock (`AllocExclusive`) and that at `run` the
  volume is there and the name is free of other profiles (`RunsChecked`).
* `HomeTheorem`: `SingleHome` and `BindingIsHome` for the profiles nobody deletes. `HomeInv`
  adds `PlacesOnHome`: from its `bindProfile` to its end an operation's backend is the one in
  the binding, although the profile lock was let go. The first observation of section 3 is the reason for the
  restriction: `DeleteBinding` breaks `PlacesOnHome`.
* `TransactionTheorem` (`IsTransaction`): `RestoreReservation` implements `RestoreTransaction` for any backup set that one
  process restores and releases (`OneRestorer`) and of which nobody deletes a profile (`SetIsKept`), as in the run
  `restore`; section 3 says what two restorers do. `RestoreInv` is what lets a command that was interrupted anywhere
  be run again by somebody who knows only the receipts: a marked name is bound, a volume is there only when every name is marked, a name is
  given out only when every receipt is complete (`SetOK`); and at each section, what of the manifest is
  behind it (`SectionOK`, with `Done` and `Left`). The typing lemmas (`Typed`, `GoesOn`) ask for one process's locals
  only, so that those of the fleet's commands serve here unchanged.
* `JournalTheorem` (`JournalCovers`) and `PristineTheorem` (`PendingIsPristine`) hold without these two hypotheses.
  `LockInv`: one process at a time is in a section under the names' locks, and what it knows there (`LockedOK`) is that
  the journal is written before the first mark and that a release has let go of what is behind it. `PristineInv` is
  about more names than the reserved ones: a name that nobody has is as untouched (`Withheld`,
  `Untouched`), because only a process that has bound a name comes to start a browser on it.

`ProviderSessions_proofs`, with the operations of the command line between any two steps:

* `SessionInvariance`: `SessionInv`, which every other theorem here rests on. Beside the types it says
  what a prepare, launch or release knows of its receipt at each place (`Staged`), that everybody
  outside the registry lock runs an operation of the command line (`Registered`), that the profile of
  a lease is the session's own or one that is kept (`Chosen`), and that everything that mentions a drawn name -
  containers, receipts of three kinds, locals - mentions it with one profile (`NamesAgree`).
* `CleanupTheorem` (`OnlyOwnerCleansUp`), from `Staged` and `NamesAgree`.
* `StorageTheorem` (`SavedStorageSurvives`) and `OwnerTheorem` (`OneOwner`), for sessions whose own
  profile names (`providerProfileName`) differ and are not names that tasks choose (`OwnNames`).
  Finding 2 is why: without it `session_shared_name` refutes `OneOwner`.
* `DisposableTheorem` (`DisposableLeavesNothing`), when the command line also keeps away from those names
  (`OwnProfiles`): it may otherwise create a target of the profile after the release has
  looked for one. The invariant follows the cleanup: the volumes of a disposable lease are on the
  backend its binding names (`Located`), and at each place of the release what is gone is gone (`Cleaned`).

Both hypotheses hold in the run `session_lease`.

`ScreencastRun_proofs`, for any script and any number of changes by others: `PermitTheorem`
(`InputIsPermitted`), `PinnedTheorem` (`OnlyPinnedIsDestroyed`), `SourceTheorem` (`SourceIsRetained`). `ShapeInv` says what the list `todo` may
hold in each stage and how it ends, so that "the recorder was stopped and its file copied" can be read off
the place of the script; the other invariants add what the guest and the supervisor have answered so far.

`OpenTui_proofs`:

* `HeldTheorem` (`HeldMeansDown`), for any of the keys the model has but V and Q, whose key-up under Command is
  swallowed (`ReleasedIsUp`, section 3). `HeldInv` adds that nothing is held
  while the view has no focus or no control, and that V and Q only ever become themselves.
* `ListTheorem` (`ListIsNewest`) and `FocusTheorem` (`FocusReturns`), for any targets and any number of openings
  and connects. `FocusInv` adds that a connect that counts has a target.
* `NewestTheorem` (`SessionIsNewest`) and `LeakTheorem` (`NothingLeaks`), for any number of overlapping
  calls. `SurfaceInv` says that calls are numbered by their generation without a gap, that a session is
  open only as the surface's own, that a tunnel taken over by a later call was settled, and that
  every running ssh has somebody who will close it (`Tended`): its call, the surface, or the call that
  took it over.

`FrameConversion_proofs`: `LeaseTheorem` (`LeaseReturnedOnce`), `UseTheorem` (`NoUseAfterRelease`),
`ShutdownTheorem` (`NeverRefusesShutdown`). `FrameInv` says that a conversion in flight is in exactly one
place, its message, the worker or its answer (`InOnePlace`), that the word of its lease is what that place
left in it (`Released`), and that a client with an unanswered frame has not left (`Attended`). The action property
`ConversionTheorem` (`OneConversionAtATime`) adds `OneTurn`, the protocol of the two message ports: there is at most one
message out, work in hand, or one report on its way, never two of them, and only the "close" of a dead worker comes
besides; so the pool, which converts on its own thread only when it waits for nothing, never does it beside the worker.

`InputDelivery_proofs`: `WakeupTheorem` (`NoLostWakeup`), `StuckTheorem` (`NoStuckInput`), its counterpart
`HoldingTheorem` (`HeldIsDown`) and the action property
`OrderTheorem` (`SendsInOrder`). `DrainInv` adds that
there is one drainer at most and the flag says so; `DownInv` that what the guest has down on an open channel
is held, or refused its release, or on its way to be committed, compensated or let go; `HoldInv` that an up on the wire
is committed in the epoch it was taken in or finds nothing held (`InHand`), and that a down of this epoch that was sent
is down or a late release of it is on record; `OrderInv` that the queue is
in ascending order, above what has been sent and above the event the drainer has in hand, and up to the number that
was given last. Which events the batch of a physical key holds is a fold over data and out of reach, but not needed:
`BatchIs` shows that the batch is a sequence, and each of its entries gets a number of its own.

`InputDelivery_proofs`, the connection, for any number of completion handlers: `ReconnectTheorem`
(`ReconnectUnderWay`), `QuietTheorem` (`ClosedIsQuiet`) and `NeverStuckTheorem` (`NeverStuck`). Threads are lists of steps, so `LifeLists` says which lists there are:
what close has left, and plain lists or a scheduling for everybody else, of which none holds a step of the
teardown. `CloseLeaves` follows close from list to list: closing, then callbacks off, then nobody in flight, then no
transport, then no sink; every step of the others keeps what has been reached, because it looks at one of the
flags that close has set. `MarkIsCarried` says who carries the mark of a reconnect: a list that has
passed `schedule` and not yet `nativeSchedule`, the bridge's own flag as long as there is a block, the
callback, or a list that is about to clear it. `NeverStuck` needs that the waits have an order: the holder of the
monitor waits for nobody, the completion handlers for the monitor, close for them, and a reset for the thread that
is past its own waits. `WaitInv` carries the last part: the block resets only while it is "waiting", which the
bridge's flag shows, and a reset that is under way is that of the one thread, close or the block, that stands
at its detachment or its end. `NeverStuck` speaks of `CanGo`, the guards of a thread's next step without its
effect; that `CanGo(t)` is `ENABLED Run(t)` TLC confirmed in every reachable state of the run.
`ConnectedTheorem` (`ConnectedHasPeer`) and `ThisTransportTheorem` (`StateIsOfThisTransport`) rest on `TransportInv`: the
mark of a reconnect is one, and set before the transport is taken down; what is reported under the monitor is true of
the transport there is; and what is no longer so is withdrawn before the monitor is idle.

`GuestBrowser_proofs`: `ExpectedTheorem` (`OnlyExpectedIsDeleted`) for any runtime directories, and for
processes of one directory `ArchiveTheorem` (`ArchiveIsWhole`), `ForwardingTheorem`
(`DestroyCleansForwarding`) and `DiskTheorem` (`WritesReachDisk`). `GuestInv` says what the
holder of the allocation lock has made sure of (`SureOf`: Chromium stopped, its files on the disk, the container
the one it saw) and that nobody else can undo it but a waiting create, which marks the instance `restarted`.
`UploadTheorem` (`UploadIsWholeOrGone`), for any machines: nobody is told anything of an upload under way, and a partial file
is at the step that removes it or its error says that it was not removed (`Uploads`).
For `CdpPage`, `LeavesTheorem` (`LeavesBrowserAsFound`), for any finite set of tabs, any states the browser is found in and any
number of losses. That the browser can be led back is only inductive with all that is between: `Wired`, that what is on
the wire is the command the page waits for or one whose loss is on record, and never twice (`Numbers`);
`Answers`, what a late answer may say; `Restored`, how far the browser's tabs have come, by the command that is on its
way; `Known`, what the page has learnt of them.

Assumed throughout: that `None` (`Nothing`, `Nobody`, `NoTab`) is none of the values and that sets which stand for different
things differ; TLC evaluates these assumptions in every run. The theorems rest on exclusion under
the locks, which is a guard in the fleet's modules and a theorem of `MkdirLock`.

Model-checked only:

* liveness: `AcquireEnds`, `EveryJobSettles`, `CallsSettle`, `NewestIsShown`;
* `VerifiedIsWhole`.

## 5. Not modelled, and the plan

Left out for good: parsers and validators without state, the archive format and
hashing, docker, SSH and HTTP I/O, ports and readiness probes, byte layouts, pixel
arithmetic, video decoding, AppKit, benchmarks and installers. Of input: the metrics,
and what the far end makes of a packet. Of the view: pointer and scroll events, and the loading
of the native library. Of the screencast helper: the port streams and the timing report.
The lists of the command line and its JSON contract keep no state.

Not modelled for lack of a question of order: the frame leases and the latest-frame slot (one
lock around every operation), the cursor cache, the scroll accumulator, the relay. The clipboard
mirror (`clipboard_state.zig`) has one, the echo of a paste, and is not modelled yet.

What is left: the clipboard's guards, and profile import in `BrowserFleet`.
