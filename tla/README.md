# Kouplet operator: verification project

Kouplet is a Kubernetes operator with two custom resources. A **KoupletBuild** asks for one container
image to be built by a builder Job; a **KoupletTest** asks for a collection of tests to be run, each in a
Job, a bounded number at a time. This directory holds TLA+ models of the two controllers, of the queue of
requests that drives them and of the program a builder Job runs, the TLC configurations that check them, and
TLAPS proofs of their safety properties, for every value of the parameters.

| file | what it is |
|---|---|
| `KoupletBuild.tla` | the KoupletBuild controller, its files, and the cluster around it |
| `BuildPromise.tla` | the abstract specification its files implement |
| `KoupletBuildProofs.tla` | proofs about a build in the controller's hands: types, order, finality |
| `KoupletBuildDurableProofs.tla` | proofs about memory, files, Jobs and published status together, and that `KoupletBuild` implements `BuildPromise` |
| `MCKoupletBuild.tla`, `build_*.cfg` | small instances of it |
| `KoupletTest.tla` | the KoupletTest controller, its dirty set, bulk writes and files, and the cluster |
| `KoupletTestListsProofs.tla` | proofs about its lists and files, which the next module rests on |
| `KoupletTestProofs.tla` | proofs about its Jobs, the order of its collections and its retries |
| `KoupletTestFilesProofs.tla` | proofs about its files and what it publishes |
| `MCKoupletTest.tla`, `test_*.cfg` | small instances of it |
| `Requeue.tla` | the manager's process, the work queue of a controller, and the requeue deadline all its objects share |
| `MCRequeue.tla`, `requeue_chain.cfg` | a small instance of it |
| `RequeueProofs.tla` | proofs about the queue and the number of timers |
| `Builder.tla` | the program in a builder Job's container |
| `BuilderProofs.tla` | proofs about what it pushes and what it leaves behind |
| `BuildCycle.tla` | `Requeue` and `Builder` composed: a Job that ends, and the controller that must notice |
| `BuildCycleProofs.tla` | that it implements both, and proofs about the two together |
| `MCBuildCycle.tla`, `build_cycle.cfg` | a small instance of it |
| `PROJECT.json` | components, runs, mutants, source lines of every definition, findings, hazards, theorems |

Paths below are relative to `src/staging/controllers`, the migrated operator; `src/kouplet/pkg` is the
same operator on the older layout, with the same control flow.

## The system

### Components, their state and what makes them correct

**KoupletBuild controller** (`koupletbuild_controller.go`, `koupletbuild/koupletbuild_models.go`).
State: `KoupletBuildDB.builds`, a map from object UID to `buildStatus` (state, creation time, active and
completed attempts, success). `Reconcile` fetches the object and hands it to `Process`, which creates the
entry when there is none, then calls `subProcess` until a pass changes nothing, then publishes the status
and writes the file. A pass looks at the Job of the active attempt (finished? gone? over its deadline?),
checks the limits on attempts and on overall time, looks for a success, and, if the build is still
running with nothing active, creates the next Job, whose name is the build's name and the attempt's
number. Correct means: attempts are counted and ordered whatever calls fail; a verdict is earned by the
build's own Job, is given once and never changes; nothing runs after a success; every build is decided.

**KoupletBuild persistence** (`koupletbuild/koupletbuild_persistence.go`, `shared/persistence_file.go`).
State: one file per build. `updateBuildStatus` opens (and so truncates) the file and then writes it;
`load` runs on the first reconcile of a process; `deleteBuildStatus` removes it. Correct means: the files
alone let a new process go on with a history that is a prefix of the old, and never undo a verdict.

**Scheduled tasks** (`shared/scheduled_tasks.go` and the task list in
`kouplettest/kouplettest_utils.go`). Builds: drop entries whose object is gone, every five minutes, at
the end of some `Process`. Tests: delete old and unknown Jobs, and remove unknown files, every 30 minutes.
Correct means: they never drop what an existing object needs.

**KoupletTest controller** (`kouplettest_controller.go`, `kouplettest/kouplettest_models.go`). State:
`KoupletDB`: the collections by UID, the lists of waiting and running ones, the recent start times; in each
collection the test entries by id and the lists of queued, running and retry entries. `Process` repeats
`subProcess` while a pass changes something: each running collection lists the Jobs, records those that
ended or expired (creating an entry for retry where the test failed), and, when nothing ended, starts tests
while there are slots and starts are allowed; when no running collection has a test left to start the next
waiting one joins. Then completed collections are set aside, those whose object is gone are dropped,
everything dirty is written, due tasks run, and the status of each changed collection is published.
Correct means: no entry is lost from or duplicated in the lists; Jobs and retries stay within their
limits; collections go in order; what is published is final; all tests end.

**KoupletTest persistence** (`kouplettest/kouplettest_persistence.go`). State: `entryMap`, the set of
what has changed, and the files: one per collection, three per entry, one per start time. `resolve` writes
everything in `entryMap`, stops at the first error, and empties it in any case; `load` makes the
collections and the lists anew.

**Requeue timers** (`appendBuildReconcileResult`, `appendTestReconcileResult` in the controllers). State: one
deadline per controller, and client-go's queues. A reconcile that finds the deadline run out moves it ahead and
asks for its own object to be requeued, later than the new deadline; an error requeues the object after a
backoff. Correct means: requeues do not multiply with the objects; the end of a Job is never missed; and the
chain of requeues, which every time-out rests on, goes on.

**Manager** (`main.go`). It registers both controllers, waits for the lease of the leader (`--leader-elect`, one
replica, in the shipped manifests) and starts their watches, which list every object. Any step that fails ends
the process.

**Builder image** (`builder-image`: a Java program that runs git and buildah in the Job's container). It clones
the repository, downloads the URLs of the spec into its directory `resources`, logs in, builds and pushes.
Correct means: exit code 0 says that the image was pushed, with every file in it; and buildah's storage, which
may be a volume, is left empty.

**Log upload** (`kouplettest_s3.go`), **logging and utilities**, **API types**, **log parser** (a developer's
tool), **the operator before its migration**: see `PROJECT.json`.

### How they interact

The API server and the file system are all they share. A controller talks to the API server (objects and
their status, Jobs, Pods, logs) by calls that may fail, or that may succeed and be reported as failed; Jobs,
Pods and objects change between any two calls. controller-runtime runs one worker per controller, so
reconciles of one resource never overlap, and the two controllers share no memory. Memory is lost when the
process ends, files are not, where `/kouplet-persistence` is a volume, as in `src/kouplet/deploy`; without one, as in
`src/staging/config`, the operator writes below `/tmp`, and files are lost with its container. Of a builder Job a
controller learns the exit code, and nothing else.

### What is hard

* **Interleaving**: a Job finishes, expires, or is deleted, an object is deleted and made anew, between two
  calls of one reconcile.
* **Crashes**: a kill between a `Create` and the write that records it; between truncating a file and
  writing it; between two of the files of a bulk write; between saving and publishing.
* **Partial failure**: every call's error path either goes on with an empty value, puts something back, or
  only logs; whatever it does is then seen by another pass.
* **Ordering**: builds publish and then save; tests save and then publish.
* **Liveness**: a reconcile is a loop that ends only when a pass changes nothing, and nothing is reconciled
  without an event or a timer.
* **Names**: Jobs and objects are looked up by names that several may bear in turn, or at once
  in several namespaces.

Each instance of these, at its line, is a hazard in `PROJECT.json`, with the properties that cover it or
the reason why none does yet.

## The models and the code

`KoupletBuild` and `KoupletTest` have a *worker*, the reconciling goroutine, whose program counter is `worker.at`. An action is
the code between two of its calls to the outside: everything it does to memory, and one call. The actions
of the cluster (objects, Jobs, deadlines) and `Crash` interleave with these. What a call may return is a
nondeterministic choice; the faults that are allowed are in the constant `Faults`, so that a run can afford
those it is about. `PROJECT.json` has the source lines of every definition.

### KoupletBuild

| model | code |
|---|---|
| `db[u]`, `disk[u]` | `db.builds[uid]`; the file of that build (`"torn"` when created and still empty) |
| `jobs[n]` | the Job named for attempt `n` |
| `kube`, `kstatus` | the object now under the name, and its status; `Uid` are the objects that bear it in turn |
| `Stranger` | an object of the same name in another namespace |
| `stamp`, `overdue` | the times read so far, and those whose deadline has passed |
| `Reconcile` | `Reconcile` up to `Process`, with the creation of a `buildStatus` |
| `PassNoInstance`, `PassDecided`, `PassScan` | `subProcess` up to the creation of a Job: `Scanned` is the scan of active attempts, `Expire` and `Complete` the verdicts, in the code's order |
| `CreateJob`, `CreateRefused`, `CreateUnacknowledged` | `newBuildAttempt` |
| `EndPass`, `Publish`, `OpenFile`, `WriteFile` | the loop of `process()`, `updateKubeStatus`, `updateBuildStatus`; the last two are `os.Create` and `WriteString` |
| `Cleanup`, `CleanupPanic` | `cleanupOldDatabaseEntries` |
| `Crash`, `Load` | the end of the process; `load` |

Time is abstracted to deadlines: each time the operator reads is a new `stamp`, and `DeadlinePasses` may put
a held time into `overdue` at any moment (fault `slow`). A Job's start deadline is its state `"overrun"`.

*Names and namespaces.* One name in one namespace is modelled. Builds of other names share nothing with it but
the worker. Those of the same name in other namespaces do: the operator watches all of them (`main.go:68`), and
`load` looks for the object of every saved build in the namespace of the first request the process got
(`koupletbuild_persistence.go:142`, `koupletbuild_controller.go:84`). Fault `elsewhere` says that there are such
builds. Then `Load` may find no object for a build whose own exists, and drop it with its file, or find the
`Stranger`: the build is then `Astray`, makes its passes while that object exists, has its status written
there and its Jobs refused, or made there. What happens to this name when a build of another namespace
is led astray to it is `StrangerPublishes` and `StrangerCreates`.

### BuildPromise

The ledger the files make up: per object an open entry whose number of tried attempts only grows, then one
verdict, never changed; an existing object is never forgotten. `KoupletBuild!KeepsPromise` is this
specification under a refinement mapping that reads the files, counting a file that is open for writing as
written (a kill inside the write and a write that is cut off are excluded from that run: they do lose the file;
so are other namespaces, for which `load` does).

### KoupletTest

| model | code |
|---|---|
| `coll[u]` | a `TestCollection`; entries are in a sequence that only grows, and pointers to them are indices, so that an id that is used twice has two entries and `Latest` is what the map holds |
| `waiting`, `running`, `dirty`, `recent` | `waitingCollections`, `runningCollections`, `entryMap`, the start times that `MinimumTimeBetweenTestRuns` still covers (`TRUE` when it has a file) |
| `saved[u]` | the files of a collection: entity, shallow entries, results |
| `jobs` | the Jobs, by collection and id; `copy` tells Jobs of one id apart |
| `NameOf` | the name of each object: several may bear one in turn, at most one at a time |
| `Reconcile`, `Register` | `Reconcile`, `GetOrCreateCollection` |
| `ListJobs`, `Examine*` | `process`, `processRunningJobs`, `handleFinishedRunningTestJob`, one iteration a step |
| `Start*` | `processWaitingTests`, one iteration a step |
| `FinishTurn`, `Promote`, `Settle` | the rest of `subProcess` and `Process`; `Gone` asks by name only, as the code does |
| `Percent`, `Public` | `generateStatus`: the best run of each test, found along `retryFromID` |
| `Resolve`, `CleanJobs`, `PruneFiles`, `Publish*` | `resolve`, the two scheduled tasks, the status updates |
| `ExamineHangs`, `PublishHangs`, `ExaminePanics` | the loops over `retryFromID`, when they do not end or follow a nil pointer |
| `Crash`, `CrashWriting`, `Load` | a kill, a kill within a bulk write, `load` |

A bulk write writes `ToWrite` in no order. With `io` it stops anywhere, at a file that cannot be opened and stays as
it was, or at one that is cut off and reads as if it were not there; the files of doomed collections (`worker.doomed`)
are removed before it, and those of some may stay (`kept`). `load` looks for an object in the namespace that the file
of its collection names (`kouplettest_persistence.go:109`), so namespaces do not meet here as those of builds do.

The Jobs that a turn looks at are those its one `List` returned (`worker.todo`, as they were then); the
slots are counted from the same list. A log is three kinds of answer: it says that all tests passed, or not, or
cannot be read; a run's own percentage is 100 or is not.

### Requeue

| model | code |
|---|---|
| `queue`, `processing`, `again` | client-go's work queue (external): a name is queued once, and once more if it comes while it is processed |
| `waiting[n]` | the delaying queue (external): ticks until the name is added; a name that waits keeps the earlier time |
| `window` | ticks until `nextBuildReconcileTime` / `nextTestReconcileTime`, negative when it is past |
| `Return`, `ReturnError` | the end of a reconcile, with what `append...ReconcileResult` makes of it |
| `Setup`, `Lead`, `Exit`, `NoMemory` | `main`, and the variables a new process begins with |
| `CreateObject`, `DeleteObject`, `ChangeObject` | the watches set up in `SetupWithManager` |

Both controllers are this module, with `Window` and `Delay` in the ratio of 45 to 90 or of 10 to 20 seconds. Time is
discrete; `MaxLag` bounds how long the worker may be behind.

### Builder and BuildCycle

| model | code |
|---|---|
| `Begin`, `Clone`, `FindRoot`, `Download`, `Login`, `Bud`, `Push`, `End` | the parts of `UtilEntrypoint.main`, in order |
| `Fail`, `Failed`, `Ends` | `fail()` or an exception; `assertSuccess` after a command that failed; the end of the program |
| `resources`, `fileOf` | the directory `resources`, and what follows the last slash of each URL |
| `storage` | whether `/var/lib/containers` holds anything |
| `lacks` | what the environment does not have: nothing when the operator made the Job, anything by hand |

`BuildCycle` EXTENDS both modules: `PodStep` is a step of the program, whose exit is an event in the queue
(`JobEvent`, since the controller owns the Jobs); `Look` is the start of a reconcile, which reads the Job first, and
`Conclude` or `GiveUp` its end. Only the failing read of the object by `Reconcile` itself is an error that is requeued
(`GiveUp`). When `subProcess` cannot read the object, or the Job, it logs that and goes on
(`koupletbuild_models.go:252`, `:286`): `Look` then shows nothing, the reconcile ends by `Conclude`, and `missed`
is set until a look succeeds. What is made of the exit code is `KoupletBuild`'s matter.

## The runs

Every property has a mutant in `PROJECT.json`: a small change of a definition, such as a bug in the code
would make, under which the same run finds the property violated.

| run | instance | shows |
|---|---|---|
| `build_safety` | 1 object, 2 attempts, 2 kills; API errors, files torn or cut off, other namespaces | `TypeOK`, `AttemptsInOrder`, `NothingAfterSuccess` |
| `build_reuse` | 2 objects under one name, 2 attempts, 1 kill; deletion | `VerdictEarned`, `IdleSaved`, `SavedIsPublished`, `DurableVerdict`, and that `KoupletBuild` implements `BuildPromise` (`KeepsPromise`) |
| `build_live` | 1 object, 2 attempts, 1 kill, fairness; deadlines, lost Pods, failing files | `VerdictFinal`, whatever deadlines pass; `SavedPrefix`; `AttemptsDecide`: without a kill the attempts alone decide a build, though Jobs hang; `DeadlineDecides`: a saved build whose time is over is decided though a kill may have cost it its Job |
| `build_cycle` | 3 builds, 2 URLs, 1 failing reconcile a process, looks that fail; restarts of the manager | `CycleTypeOK`; `TimersBounded`; `ExitNoticed`: no end of a Job is missed but by a look that fails; `SuccessIsPushed`, `PushedIsWhole`, `StorageCleared`: what exit code 0 is worth |
| `build_last_success` | 1 object, 2 attempts | violation of `SuccessWins` |
| `test_safety` | 2 objects of one name in turn, 1 test each; API errors, scheduled tasks, deletion | `EveryEntryListed`, `ActiveBounded`, and `PublishedIsSaved`: no object is given another's results |
| `test_faults` | 1 object, 1 test with 2 retries, 1 kill; files that fail, are cut off or torn | `TypeOK`, `EveryEntryListed`, whatever the files have lost |
| `test_restart` | 2 objects, 1 test each with 1 retry, 1 kill | `ActiveBounded`, `RetriesBounded`, `CollectionsInLine`, `FilesSuffice`, `CompleteMeansDone`, `PercentEarned`, `PublishedIsSaved`, `PublishedStays` |
| `test_live` | 2 objects, one of 2 tests, 2 at a time, fairness; expired tests | `NoStrayJob`, `AllTestsEnd` |
| `test_ids` | 1 object, 1 test with 2 retries, 1 kill | violation of `RetriesAreCounted` |
| `test_deleted` | 1 object, 1 test, fairness; deletion | violation of `DeletedAreDropped` |
| `requeue_chain` | 2 names, no errors | violation of `ScheduledAhead` |

### Bounds, and why they are enough

`build_cycle` reaches 1.7 million distinct states, `build_reuse` 1.4, the others about a million or fewer.
The proofs lift these bounds, on objects, attempts, tests, kills, URLs and times, for every invariant that a theorem
states; what follows matters for liveness, for the properties that are only model-checked, and for finding out.

* *Two attempts*: attempt 1 is not the last, attempt 2 is; one can be completed while the other is active,
  and one name can be taken while the next is free.
* *Two objects*: an old and a new bearer of a name; a collection that runs and one that waits. A third would
  only repeat either role.
* *One kill*: what a second kill meets that a first does not is a process that has already loaded, at the same
  places; the theorems hold for any number, where they do not exclude kills. `build_safety` has two, as it takes two for
  a build that was begun anew, because its object could not be read, to meet its old file again. In `build_cycle` the manager may restart any
  number of times.
* *No deadlines* in `build_safety`, where they would multiply the states by thirty: `build_live` has them, without API
  errors, and the theorems on all three invariants of that run have every fault.
* *Writes fail* in `test_faults` only in a process that is followed by another (`LastWritesSucceed`): nobody reads
  what the last one wrote.
* *Two tests at a time* in `test_live`, the fewest that can be used up in part; one elsewhere. *Two retries* are
  the code's default, and the fewest for which an id that is given twice can name its own retry.
* *Ticks*: `requeue_chain` has the code's ratio of deadline to delay, 2 to 4. In `build_cycle` it is 1 to 2, with a
  worker up to one tick behind. Three names are one more than the timers that fit into the delay.
* *Two URLs* and two file names: they may have the same one, and either that of a file of the repository.
* `MaxCopies` bounds the Jobs that exist at a time for one id. Two are needed to see a test started twice, as
  happens after a kill or an unacknowledged `Create`. In `test_live` and `test_deleted`, which have
  neither, it is 1; so it is in `test_faults`, where a worker that would make a second Job waits until the first is
  gone, which is why only properties of the operator's own data are checked there.
* `MaxActive` and `Nodes` stand for `MaxActiveTests * NumberOfNodes` and `NumberOfNodes`.

`CHECK_DEADLOCK FALSE` is in three configurations: in `build_reuse` nothing need happen once every object that may
bear the name has been deleted; in `build_cycle` a container that was run by hand ends, and there is no operator
beside it; in `test_faults` the worker may hang for ever (see violation 2 below) or wait for a copy. Symmetry, where
objects, URLs or files are interchangeable, is used in safety runs only.

### Fairness

* The worker runs (`WF(Operator)`): it is a goroutine, and no call it makes blocks for ever.
* Each object is reconciled again and again: watch events on owned Jobs, and the manager's resync every ten hours,
  put it into a queue that is served in order. The requeue timer does so sooner, but nothing rests on it: its
  chain may end (`requeue_chain`), and of several objects it need not be the one that waits which is requeued. In `KoupletBuild` this is `WF(Reconcile(u))`; in
  `KoupletTest`, where two objects compete for the idle worker, it is `SF(Reconcile(u))` for each, which is
  what a first-in-first-out queue gives.
* `KoupletBuild`: the time an attempt may wait for its Job to start passes. Nothing is assumed of Jobs.
* `KoupletTest`: a Job that exists starts, and then ends or reaches its expire time (both in `JobStep`), after
  which it need not do anything, and `MinimumTimeBetweenTestRuns` passes. Starting is a real assumption: the code has no deadline for a Job that
  never starts, nor for one that somebody deletes, and such a test is waited for for ever (see the hazards).

`AttemptsDecide` and `AllTestsEnd` are about executions without a kill, `DeadlineDecides` about any; none is
checked with API errors, under which a status update that fails is not made again, nor with `jobloss`.
`DeadlineDecides` is about one namespace and writes that are not cut off: with `elsewhere` a kill may have the build
dropped, and after a write cut off and a kill it begins anew, while the names of its Jobs are taken.

## What the violations show

1. `build_last_success`: the limit on attempts counts the attempt that has just succeeded and is looked at
   before the success is: a build whose last allowed attempt succeeds is Expired although its image was pushed.
2. `test_ids`: `nextTestEntryID` is advanced without its collection being noted as changed. After a restart an
   id is given twice; when the second is that of a retry of the first, `retryFromID` is the entry's own id, and
   the loops over it never end.
3. `test_deleted`: a start that fails counts as a change, so a deleted collection with a test left to start keeps
   `Process` in its loop; the code that would drop the collection comes after the loop.
4. `requeue_chain`: the delaying queue keeps the earlier time of a name that waits. A reconcile of the same object
   after the deadline has passed, and before its requeue is due, moves the deadline, while the requeue it asks for
   is swallowed by the one that waits; when that one fires the deadline still lies ahead, and no other follows. It
   takes one object, one event and no error. Until the next event or resync no builder Job and no test expires, and
   no start that waits for `MinimumTimeBetweenTestRuns` is made.

Not findings, but seen while modelling, and in the models unless said otherwise: a build that expires by its overall
time keeps its active attempt, whose Job runs on, which a comment leaves to a caller that does not do it; after a
restart a saved build is attached to whatever object now bears its name, and stays in memory under the old UID as
long as that object exists; `load` looks for all builds' objects in one namespace, that of the first request, so that
a restart alone may drop the build of an existing object, which then begins anew, or have its status published on another object
(`koupletbuild_persistence.go:142`); a reconcile that cannot read the object or the Job a second time ends well, so
that the end of a Job is noticed only when something else has the build reconciled (`koupletbuild_models.go:252`,
`:286`); a build whose write was cut off is forgotten by the next process unless it was written again; a terminal
build whose status update failed is never published again; a collection that
completed on file just before a kill is not published after it; a build that load could not match with its object
crashes the next cleanup; the collection of a deleted KoupletTest lives on when its name is used again soon enough,
and then fails to start its tests for ever, as in violation 3; "Return and don't requeue"
(`koupletbuild_controller.go:106`) may requeue the name of an object that was deleted, and take the shared
deadline for it; a builder run by hand without a registry user returns with exit code 0. Not in the models: start
times are forgotten after an hour, also where `MinimumTimeBetweenTestRuns` is longer
(`kouplettest_models.go:412`); the scheduled deletion of Jobs looks at one namespace only, that of the request
(`kouplettest_models.go:344`); the place of a log is recorded though its upload failed (`kouplettest_models.go:1268`).

## The proofs

Every theorem is about all sets of objects, all numbers of attempts, tests, retries, URLs and restarts, and all
sets of faults, unless it says otherwise. The assumptions on the constants are those of the modules
(`BuildAssumption`, `TestAssumption` and their like: the bounds are naturals, the object that stands for none is
none, `Faults` are fault kinds). Some theorems also have a hypothesis on faults or restarts. What a hypothesis
excludes is where the code loses the property, not where the proof stops: TLC finds it violated there, and the
places below say how. Five theorems about the files of `KoupletTest` share one hypothesis, and for these a table
says which property was seen to fail of what.

| theorem | property | hypothesis |
|---|---|---|
| `TypeCorrect` | `KoupletBuild!TypeOK` | |
| `AttemptsStayInOrder` | `AttemptsInOrder` | |
| `SuccessIsLast` | `NothingAfterSuccess` | |
| `VerdictsAreFinal` | `VerdictFinal` | |
| `VerdictsAreEarned` | `VerdictEarned` | no `api`, `elsewhere` |
| `FilesAreBehind` | `SavedPrefix` | no `api`, `elsewhere` |
| `VerdictsArePublished` | `SavedIsPublished` | no `api`, `elsewhere` |
| `VerdictsAreDurable` | `DurableVerdict` | no `api`, `elsewhere` |
| `EverythingSaved` | `IdleSaved` | no `api`, `io`, `short` |
| `PromiseIsKept` | `KeepsPromise` | no `api`, `elsewhere`, `torn`, `short` |
| `TestTypeCorrect` | `KoupletTest!TypeOK` | |
| `EntriesAreListed` | `EveryEntryListed` | |
| `JobsBounded` | `ActiveBounded` | |
| `NobodyIsPassed` | (an action property of its own) | |
| `TurnsAreInOrder` | `CollectionsInLine` | no `api`, `io`, `torn` |
| `RetriesAreBounded` | `RetriesBounded` | no restarts, or no retries |
| `RetriesAreFoundOut` | `RetriesAreCounted` | no restarts, or no retries |
| `NothingPanics` | (an action property of its own) | no restarts, or no retries |
| `NoJobIsStray` | `NoStrayJob` | no restarts, no `api` |
| `FilesAreEnough` | `FilesSuffice` | `Steady` (see its section) |
| `CompleteIsDone` | `CompleteMeansDone` | `Steady` |
| `PercentIsEarned` | `PercentEarned` | `Steady` |
| `PublishedWasSaved` | `PublishedIsSaved` | `Steady` |
| `PublishedForGood` | `PublishedStays` | `Steady` |
| `TimersAreBounded`, `CycleTimers` | `TimersBounded` | |
| `ImagesAreWhole`, `CycleImages` | `PushedIsWhole` | |
| `StorageIsCleared`, `CycleStorage` | `StorageCleared` | |
| `ComponentsImplemented` | `BuildCycle` implements `Requeue` and `Builder` | |
| `CycleTypeCorrect` | `CycleTypeOK` | |
| `ExitsAreNoticed` | `ExitNoticed` (which allows for a look that failed) | |
| `SuccessesArePushed` | `SuccessIsPushed` | |

### A build: `KoupletBuildProofs`

None of the four properties is inductive: a worker about to create a Job might, in an unreachable state, hold a build
that is decided, or that already has as many attempts as allowed. The inductive invariant (theorem `Invariant`)
adds what the worker may rely on at each place: the build it works on is known; at `"create"` it is running, has
no active attempt and no success, and has an attempt left; and every record, in memory and on disk, is
well-formed: ordered, dated before `stamp`, with a success only at the end and only when decided. It also has the
records on disk satisfy all that those in memory do, because `Load` makes the latter from the former.

The argument goes by action (`StepInvariant`). What the operators on a build do to a good record are lemmas: a scan
followed by the decision keeps it good (`GoodPass`), and so do a new attempt (`GoodCreate`), the passing of time
(`GoodLater`) and reading it back from a file (`LoadedGood`). `PassScan`, `CreateJob` and `Load` use these; the
other steps leave `db` and `disk` alone, copy between them, or remove from them. `VerdictFinal` follows from the
invariant, from the fact that the map of a process that is down is empty (`DownStep`), and from a look at each
action that changes `db`.

### Its files: `KoupletBuildDurableProofs`

What relates a build in memory to its file, its Jobs and its published status needs all of these in one invariant,
`DurableInv`. Beside the one above it has the parts

* `SoundInv` (theorem `Sound`, under every fault): a build is Completed only with a successful attempt, and
  `successResult` says the same as the state; only created objects have builds; a Job that succeeded has pushed;
* `HistoryInv`: the file is `Behind` the map: its attempts are the first of those in memory, its active attempt is
  active still or was completed, its verdict is the verdict; and where the worker is at work on an object that has
  been replaced, the new bearer of the name has nothing yet;
* `EarnedInv`: the Job that has the name of an active attempt is that attempt's own, in memory and on file, which is
  what makes reading the result of a Job *by name* sound;
* `PublishedInv`: a build that is being saved has been published as it is, and nothing is saved over a verdict.

*Why `api` is excluded.* When the object of a saved build cannot be read at `load`, its entry is empty, the next
reconcile starts the history anew, and a kill before it is saved brings the old file back, whose active attempt
then finds another history's Job under its name. It takes two restarts, and TLC finds `VerdictEarned` violated.
The other properties here fail in the same way, of the record whose history was started anew.

*Why `elsewhere` is excluded.* With one kill and no other fault TLC finds `SavedIsPublished` violated, as a build
that was led astray publishes its verdict elsewhere, and `KeepsPromise`, as the build of an existing object is
dropped with its file. `VerdictEarned` is violated when objects are deleted besides, or Jobs lost: a Job made here by a
build of another namespace may then be taken for the build's own. `SavedPrefix` and `DurableVerdict` are violated with
lost Jobs and failing files besides. `IdleSaved` needs no such hypothesis.

*Why `io` and `short` for `IdleSaved`*: a write that fails is logged and not made again. *Why `torn` and `short` for the
promise*: a kill between the truncation and the write, or a write cut off, loses the record.

`PromiseIsKept` maps states as `KeepsPromise` does, a file open for writing counting as written. Of the worker's
steps only `OpenFile` and `Cleanup` are then visible in the ledger, besides the creation and the deletion of
objects; that each is a step of `BuildPromise` follows from `DurableInv` (the attempts on file only grow, a
verdict is not overwritten) and `PromiseInv` (a torn file is the one the worker is writing, and cleanup does not
take the build of an existing object for an obsolete one).

### Tests: `KoupletTestListsProofs`

`ListsInv` holds under every fault and any number of restarts. Its parts: each list of a collection, and the two of
the process, `Enumerates` exactly the members of its bucket, each once (`CollsInv`, `LineInv`); files are well-formed
(`FilesInv`), and what is noted as changed exists (`DirtyInv`); the worker's index is within its lists (`WorkInv`);
no two collections have the same date, in memory or on file (`DateInv`, on which `load`, which sorts by dates,
rests). The lemmas say what selecting, sorting and appending do to a list that enumerates a set, and what
`Loaded` makes of any files, complete or not. The restoring of entries after a failed start and the failing load of a
file are the cases a test hardly reaches. Filters are written with `Only`, a recursive function of our own,
because what the definition of `SelectSeq` says is hidden from the provers.

### Tests: `KoupletTestProofs`

* **Jobs.** `JobsBounded` rests on `SlotsInv`: the places a turn has left, *with* the Jobs there are now, do not
  exceed `MaxActive`. They are counted once, when the Jobs are listed; from then on Jobs of a collection only end
  or disappear, but for those the turn starts, each of which, acknowledged or not, takes a place.
* **Order.** `NobodyIsPassed`: whatever fails, every step but `Load` keeps `OrderInv` (each line is in order of dates,
  and what runs is older than what waits). Across restarts the files must say the same (`SubmissionInv`: order on
  file, and a file that differs from memory is noted as changed), which needs its hypotheses. *`api`*: an object
  that cannot be read at `load` leaves its collection out; a younger one is promoted and saved as Running; after
  the next restart the older is back, and waits behind it. *`io`, `torn`*: the file of the older still says Waiting,
  or is lost, while that of the younger says Running.
* **Retries.** `IdsInv`: in a collection ids ascend, a retry comes after the run it repeats, which has ended and
  is repeated by no other, and the next id is free. So the chain along `retryFromID` is finite and has no gap: the
  loops over it end, follow no nil pointer, and count what is to be counted. The lemmas on `Lineage` show this of
  a chain by way of the first place at which it would fail, as the provers cannot use the library's induction.
  *Restarts with retries* are excluded as `nextTestEntryID` is not noted as changed, so an id can be given twice;
  `test_ids` is the counterexample, and with files that are lost besides a retry can be left without the run it
  repeats, and the loops follow a nil pointer. In between lies what `test_restart` checks: a single retry of a
  single test, with a kill.
* **Stray Jobs.** `StrayInv`: an unfinished Job of an existing object is the only one of its test, which is running
  (`JobInv`), and what the turn listed is still true when it is acted upon (`TodoInv`). *`api`, restarts*: a `Create`
  that is not acknowledged, or a kill after it, leaves a Job that nobody waits for.

### Tests: `KoupletTestFilesProofs`

What is on file, what is in memory and what is published are three states of one collection, each of which lags
behind the one before. `SteadyInv` (theorem `SteadyInvariant`) says how:

* `SavedInv`: the files of a collection hold, one for one, the entries that `Loaded` makes of them (`Mirrors`), and
  these are `Whole`: a run of every test, and of every run that ended its result and, where one is due, its retry;
  without the file of the collection there are no others. That what is loaded is what was written rests on
  `SortedOnce`: lists in ascending order of ids with the same elements are equal.
* `MemoryInv`: the collection in memory is whole, has `Grown` from the one on file (runs are added, results
  stay, a completed collection does not change), and each difference is noted in `entryMap`. A test that
  ends and its retry are made and noted in one step (`handleFinishedRunningTestJob`), so that one bulk write has both.
* `WrittenInv`: while statuses are published, files and memory agree. It holds as `Resolve` writes all that is noted
  (`WrittenFiles`), and comes before the tasks and the status updates.
* `PublicInv` and `PercentEarned`: what is published is on file, and all that is on file where the collection is
  complete. For the percentage, `RootOf` follows each run back to the test it repeats, so that what `Percent`
  counts along `retryFromID` is the set of tests with a run that passed (`PercentIs`), which only grows
  (`PassingStays`), and its share with it (`ShareGrows`).
* `ObjectInv`: while the operator is up, an object without a collection has no files; a name is borne by one object;
  what is to be published is in memory; collections whose files are to be deleted are not.

From it `FilesSuffice` and `PublishedIsSaved` are read off. `CompleteMeansDone` also needs that every chain of retries
has a last run (`LastRun`), and `PublishedStays` compares two states: the
files grow too, and what is published anew is read from them as they then are.

The hypothesis, `Steady`, is: no `io`; and no restarts, or no retries, no `api` and no `torn`. So it covers all that
fails but a write in a process that is not killed, with any number of retries; and any number of kills, between any
two steps of the worker, where tests are not retried. What it excludes, TLC finds to break the properties
marked, on one object with two tests:

| | `io` | restart, retries | restart, `torn` | restart, `api` |
|---|---|---|---|---|
| `FilesSuffice` | violated | violated | violated | violated |
| `CompleteMeansDone` | violated | | violated | |
| `PercentEarned` | violated | | violated | |
| `PublishedIsSaved` | violated | | | violated |
| `PublishedStays` | | violated | violated | violated |

*`io`*: a bulk write that fails forgets the rest of `entryMap`, and nothing writes it later. *Restart, retries*: an
id is given twice (violation 2), and the files of the second entry replace those of the first. *Restart, `torn`*: a kill within
the bulk write leaves some of what belongs together. *Restart, `api`*: an object that cannot be read at `load` is
registered anew, over its old files. Where nothing is marked no violation was met, and no theorem is claimed.
A single retry of a single test with a kill, which `Steady` leaves out, is what `test_restart` checks.

### Queue, program and cycle

* `RequeueProofs`: `TimersInv`: while no reconcile has failed since the start, timers are more than `Window` apart and
  each has waited as long as the deadline has been set. Timers that are apart and all within `Delay` are at
  most `Delay \div (Window + 1) + 1`, as no two are in the same period of `Window + 1` ticks (`ApartAreFew`).
* `BuilderProofs`: `DownloadInv` and `ImageInv` say that each URL's own file is in `resources` once it was
  downloaded, and stays until the image is built from it; `StorageInv` that the storage is in use only from the build
  on, and cleared at every end but a kill.
* `BuildCycleProofs`: every step of the composition is a step of one component or of neither (`ComponentSteps`), so
  the components' theorems hold of it (`ComponentsImplemented`). `ExitNoticed` holds for any number of errors as it
names the one way in which the end of a Job is missed, a look that fails; without `missed` TLC finds it violated. It and
  `SuccessIsPushed` need `PodInv` and `NotedInv`: what is seen and noted is the one exit code of the program, and only of
  the operator's Pod, whose environment lacks nothing.

### Only model-checked

Liveness, under fairness, is out of the prover's reach: `AttemptsDecide`, `DeadlineDecides`, `AllTestsEnd`. Every
invariant and action property of the passing runs is stated by a theorem. Where a theorem has a hypothesis and a run
goes beyond it, the rest is TLC's: that is `test_restart`, with a retry and a kill, for `RetriesBounded` and for the
five properties of `KoupletTestFilesProofs`.

### Not modelled

Edits of a spec while it is worked on; a `load` that fails as a whole, which ends the process; Job lists and objects
read from a cache that lags behind; Jobs and KoupletTests of other namespaces; the text of files, logs, labels and
results, and the upload of logs; the file of an entry's spec; start times older than an hour; a lease that two processes believe to hold; the first minute or
five minutes without scheduled tasks; the API types and generated code; the log parser; the older layout of the
operator, whose control flow is that of the copy modelled here.

## Plan

Done in this order: `KoupletBuild` with its promise, its runs and its proofs; `KoupletTest` with its runs, then names
used again and percentages; `Requeue`, `Builder` and their composition; the proofs of the last three, the refinement of
`BuildPromise`, the lists, Jobs, order and retries of `KoupletTest`, and then its files and what it publishes. What
would come next:

1. `FilesSuffice` and its like with retries and kills, as far as they hold: of runs whose ids were given once.
2. Lists that lag behind in `KoupletTest`; a completed collection that was not published.
