# Inigo: a TLA+ model of the test harness

Inigo is the integration test suite of Diego. Diego's own code is not in this
repository; what is here, and what this project models, is the harness: how parallel
ginkgo processes share one host, how ports and certificates are handed out, and how
every spec starts a copy of Diego and takes it down again, also when something in it
hangs, crashes or fails to start, how the specs listen to the containers they run
and watch the instances they asked for, and what a whole run leaves behind.

## 1. Inventory

| Part | Source | State | Operations | What is hard |
|---|---|---|---|---|
| Port authority | `helpers/portauthority` | two uint16 cursors | `New`, `ClaimPorts` | uint16 wrap, off-by-one, no release |
| World (component maker) | `world/components.go`, the three `*_suite_test.go` | address table, allocator, configs | one maker per component, `Setup`, `Teardown` | fixed and claimed ports of all processes on one host |
| Certificate authority | `helpers/certauthority` | two global mutexes, a depot directory | `NewCertAuthority`, `GenerateSelfSignedCertAndKey` | which calls may overlap, unlock on every error path |
| Set-up and teardown | `*_suite_test.go`, `helpers/stop_process.go`, `helpers/cleanup_garden.go` | process variables, running processes, containers | `BeforeEach`, `AfterEach`, `StopProcesses`, `CleanupGarden` | timeouts, retries, a failure in the middle of a teardown, leftovers of earlier specs |
| Announcement server | `inigo_announcement_server`, `helpers/callback.go` | list of announcements, package variables | `Start`, `Stop`, `AnnounceURL`, `Announcements` | concurrent requests, `Stop` before `Start`, containers that outlive their spec, a port used again by this process or by another |
| Suite start and end | `*_suite_test.go`, `world/tmpdir.go` | temporary directories, built artifacts, image stores | `SynchronizedBeforeSuite`, `AfterSuite`, `Setup`, `Teardown` | process 1 ends before the others; a step of several fails, some of them in silence |
| SQL runner | `world/components.go:481-518` | one database per process, three connections | run, drop, create | a leftover that keeps the database open, a connection that is never closed |
| Route emitter configurations | `cell/local_route_emitter_test.go` | a slice of functions that lives as long as the process | `append`, `RouteEmitterN` | shared arrays, stale entries |
| Pollers, route helpers, event matcher | `helpers/pollers.go`, `route_helpers.go`, `match_bbs_event.go` | the map of one call | polls | instances that die, move and come while they are polled |
| Request builders, timeouts, checksum, copy | `helpers/` | none | pure | - |
| Driver scripts, fixtures | `bin`, `fixtures` | none | I/O | - |
| Diego scenarios | `cell/*_test.go`, `executor`, `volman` | Diego's | the specs' bodies | belong to Diego |

Interaction: the suite files compute the addresses and the allocator of a process
from its ginkgo process number and pass them, with a certificate authority, to
`world.MakeComponentMaker`. The makers turn them into ifrit runners, some of them
claiming ports. `BeforeEach` blocks invoke the runners and keep the processes in
variables; `AfterEach` blocks clean garden up and stop what the variables hold.
Process 1 builds what all processes use; each process makes its own directories,
certificate depot and image stores, and removes them in its `AfterSuite` as soon as
it has no more specs. Containers report to the spec over HTTP (announcement server);
the spec asks the BBS and the router (pollers).

Correctness, per part:

* Port authority: no port twice, none outside the range, none lost, an error
  exactly when too few are left.
* World: no two running components share a port, in one process or in two;
  what a component is told to call is the component meant, or nobody.
* Certificate authority: pkix operations are serialised; no lock outlives its
  call; every call returns.
* Teardown: every process stays within reach of a later teardown; whatever is
  left behind is reported; the suite's components stop in order; the suite
  recovers after a fault; every spec ends.
* Announcement server: it behaves like a board on which posts and reads are
  atomic, nothing is posted after `Stop`, a read shows all that was answered
  before, and the announcements are those of the spec's own containers, or of
  containers that had the port before.
* Whole run: files outlive the specs that use them, every spec has a database of
  its own, a process that reports no failure leaves nothing behind (with named
  exceptions), and the run ends.
* Pollers: no stale result, an exact one when nothing changes; the crash a spec
  waits for is that of its own instance.

The hazards behind these properties, with their lines, are in `PROJECT.json`.

## 2. Modules

| Module | Models |
|---|---|
| `PortAllocator` | the arithmetic of `New` and `ClaimPorts`, in `MaxPort + 1` values (65536 in the code) |
| `PortAuthority` | one allocator as a state machine, with the history of its claims |
| `PortPool` | the abstract specification: a set of free ports from which sets are only ever taken |
| `PortAuthorityProofs` | its theorems |
| `World` | one allocator per process, the address table, the ports each maker listens on |
| `Wiring` | extends `World`: the addresses in the configurations, the v0 maker, the route emitters' config functions |
| `WorldProofs`, `WiringProofs` | isolation of up to nine processes, distinct ports inside a spec; the wiring |
| `CertAuthority`, `CertAuthorityProofs` | goroutines in the two functions, at the granularity of pkix calls and lock operations; their theorems |
| `Suite`, `SuiteProofs` | one process running specs: blocks, process variables, garden's containers, faults; their theorems |
| `AnnouncementBoard` | the abstract specification of the announcement server |
| `AnnouncementServer`, `AnnouncementProofs` | the server, its handler goroutines and lock, containers and specs; their theorems |
| `SQLRunner` | the database runner and its connections |
| `TestRun` | extends `SQLRunner`: a whole run of a suite, from `SynchronizedBeforeSuite` to `AfterSuite`, in all processes |
| `TestRunProofs` | the theorems about it and the runner |
| `Pollers`, `PollersProofs` | the pollers and the event matcher against a changing LRP; their theorems |
| `MCPortAuthority`, `MCWorld`, `MCWiring`, `MCCellSuite`, `MCVolmanSuite` | values for the constants, and the assumptions on them that theorems need |

### PortAllocator, PortAuthority, PortPool

`U16` is Go's conversion to uint16; `Insufficient` and `Claimed` are the check and
the assignment of `ClaimPorts` with the wrap of every sum. The history variables
`range` and `claims` exist only to state the properties. `PortPool` knows neither
order nor cursors: `free` is mapped to the interval ahead of the cursor and
`granted` to the set of claimed blocks.

### World

`Addresses[p]` is the record the suites build; `GardenPorts`, `RouterPorts` and so
on are the makers. A component is a record of its kind and, if it claims, the first
port of its claim. A spec is a sequence of components to start; `MCWiring` takes the
sequences from the test files. Two groups that a test configures with the ports of
one claim (`evac-cells`, `local-cells`) are one component each. The failed-teardown
behaviours are in `Suite`; here `EndSpec` stops everything.

`Wiring` adds what `World` leaves out: who calls whom. A dial is a component kind, a
port and whether TLS is spoken; `BBSDials`, `RepDials` and so on are read off the
makers, `ClientDials` off the clients of the tests, the `V0` ones off the v0 maker.
`configs` is the slice `routeEmitterConfigs` as its length and capacity, `spare` the
array element behind its last one, which two later `append`s both write when there
is room; so the order of the four steps in `EmitterSteps` matters.

### CertAuthority

`pc` says where a goroutine is between two lock operations or pkix calls. Keys,
certificates and files are left out. Any step that can fail may fail
(`HandleError`), and what the code unlocks on that path is unlocked in the action.

### Suite

The parameters `BeforeEach` and `AfterEach` are the blocks of the suite and of the
contexts of its test files, as sequences of components and of teardown steps. A spec
is in one context, or in none. Contexts of one file share its process variables and
its `AfterEach` (`FileOf`), and a context may start nothing: in
`task_lifecycle_test.go` lines 342-388 are specs without a cell, after the file's
`BeforeEach` has set the variables to nil. A file hands all its processes to one
`StopProcesses`, which goes on to the next when one hangs. A process is identified
by its component, the file (or suite) whose variable it was started for and the spec
that started it; `handle` is what the variable holds. A component whose port is
taken by a leftover cannot start (`InvokeFails`), and the variable keeps its value,
as in `x = ginkgomon.Invoke(...)`. `Restart` is a test that interrupts bbs or garden
and starts it again; the interrupt itself may time out. Components in `InProcess`
(the volman driver syncer) have no port and are exempt. `CleanupGarden` is stepwise:
list, then each container up to three times. `StopProcesses` is stepwise: each
argument is skipped, terminates, or times out, and the intercepted failures end the
block at the end of the call. Faults are counted (`MaxFaults`): `hang` (SIGTERM does
not help; SIGQUIT may), `crash` (at any time), `start`. `destroy` errors are not
counted. Taken as given about garden: containers go with the garden process that
knows them, and a destroy in progress is not counted as a leak. Left out are the
second reps that a few contexts start in addition, and the spec that stops its cell
with `StopProcesses` in the middle of its body.

### AnnouncementServer, AnnouncementBoard

Every request is a goroutine that goes through the stages `sent`, `active`, the
section under the lock, `answering`; `registered = append(registered, x)` is a read
and a write. `sync.RWMutex` is modelled by what its documentation says: `Lock` first
shuts out new readers, then waits for those inside. `Stop` is
`httptest.Server.Close`: it closes the listener and new connections, then waits for
requests in progress. A spec whose set-up fails calls `Stop` on the previous server,
or on nil. `CleanupGarden` may leave containers, which then meet the server of a
later spec if the kernel gives it the same port. The other ginkgo processes listen
on the same address: `OtherStarts`, `OtherAnnounceURL` and `OtherStops` are their
servers and containers, as far as they can meet this process. They may take and free
ports at any time, and a container of theirs may outlive its server. `inherited`
records who had a server's port before it had it. On the board a post, a read and an
answer are single steps; `registered`, `server` and "not yet stopped" are mapped to
`board`, `current` and `open`.

### SQLRunner, TestRun

The runner's statements are its steps; PostgreSQL refuses to drop a database with
sessions, MySQL does not, and `driver` is one or the other. `defer db.Close()` is
bound to the first of three connections; the third is never closed. `TestRun` has
one `phase` per step of `SynchronizedBeforeSuite` and `AfterSuite`, for the three
suites, and `files` is what exists on the host. A fault may be put anywhere
(`MaxFaults`): a build, a directory, a store, a runner, a teardown that is aborted
before it stops plumbing (the ways how are in `Suite`), and each removal of the
`AfterSuite`s. A removal that fails ends the `AfterSuite` where the code asserts on
it (volman's depot, the stores, the component maker's directory, the executor's
suite directory); the cell suite drops the error of `os.RemoveAll(suiteTempDir)`,
and what `RemoveAll` did not get to stays (`ignored`). gexec's build directory is
never removed. Locket and bbs are one client of the database, whose port an earlier
spec's locket may hold.

### Pollers

`Diego` is the environment: records are claimed, run, crash, are moved (a second
record, evacuating or suspect), are stopped, or are made again by the BBS's
convergence, and the route emitter follows some time later. `Test` is the spec,
which may scale the LRP at any time, also before the last change has settled
(`lrp_test.go:443`). `HelloWorldInstancePoller` is one step per request, so that
everything may happen between two of them; `served` and `quiet` record what happened
during the call. An endpoint whose container is gone gets the router's 502 or, when
something else has taken the port, any other answer (`Text`): a 404 or 502 that is
not the router's fails the spec, any other body is recorded. The other pollers read
the BBS once, and are one step each. Every one of them may end the spec: the BBS
returns an error, an index does not have exactly one record, a list is shorter than
the one before (`Failures`). A BBS with the old API answers 404, which two pollers
handle and `filteredActualLRPs` does not. A spec either watches routes or records,
which keeps the state space small and loses nothing: the two groups of pollers share
no state.

## 3. Runs

| Run | Bounds | Shows |
|---|---|---|
| `port_authority` | 4-bit ports, ranges 0..5 to 5..11, claims of 1, 2, 4, at most 6 claims | the four safety properties, exact refusals and the refinement; inverted-by-one, empty and exhausted ranges occur |
| `port_authority_top` | a range ending at `MaxPort` | **violation**: the check wraps |
| `world` | processes 1 and 2 (adjacent numbers are the ones whose addresses could meet), six kinds of specs, three and one of them, ranges of 43 ports so that they run out, both makers | isolation, distinct ports inside a spec, dials that reach the component meant, emitters that keep their cell |
| `world_exhausted` | one process, real range, 147 specs | **violation**: 96th spec refused |
| `cert_authority` | three goroutines | exclusion, no leaked lock, every call returns |
| `cert_authority_csr` | two goroutines | **violation**: two signing requests at once |
| `cell_suite` | three specs, two files, three contexts, one container, two faults | no orphans, failures reported, no silent leaks, order of stopping |
| `volman_suite` | three specs, one file, one container, two faults | recovery one spec after a fault, every spec ends |
| `cell_suite_poisoned` | one hang | **violation**: the cell suite does not recover |
| `announcements` | two containers, two specs, one port, one other process | no data race, fresh reads, no foreign announcements but those named, answers, refinement of the board |
| `test_run` | two processes, two specs each, one fault, three suites, two database servers | lifetimes of files, clean databases, reported leftovers, bounded connections, termination |
| `pollers` | routes or records; scaling to 1 and 2 instances, three placements, three requests per call, any request lost, old and new BBS | soundness and exactness of polls, crash events |

Three specs are enough for a fault, the spec that meets what it left, and the one
after; two faults for a fault in the spec that cleans up after another. One
container suffices because `CleanupGarden` treats containers independently. Three
specs with TCP routes give `routeEmitterConfigs` room for one more element, the case
in which two slices share it. Two containers race for the lock, and one may be left
over, or another process's, while the other belongs to the new spec. With one port
every server gets the one that another has given up, which is the case that can go
wrong. The cell suite's specs end too: `SpecsEnd` is checked in `volman_suite`
because there it is cheap, and `cell_suite` passes with it as well. Two processes
are process 1 and another. Three placements are a moved instance, its replacement
and another index; the code makes 20 requests per call, the assumption is that this
is no less than the number of endpoints. Two runs were also made with larger bounds,
which take them close to five minutes: `announcements` with two ports, and `pollers`
with scaling to 0.

The contrast between `volman_suite` and `cell_suite_poisoned` is the point of
`AfterEachCleansUp`: the volman suite starts garden first and stops everything in
one `StopProcesses`, so the next spec always has a garden to list and reaches the
stops. The cell suite starts plumbing first and garden second: once plumbing is left
over and garden is gone, neither the set-up nor the teardown gets through.

What the models make visible without a run of their own. `RoutingAPI` claims two
ports and also listens on a third (`MTLSListenPort`), which belongs to whoever
claims next; in the specs as they are, nobody does while it runs
(`SpecPortsDistinct`). A server may get the port that another ginkgo process's
server has just given up while a container of that process is still to announce:
then `Expect(Announcements()).To(BeEmpty())` (`task_lifecycle_test.go:385`) fails in
a spec that did nothing wrong; it is an exception in `NoForeignAnnouncements`.
`LRPInstanceStatePoller` fails a spec whose cell's presence lapses for a while,
since the index has two records then, although its branch for an old BBS resolves
such a pair. `offsetPort` adds ten per rep, so the second rep of process p has the
port of the first rep of process p + 10. After CleanupGarden has returned errors a
bbs that does not stop hides them and keeps garden running. The runner's third
connection is lost in every spec, so a process that runs all 147 specs of the cell
suite needs more connections than the 100 that PostgreSQL allows by default, which
`bin/test.bash` raises to 2000 for both servers (`ConnectionsBounded` is the bound).
Once process 1 has ended, the other processes' file servers serve no lifecycle
archive (`ArchiveServedWhileProcess1Runs` says that nothing else causes it), and
their certificate depots stay on the disk. That is one of the exceptions in
`LeftoversReported`, with gexec's build directory, the config files and, where the
cell suite's unchecked `RemoveAll` fails, the suite directory. The range of a tenth
process would start at 10000, among the garden addresses (hence 1..9 in
`SupportedRun`). `task_lifecycle_test.go` sets its process variables to nil while a
process that did not stop may still run: hence `Resets` in `NoOrphans`, and in
`PassedMeansClean`, since a spec of that file without a cell of its own passes
beside the one that was left.

Deadlock is checked where the system never stops (`CertAuthority`); the other
specifications end when their bounds are reached.

### Fairness

`CertAuthority`: weak fairness for running goroutines; strong fairness for acquiring
a mutex, since `sync.Mutex` hands a contended lock to a waiter that has starved for
a millisecond. `Suite`: weak fairness for set-up, body and teardown: every `Invoke`,
`Eventually` and `Wait` in them has a timeout. Nothing is assumed about faults,
containers or the cell. `AnnouncementServer`: weak fairness for handlers in progress
and for the return of a call, which the go runtime and the kernel give; for a writer
it is enough because `Lock` shuts out new readers. Nothing makes a container connect
or a spec end. `TestRun`: weak fairness for the steps of each process and of its
runners, all of which are calls with a timeout or external commands that end.

## 4. Proofs

All theorems hold for every value of the constants allowed by the named assumptions,
and are checked by TLAPS. Where a theorem has a hypothesis on the constants, an MC
module assumes it too, so that TLC evaluates it on the values taken from the code;
every inductive invariant was checked by TLC first.

* `PortAuthorityProofs`. `TypeCorrect` needs no assumption on the arguments. The
  others assume `SafeArguments`: a range that is not inverted by more than one,
  claims of at least one port and no sum above `MaxPort` (the run
  `port_authority_top` shows that this is needed). The inductive invariant `IInv`
  says that the cursor is in the range or just behind it, that claims lie behind the
  cursor, in order, and tile what is there. Disjointness and containment are not
  inductive by themselves: they say nothing of where the cursor is. `Disjointness`,
  `Containment`, `Conservation` follow from it, `Refusal` (an action property) from
  it and the cardinality of intervals, and `Refinement` maps every step to `Open`,
  `Grant` or a stutter.
* `WorldProofs`. `Isolation`: with processes numbered 1..9 and ranges that do not
  reach the next one (`SupportedRun`), no two processes share a port, for every set
  of scenarios and any number of specs. `IInv` bounds each cursor and each claim by
  its process's range; `PortsInZone` puts whatever a component listens on into the
  zone of its process, `ZonesDisjoint` separates the zones. `DistinctPorts`: within
  a spec no two components share a port. That is not true of every spec: the port
  behind a routing API's claim goes to whoever claims next, and the second rep's
  secured port is also that of a local-cells group. `CompatibleScenarios` excludes
  exactly these two; `MCWiring` checks that the specs of the repository satisfy it.
  The invariant orders the claims below the cursor and says which kinds the rest of
  the plan may still contain.
* `WiringProofs`. Every step of `Wiring` is a step of `World` or leaves its
  variables alone, so the theorems of `World` carry over. `OwnCells` needs no
  hypothesis: between the `append` for a cell and the emitter made from it the array
  element behind the slice is that cell's. `WiringTypeCorrect` and `DialsAreSafe`
  assume `SupportedRun` and `CompatibleScenarios`. The variable `routingAPI` keeps
  the port of a routing API that may be long stopped; the invariant
  `LatestRoutingAPI` says that the cursor has passed that port, so nothing else is
  ever found on it.
* `CertAuthorityProofs`. `LocksSound` and `SigningSafe`, for any number of
  goroutines; the invariant is that a lock's holder is the goroutine in its section.
* `AnnouncementProofs`, for any containers, ports and number of specs. A handler in
  a section holds the lock of the server its request went to (`LocksHeld`), which is
  the current server as long as the request is under way (`RequestsCurrent`): from
  these `LockSafety`. `Freshness` also needs that what a writer loaded is still the
  list when it stores (`ListsComplete`), `OwnAnnouncementsOnly` where each running
  container comes from (`OriginsKnown`): one that has the current server's port is
  of the current spec, or had it before the server and was left by a cleanup or
  belongs to another process. `Refinement` maps a write to a post, an encode to a
  read, and the rest to openings, closings, answers or stutters of the board.
* `TestRunProofs`, for any number of processes, specs and faults and the three
  suites. `FilesInv` relates process 1, which owns the suite directory, to the
  others, and how far a process is to what it has made and removed; `SpecInv` is
  about one process, and other processes' steps leave it alone (`OthersKeep`). From
  these `CertsSafe`, `ArchiveSafe`, `FreshDatabase`, `NothingLeftInSilence` (every
  removal may fail), `FaultlessRunsPass` and, with the cardinality of the set of
  connections, `FewConnectionsLost`. `CleanSlate` is not inductive: it needs that a
  runner at work belongs to the current spec (`RunnersInv`), whatever earlier
  runners are left.
* `PollersProofs`, for any number of requests and up to ten instances (the code
  sorts indices as strings; with one digit that is the order of numbers).
  `PollersAssumption` says that the router never has more endpoints than a call
  makes requests, without which a quiet call need not ask every endpoint.
  `SoundPolls` follows from what was collected being what could respond;
  `ExactPolls` from `Progress`: a quiet call has asked a stretch of the router's
  ring up to the current turn, or all of it. `Sorted` is defined by rank, so that
  the proofs need no induction over lists. `OwnCrash` rests on guids being used once
  and reported crashes staying true (`RecordsInv`), also when instances are scaled
  away and back while they stop, and on the crash seen having been reported
  (`SpecInv`).
* `SuiteProofs`, for every suite of blocks that stop what they start
  (`SuiteAssumption`), any number of specs, containers and faults. `WithinReach` and
  `PassedIsClean` follow the teardown: while a spec has not failed, its variables
  hold what it runs (`HeldInv`), what they hold is yet to be stopped or gone
  (`ToBeStopped`), and when the suite's block runs, whatever is left of the file's
  was out of its reach and is a failed spec's (`FileIsDone`). `StopsInOrder` assumes
  `StopsInReverse`, which is about the suite's own block: the cell suite's stops one
  process per call, the last one first, the volman suite's does not. The files stop
  theirs in one call, so nothing is said of their order; what a file could not stop
  may run while bbs and garden are signalled, and the theorem says that the spec
  which started it has then been reported as failed. `GardenFirstCleansUp` assumes
  `GardenFirst` and a block of ports per spec, which the volman suite satisfies and
  the cell suite does not: `cell_suite_poisoned` is the counterexample without it.
  `NoLeakUnnoticed` assumes `CellsInFiles`, which both satisfy; its invariant says
  that a spec which has lost containers is reported or bound to fail (`Doomed`).
  Every step is put into one of a few kinds (`Kinds`) by what it does to the
  position, the processes and the verdicts, and each part of the invariant is shown
  to be kept by each kind.

Only model-checked: liveness (`CallsReturn`, `SpecsEnd`, `RequestsAnswered`,
`RunEnds`), which is out of the prover's reach. Every other property of the passing
runs is stated by a theorem. The four violated properties are false in general;
where they hold under an assumption (`ClaimsInRange`, `AfterEachCleansUp`) the
theorem has it as its hypothesis.

## 5. Plan

Done: all parts of the inventory that keep state are modelled and checked, and every
safety and action property of the passing runs and both refinements are proved.

Left:

1. Shorter proofs where one leaf lemma per kind of step would do (`PollersProofs`).
2. A bound instead of the violated `ClaimsAreServed`: how many specs of a given
   set of scenarios a process's range suffices for.
3. `CSRExclusive` restricted to goroutines that do not create authorities.

## 6. Not modelled

* Diego itself and the bodies of the specs, apart from the order in which they
  start components and the way they use the pollers.
* Request builders (`bbs_requests.go`): literals. `generate_guid.go`, `checksum.go`,
  `copy.go`: one call each. `timeouts.go`: reads two durations from the
  environment; what it sets is the reason for the fairness above.
* The two task pollers: one read of a record whose life is Diego's.
* What is compiled (`CompileTestedExecutables`, `BuildLifecycles`) beyond success
  and failure; the contents of config files beyond addresses and protocols.
* The branches for Windows, which skip grootfs and ignore failures in `Teardown`.
* The fixture application (stateless handlers) and the driver scripts.
