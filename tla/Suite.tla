------------------------------- MODULE Suite -------------------------------
(***************************************************************************)
(* One ginkgo process running the specs of a suite one after another: the  *)
(* BeforeEach blocks that start components, the body of the spec, and the  *)
(* AfterEach blocks with helpers.CleanupGarden and helpers.StopProcesses   *)
(* (cleanup_garden.go, stop_process.go).  The three suites differ in what  *)
(* they start and in which order they stop it, so that is a parameter.     *)
(* A failed assertion ends the block it is in; the AfterEach blocks of the *)
(* levels that were reached run anyway.                                    *)
(***************************************************************************)
EXTENDS Integers, Sequences, FiniteSets

CONSTANTS
  Contexts,     \* what a spec may be nested in: the contexts of the test files
  FileOf,       \* the file of a context, whose process variables it uses; the
                \* specs without blocks of their own use the suite's alone
  BeforeEach,   \* per block ("suite" or a context), what is started, in order
  AfterEach,    \* per block, the steps of the teardown, in order: records
                \* [op |-> "cleanup" | "stop" | "report", procs |-> <<...>>]
  Resets,       \* files whose BeforeEach sets their process variables to nil
  ClientAfter,  \* the component after whose start gardenClient is assigned
  Restarted,    \* components of the suite's block that tests restart
  InProcess,    \* components without a port: a second one can always start
  Containers,   \* containers a spec may create
  Blocks,       \* how many blocks of 10 ports the allocator has for garden
  FaultKinds,   \* of "hang", "crash", "start" and "destroy": what may go wrong
  MaxFaults,    \* bound on the faults (other than "destroy") of a behaviour
  MaxSpecs      \* bound on the specs of a behaviour

SuiteBlock == "suite"
AllBlocks == Contexts \cup {SuiteBlock}
Variables ==
  UNION {{<<FileOf[b], BeforeEach[b][i]>> : i \in DOMAIN BeforeEach[b]} : b \in AllBlocks}
Garden == "garden"
Cell == "cell"
MaxTries == 3          \* "try to Destroy the container up to 3 times"

\* The suite's block starts something; a context may start nothing.  The
\* AfterEach of a file is the same for all its contexts, and stops whatever any
\* of them starts.
ASSUME SuiteAssumption ==
  /\ {Blocks, MaxFaults, MaxSpecs} \subseteq Nat
  /\ SuiteBlock \notin Contexts /\ SuiteBlock \notin Resets
  /\ \A b \in AllBlocks : FileOf[b] = SuiteBlock <=> b = SuiteBlock
  /\ BeforeEach[SuiteBlock] # << >>
  /\ \A b \in AllBlocks :
       /\ BeforeEach[b] \in Seq(STRING)
       /\ AfterEach[b] \in
            Seq([op : {"cleanup", "stop", "report"}, procs : Seq(STRING)]) \ {<< >>}
  /\ \A b, d \in AllBlocks : FileOf[b] = FileOf[d] =>
       \A i \in DOMAIN BeforeEach[b] : \E s \in DOMAIN AfterEach[d] :
         /\ AfterEach[d][s].op = "stop"
         /\ \E m \in DOMAIN AfterEach[d][s].procs :
              AfterEach[d][s].procs[m] = BeforeEach[b][i]

\* The suite's own block stops one component at a time, the last one started
\* first.  (The files of the cell suite hand all of theirs to one StopProcesses.)
StopsInReverse ==
  \A s, t \in DOMAIN AfterEach[SuiteBlock] :
    AfterEach[SuiteBlock][s].op = "stop" /\ AfterEach[SuiteBlock][t].op = "stop" =>
      \A m \in DOMAIN AfterEach[SuiteBlock][s].procs, n \in DOMAIN AfterEach[SuiteBlock][t].procs :
        /\ s = t => m = n
        /\ s < t => \E i, j \in DOMAIN BeforeEach[SuiteBlock] :
                      /\ i < j /\ BeforeEach[SuiteBlock][i] = AfterEach[SuiteBlock][t].procs[n]
                      /\ BeforeEach[SuiteBlock][j] = AfterEach[SuiteBlock][s].procs[m]

\* The suite's teardown begins with the cleanup and ends with the report.
CleansThenReports ==
  \A s \in DOMAIN AfterEach[SuiteBlock] :
    /\ AfterEach[SuiteBlock][s].op = "cleanup" <=> s = 1
    /\ AfterEach[SuiteBlock][s].op = "report" <=> s = Len(AfterEach[SuiteBlock])

\* Garden, and its client, come before anything else.
GardenFirst ==
  /\ CleansThenReports
  /\ ClientAfter = Garden /\ Garden \notin InProcess \cup Restarted
  /\ \A b \in AllBlocks : \A i \in DOMAIN BeforeEach[b] :
       BeforeEach[b][i] = Garden <=> b = SuiteBlock /\ i = 1

\* Garden belongs to the suite, the cells that make containers to the files.
CellsInFiles ==
  /\ CleansThenReports
  /\ Garden \notin InProcess /\ Cell \notin InProcess
  /\ \A b \in AllBlocks : \A i, j \in DOMAIN BeforeEach[b] :
       /\ BeforeEach[b][i] = Garden => b = SuiteBlock
       /\ BeforeEach[b][i] = Garden /\ BeforeEach[b][j] = Garden => i = j
       /\ BeforeEach[b][i] = Cell => b # SuiteBlock

VARIABLES
  spec,        \* number of the current spec
  context,     \* its context, or SuiteBlock when it has no blocks of its own
  phase,       \* "idle", "before", "body" or "after"
  block, step, \* the block that is running and the position in it
  live,        \* running processes: the component, the file (or suite) whose
               \* variable it was started for, and the spec that started it
  handle,      \* the process variables: the spec whose process they hold; 0: nil
  client,      \* has gardenClient been assigned?
  blocks,      \* blocks of ports left for garden
  containers,  \* containers the running garden knows
  destroying,  \* those of them that somebody else is already destroying
  lost,        \* specs in which garden went away while it had containers that
               \* nobody was destroying
  todo,        \* CleanupGarden: listed and not yet dealt with
  tries,       \* CleanupGarden: attempts made on the current container
  destroyErrs, \* destroyContainerErrors of the current block
  member,      \* StopProcesses: position in its argument list
  unclean,     \* StopProcesses: has InterceptGomegaFailures caught one?
  failed,      \* the specs reported as failed
  troubled,    \* the specs in which a fault happened
  faults

spaceVars == <<live, handle, client, blocks>>
gardenVars == <<containers, destroying, lost>>
cleanupVars == <<todo, tries, destroyErrs>>
stopVars == <<member, unclean>>
blockVars == <<phase, block, step>>
faultVars == <<troubled, faults>>
vars == <<spec, context, blockVars, spaceVars, gardenVars, cleanupVars, stopVars,
          failed, faultVars>>

Process(f, c, s) == [comp |-> c, holder |-> f, spec |-> s]

\* Is the component's port taken, by whatever spec's process?
Up(c) == c \notin InProcess /\ \E p \in live : p.comp = c

Fault(kind) ==
  /\ kind \in FaultKinds
  /\ faults < MaxFaults
  /\ faults' = faults + 1
  /\ troubled' = troubled \cup {spec}

\* A process goes away; with garden go the containers it knew.
Gone(p) ==
  /\ live' = live \ {p}
  /\ IF p.comp = Garden
     THEN /\ lost' = IF containers \subseteq destroying THEN lost ELSE lost \cup {spec}
          /\ containers' = {}
          /\ destroying' = {}
     ELSE UNCHANGED gardenVars

Init ==
  /\ spec = 0 /\ context = SuiteBlock
  /\ phase = "idle" /\ block = SuiteBlock /\ step = 1
  /\ live = {} /\ client = FALSE /\ blocks = Blocks
  /\ handle = [v \in Variables |-> 0]
  /\ containers = {} /\ destroying = {} /\ lost = {}
  /\ todo = {} /\ tries = 0 /\ destroyErrs = {}
  /\ member = 1 /\ unclean = FALSE
  /\ failed = {} /\ troubled = {} /\ faults = 0

-----------------------------------------------------------------------------
\* Moving through the blocks.

\* The block is over: on to the enclosing level's AfterEach, or to the end.
BlockEnds ==
  /\ IF block # SuiteBlock
     THEN block' = SuiteBlock /\ UNCHANGED phase
     ELSE phase' = "idle" /\ UNCHANGED block
  /\ step' = 1

\* The next step of an AfterEach block.
StepDone ==
  IF step = Len(AfterEach[block])
  THEN BlockEnds
  ELSE step' = step + 1 /\ UNCHANGED <<block, phase>>

\* A failed assertion (or a panic) in an AfterEach block.
Abort ==
  /\ failed' = failed \cup {spec}
  /\ BlockEnds

\* The body is over, or an assertion before it failed: the AfterEach blocks of
\* the levels that were reached run, from the innermost.
ToTeardown ==
  /\ phase' = "after"
  /\ step' = 1
  /\ UNCHANGED block

BeginSpec ==
  /\ phase = "idle"
  /\ spec < MaxSpecs
  /\ spec' = spec + 1
  /\ context' \in AllBlocks
  /\ phase' = "before" /\ block' = SuiteBlock /\ step' = 1
  /\ UNCHANGED <<spaceVars, gardenVars, cleanupVars, stopVars, failed, faultVars>>

-----------------------------------------------------------------------------
\* ginkgomon.Invoke(componentMaker.X()) in a BeforeEach block

Starting == BeforeEach[block][step]
HasPorts(c) == c # Garden \/ blocks > 0
TakePorts(c) == blocks' = IF c = Garden THEN blocks - 1 ELSE blocks

\* The spec goes on from the suite's BeforeEach to those of its context, if
\* they start anything.
EntersContext ==
  block = SuiteBlock /\ step = Len(BeforeEach[block]) /\ context # SuiteBlock

\* The variable is assigned; on entry to a file that resets its variables,
\* those are nil again.
Assigned(f, c) ==
  [v \in Variables |->
     IF v = <<f, c>> THEN spec
     ELSE IF EntersContext /\ v[1] = FileOf[context] /\ FileOf[context] \in Resets THEN 0
     ELSE handle[v]]

\* The component comes up: its ports are free and, for garden, ClaimPorts(10)
\* succeeded.
InvokeSucceeds ==
  /\ phase = "before"
  /\ ~Up(Starting)
  /\ HasPorts(Starting)
  /\ TakePorts(Starting)
  /\ live' = live \cup {Process(FileOf[block], Starting, spec)}
  /\ handle' = Assigned(FileOf[block], Starting)
  /\ client' = (client \/ Starting = ClientAfter)
  /\ IF step < Len(BeforeEach[block])
     THEN step' = step + 1 /\ UNCHANGED <<block, phase>>
     ELSE IF EntersContext
          THEN /\ block' = context /\ step' = 1
               /\ phase' = IF BeforeEach[context] = << >> THEN "body" ELSE "before"
          ELSE phase' = "body" /\ UNCHANGED <<block, step>>
  /\ UNCHANGED <<spec, context, gardenVars, cleanupVars, stopVars, failed, faultVars>>

\* Mutant: a failed Invoke leaves nil in the variable.
InvokeFailsForgets ==
  /\ phase = "before"
  /\ Up(Starting) /\ HasPorts(Starting) /\ TakePorts(Starting)
  /\ handle' = [handle EXCEPT ![<<FileOf[block], Starting>>] = 0]
  /\ failed' = failed \cup {spec}
  /\ ToTeardown
  /\ UNCHANGED <<spec, context, live, client, gardenVars, cleanupVars, stopVars, faultVars>>

\* It does not come up: a process of an earlier spec still has its ports, the
\* allocator is exhausted, or it fails by itself.  Invoke fails the spec before
\* the variable is assigned.
InvokeFails ==
  /\ phase = "before"
  /\ \/ Up(Starting) /\ HasPorts(Starting) /\ TakePorts(Starting) /\ UNCHANGED faultVars
     \/ ~HasPorts(Starting) /\ UNCHANGED <<blocks, faultVars>>
     \/ ~Up(Starting) /\ HasPorts(Starting) /\ TakePorts(Starting) /\ Fault("start")
  /\ failed' = failed \cup {spec}
  /\ ToTeardown
  /\ UNCHANGED <<spec, context, live, handle, client, gardenVars, cleanupVars, stopVars>>

-----------------------------------------------------------------------------
\* The body of the spec, and what goes on around the test process

BodyEnds ==
  /\ phase = "body"
  /\ ToTeardown
  /\ UNCHANGED <<spec, context, spaceVars, gardenVars, cleanupVars, stopVars,
                 failed, faultVars>>

\* A test stops a component of the suite and starts it again (garden before it
\* has created containers), in its body or in the BeforeEach of its context.
\* ginkgomon.Interrupt gives up when the component does not exit, and fails the
\* spec with the component still running; or the new one does not come up.
Restart(c) ==
  /\ phase = "body" \/ (phase = "before" /\ block # SuiteBlock)
  /\ c \in Restarted
  /\ c = Garden => containers = {}
  /\ LET old == Process(SuiteBlock, c, handle[<<SuiteBlock, c>>]) IN
     /\ old \in live
     /\ \/ /\ HasPorts(c)
           /\ TakePorts(c)
           /\ live' = (live \ {old}) \cup {Process(SuiteBlock, c, spec)}
           /\ handle' = [handle EXCEPT ![<<SuiteBlock, c>>] = spec]
           /\ UNCHANGED <<blockVars, failed, faultVars>>
        \/ /\ \/ ~HasPorts(c) /\ live' = live \ {old} /\ UNCHANGED <<blocks, faultVars>>
              \/ HasPorts(c) /\ TakePorts(c) /\ live' = live \ {old} /\ Fault("start")
              \/ Fault("hang") /\ UNCHANGED <<live, blocks>>
           /\ failed' = failed \cup {spec}
           /\ ToTeardown
           /\ UNCHANGED handle
  /\ UNCHANGED <<spec, context, client, gardenVars, cleanupVars, stopVars>>

\* Components of this or an earlier spec may die at any time.
Crash(p) ==
  /\ p \in live
  /\ Fault("crash")
  /\ Gone(p)
  /\ UNCHANGED <<spec, context, blockVars, handle, client, blocks, cleanupVars, stopVars,
                 failed>>

\* Containers are created by the body and by a running cell, and deleted by a
\* running cell.
CreateContainer(k) ==
  /\ phase = "body" \/ Up(Cell)
  /\ Up(Garden)
  /\ k \notin containers
  /\ containers' = containers \cup {k}
  /\ UNCHANGED <<spec, context, blockVars, spaceVars, destroying, lost,
                 cleanupVars, stopVars, failed, faultVars>>

CellDestroys(k) ==
  /\ Up(Cell)
  /\ k \in containers \ destroying
  /\ destroying' = destroying \cup {k}
  /\ UNCHANGED <<spec, context, blockVars, spaceVars, containers, lost,
                 cleanupVars, stopVars, failed, faultVars>>

Destroyed(k) ==
  /\ k \in destroying
  /\ destroying' = destroying \ {k}
  /\ containers' = containers \ {k}
  /\ UNCHANGED <<spec, context, blockVars, spaceVars, lost, cleanupVars,
                 stopVars, failed, faultVars>>

-----------------------------------------------------------------------------
\* helpers.CleanupGarden

At(op) == phase = "after" /\ AfterEach[block][step].op = op

\* gardenClient.Containers(nil) answers
ListContainers ==
  /\ At("cleanup") /\ tries = 0 /\ todo = {}
  /\ client /\ Up(Garden)
  /\ destroyErrs' = {}
  /\ todo' = containers
  /\ IF containers = {} THEN StepDone /\ tries' = 0
     ELSE tries' = 1 /\ UNCHANGED blockVars
  /\ UNCHANGED <<spec, context, spaceVars, gardenVars, stopVars, failed, faultVars>>

\* It does not: the Expect fails, or gardenClient is nil and the call panics.
ListFails ==
  /\ At("cleanup") /\ tries = 0 /\ todo = {}
  /\ ~(client /\ Up(Garden))
  /\ Abort
  /\ destroyErrs' = {}
  /\ UNCHANGED <<spec, context, spaceVars, gardenVars, todo, tries, stopVars, faultVars>>

MoveOn(k) ==
  /\ todo' = todo \ {k}
  /\ IF todo = {k}
     THEN tries' = 0 /\ StepDone
     ELSE tries' = 1 /\ UNCHANGED blockVars

\* Destroy succeeds, or the error says that the container is unknown or that
\* it is already being destroyed.
DestroySettles(k) ==
  /\ At("cleanup") /\ k \in todo
  /\ Up(Garden)
  /\ containers' = IF k \in destroying THEN containers ELSE containers \ {k}
  /\ MoveOn(k)
  /\ UNCHANGED <<spec, context, spaceVars, destroying, lost, destroyErrs, stopVars,
                 failed, faultVars>>

\* Mutants: a fourth attempt; no limit on the attempts.
DestroyFailsLate(k) ==
  /\ At("cleanup") /\ k \in todo
  /\ k \in containers \ destroying /\ "destroy" \in FaultKinds
  /\ IF tries > MaxTries
     THEN destroyErrs' = destroyErrs \cup {k} /\ MoveOn(k)
     ELSE tries' = tries + 1 /\ UNCHANGED <<todo, destroyErrs, blockVars>>
  /\ UNCHANGED <<spec, context, spaceVars, gardenVars, stopVars, failed, faultVars>>
DestroyFailsForever(k) ==
  /\ At("cleanup") /\ k \in todo
  /\ k \in containers \ destroying /\ "destroy" \in FaultKinds
  /\ tries' = (tries % MaxTries) + 1
  /\ UNCHANGED <<spec, context, blockVars, spaceVars, gardenVars, todo, destroyErrs,
                 stopVars, failed, faultVars>>

\* Any other error: it is recorded the third time, and tried again before that.
DestroyFails(k) ==
  /\ At("cleanup") /\ k \in todo
  /\ \/ k \in containers \ destroying /\ "destroy" \in FaultKinds
     \/ ~Up(Garden)
  /\ IF tries = MaxTries
     THEN destroyErrs' = destroyErrs \cup {k} /\ MoveOn(k)
     ELSE tries' = tries + 1 /\ UNCHANGED <<todo, destroyErrs, blockVars>>
  /\ UNCHANGED <<spec, context, spaceVars, gardenVars, stopVars, failed, faultVars>>

-----------------------------------------------------------------------------
\* helpers.StopProcesses(processes...)

Arguments == AfterEach[block][step].procs
Target ==
  Process(FileOf[block], Arguments[member], handle[<<FileOf[block], Arguments[member]>>])

\* nil, or already gone: Wait() is ready at once
StopSkips ==
  /\ At("stop") /\ member <= Len(Arguments)
  /\ Target \notin live
  /\ member' = member + 1
  /\ UNCHANGED <<spec, context, blockVars, spaceVars, gardenVars, cleanupVars,
                 unclean, failed, faultVars>>

\* it exits within a minute of SIGTERM
StopTerminates ==
  /\ At("stop") /\ member <= Len(Arguments)
  /\ Target \in live
  /\ Gone(Target)
  /\ member' = member + 1
  /\ UNCHANGED <<spec, context, blockVars, handle, client, blocks, cleanupVars,
                 unclean, failed, faultVars>>

\* it does not: SIGQUIT, after which it exits or does not, and a failure that
\* InterceptGomegaFailures keeps so that the other processes are stopped too
StopTimesOut ==
  /\ At("stop") /\ member <= Len(Arguments)
  /\ Target \in live
  /\ Fault("hang")
  /\ Gone(Target) \/ UNCHANGED <<live, gardenVars>>
  /\ unclean' = TRUE
  /\ member' = member + 1
  /\ UNCHANGED <<spec, context, blockVars, handle, client, blocks, cleanupVars, failed>>

\* Mutant: the intercepted failures are not looked at.
StopReturnsQuietly ==
  /\ At("stop") /\ member > Len(Arguments)
  /\ StepDone
  /\ member' = 1 /\ unclean' = FALSE
  /\ UNCHANGED <<spec, context, spaceVars, gardenVars, cleanupVars, failed, faultVars>>

\* Expect(failures).To(BeEmpty())
StopReturns ==
  /\ At("stop") /\ member > Len(Arguments)
  /\ IF unclean THEN Abort ELSE StepDone /\ UNCHANGED failed
  /\ member' = 1 /\ unclean' = FALSE
  /\ UNCHANGED <<spec, context, spaceVars, gardenVars, cleanupVars, faultVars>>

\* Mutant: the errors are dropped.
ReportNothing ==
  /\ At("report")
  /\ StepDone
  /\ UNCHANGED <<spec, context, spaceVars, gardenVars, cleanupVars, stopVars, failed, faultVars>>

\* Expect(destroyContainerErrors).To(BeEmpty())
Report ==
  /\ At("report")
  /\ IF destroyErrs # {} THEN Abort ELSE StepDone /\ UNCHANGED failed
  /\ UNCHANGED <<spec, context, spaceVars, gardenVars, cleanupVars, stopVars, faultVars>>

-----------------------------------------------------------------------------
SetUp == InvokeSucceeds \/ InvokeFails

TearDown ==
  \/ ListContainers \/ ListFails
  \/ \E k \in Containers : DestroySettles(k) \/ DestroyFails(k)
  \/ StopSkips \/ StopTerminates \/ StopTimesOut \/ StopReturns
  \/ Report

Around ==
  \/ \E c \in Restarted : Restart(c)
  \/ \E p \in live : Crash(p)
  \/ \E k \in Containers : CreateContainer(k) \/ CellDestroys(k) \/ Destroyed(k)

Next == BeginSpec \/ SetUp \/ BodyEnds \/ TearDown \/ Around

Spec == Init /\ [][Next]_vars

\* ginkgo runs the blocks of a spec to their end: every Eventually, Invoke and
\* Wait in them has a timeout, and a spec body ends or is timed out.
FairSpec == Spec /\ WF_vars(SetUp) /\ WF_vars(BodyEnds) /\ WF_vars(TearDown)

-----------------------------------------------------------------------------
\* The types; a container is tried at most MaxTries times.
TypeOK ==
  /\ spec \in 0 .. MaxSpecs /\ context \in AllBlocks
  /\ phase \in {"idle", "before", "body", "after"}
  /\ block \in {SuiteBlock, context} /\ step \in Nat \ {0}
  /\ live \subseteq {Process(v[1], v[2], s) : v \in Variables, s \in 1 .. spec}
  /\ handle \in [Variables -> 0 .. spec]
  /\ client \in BOOLEAN /\ blocks \in 0 .. Blocks
  /\ destroying \subseteq containers /\ containers \subseteq Containers
  /\ todo \subseteq Containers /\ destroyErrs \subseteq Containers
  /\ tries \in 0 .. MaxTries
  /\ member \in Nat \ {0} /\ unclean \in BOOLEAN
  /\ lost \cup failed \cup troubled \subseteq 0 .. spec
  /\ faults \in 0 .. MaxFaults

\* The processes that keep a port.
Listening == {p \in live : p.comp \notin InProcess}

\* No process is out of reach: the variable it was started for still holds it,
\* so the next teardown of that block signals it, even when the spec that
\* started it failed and the specs after it failed to start theirs.  The
\* exception are files that set their variables to nil while a process that
\* did not stop may still run.
NoOrphans ==
  \A p \in Listening : p.holder \notin Resets => handle[<<p.holder, p.comp>>] = p.spec

\* An aborted teardown is never silent.  Whatever still runs when a spec is over
\* was started by a spec that has been reported as failed, and a spec that
\* passed leaves nothing running of the suite's or of its file's, except in a
\* file that resets its variables: there a spec that starts no cell of its own
\* (task_lifecycle_test.go:342) passes beside the one that an earlier spec could
\* not stop.
PassedMeansClean ==
  phase = "idle" =>
    /\ \A p \in Listening : p.spec \in failed
    /\ spec \notin failed =>
         \A p \in Listening : p.holder \notin {SuiteBlock, FileOf[context]} \ Resets

\* Containers do not outlive their garden unnoticed: when garden goes away
\* with containers in it, this spec or an earlier one is reported as failed
\* (an earlier one when a cell it could not stop goes on creating containers).
NoSilentLeak ==
  phase = "idle" => \A s \in lost : \E f \in failed : f <= s

\* When the suite's AfterEach signals a process, those of its own that were
\* started later are down, and a file's process that still runs is one whose
\* spec has been reported as failed.
SignalsLastStarted ==
  \A p \in live :
    (StopTerminates \/ StopTimesOut) /\ p = Target /\ block = SuiteBlock =>
      \A q \in Listening \ {p} :
        IF q.holder = SuiteBlock
        THEN \E i, j \in DOMAIN BeforeEach[SuiteBlock] :
               /\ i < j /\ BeforeEach[SuiteBlock][i] = q.comp
               /\ BeforeEach[SuiteBlock][j] = p.comp
        ELSE q.spec \in failed

\* The cell suite stops its components one StopProcesses at a time: bbs, garden
\* and plumbing are never stopped under one another, and under a cell or
\* auctioneer only when the file's AfterEach could not stop that, and said so.
DependantsStopFirst == [][SignalsLastStarted]_vars

\* Every spec comes to its end, whatever fails in it.
SpecsEnd == phase # "idle" ~> phase = "idle"

\* stop_process.go: "a full suite may want AfterEach to clean up everything".
\* A spec in which nothing goes wrong leaves none of the suite's own processes
\* running, also when it fails because of what an earlier spec left behind: one
\* spec after a fault the suite works again.
AfterEachCleansUp ==
  phase = "idle" /\ spec \notin troubled => \A p \in Listening : p.holder # SuiteBlock
=============================================================================
