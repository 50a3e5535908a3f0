------------------------------ MODULE TestRun ------------------------------
(***************************************************************************)
(* A whole run of a suite: parallel ginkgo processes with their            *)
(* SynchronizedBeforeSuite, their specs (as far as the database goes) and  *)
(* their AfterSuite, and what they leave on the disk, in the image stores  *)
(* and in the database server.  The first function of the                  *)
(* SynchronizedBeforeSuite runs in process 1 only; the second in every     *)
(* process, with the artifacts of the first.  AfterSuite runs in every     *)
(* process as soon as that process has no more specs.                      *)
(***************************************************************************)
EXTENDS SQLRunner

CONSTANT Suites      \* the suites to look at

\* ginkgo numbers its processes from 1; there are three suites.
ASSUME TestRunAssumption ==
  /\ Procs \subseteq Nat \ {0} /\ 1 \in Procs
  /\ MaxSpecs \in Nat /\ MaxFaults \in Nat
  /\ Suites \subseteq {"cell", "executor", "volman"}

VARIABLES
  suite,         \* the suite this run is of
  files,         \* what exists: see Files
  payload,       \* what process 1 has built for all: "none", "built" or "failed"
  suiteTempDir,  \* per process, is the package variable set?
  maker,         \* per process, has componentMaker been assigned?
  phase,         \* per process, where it is in the suite
  stage,         \* per process, where it is in a spec
  plumbing,      \* per process, the spec whose plumbing the variable holds; 0: none
  up,            \* per process, the specs whose locket and bbs are running
  served,        \* per process, did the file server find the lifecycle archive?
  broken,        \* the processes whose BeforeSuite or AfterSuite failed
  ignored        \* the processes whose RemoveAll failed, with the error dropped

suiteVars == <<files, payload, suiteTempDir, maker, phase, broken, ignored>>
specVars == <<stage, plumbing, up, served>>
vars == <<driver, sqlVars, failed, spec, faults, suite, suiteVars, specVars>>

\* Directories and stores: process 1's suite directory, in the cell suite with
\* the lifecycle archive, and gexec's build directory, which nobody removes (no
\* CleanupBuildArtifacts); each process's cert depot, component-maker directory
\* and two grootfs stores; config files of grootfs (and of the ssh proxy), which
\* go to the default temporary directory.
SuiteDir == <<"before-suite", 1>>
Archive == <<"lifecycle", 1>>
BuildDir == <<"gexec-artifacts", 1>>
Depot(p) == <<"cert-depot", p>>
MakerDir(p) == <<"component-maker", p>>
Unprivileged(p) == <<"unprivileged-store", p>>
Privileged(p) == <<"privileged-store", p>>
ConfigFiles(p) == <<"config-files", p>>
Files ==
  {SuiteDir, Archive, BuildDir} \cup
  UNION {{Depot(p), MakerDir(p), Unprivileged(p), Privileged(p),
          ConfigFiles(p)} : p \in Procs}

\* os.RemoveAll of the suite directory takes what is in it along; the variable
\* is "" when it is not set, and RemoveAll("") does nothing.
InSuiteDir == {Archive} \cup {Depot(p) : p \in {p \in Procs : suiteTempDir[p]}}
RemoveSuiteDir(p) == IF suiteTempDir[p] THEN {SuiteDir} \cup InSuiteDir ELSE {}

Init ==
  /\ SQLInit
  /\ failed = [p \in Procs |-> {}] /\ spec = [p \in Procs |-> 0] /\ faults = 0
  /\ suite \in Suites
  /\ files = {} /\ payload = "none"
  /\ suiteTempDir = [p \in Procs |-> FALSE] /\ maker = [p \in Procs |-> FALSE]
  /\ phase = [p \in Procs |-> IF p = 1 THEN "build" ELSE "wait"]
  /\ stage = [p \in Procs |-> "none"]
  /\ plumbing = [p \in Procs |-> 0] /\ up = [p \in Procs |-> {}]
  /\ served = [p \in Procs |-> TRUE]
  /\ broken = {} /\ ignored = {}

Enters(p, from, to) ==
  /\ phase[p] = from
  /\ phase' = [phase EXCEPT ![p] = to]

-----------------------------------------------------------------------------
\* SynchronizedBeforeSuite

\* The first function: TempDir("before-suite") in the cell and executor suites,
\* then the executables, in the cell suite with the lifecycle archive and the
\* healthcheck in that directory.
Built ==
  CASE suite = "cell" -> {SuiteDir, Archive, BuildDir}
    [] suite = "executor" -> {SuiteDir, BuildDir}
    [] suite = "volman" -> {BuildDir}

BuildArtifacts ==
  /\ Enters(1, "build", "depot")
  /\ suiteTempDir' = [suiteTempDir EXCEPT ![1] = suite # "volman"]
  /\ files' = files \cup Built
  /\ payload' = "built"
  /\ UNCHANGED <<driver, sqlVars, failed, spec, faults, suite, maker, broken, ignored, specVars>>

\* gexec.Build, Rename or tar fails, before or after the archive is made: the
\* BeforeSuite fails in every process.
BuildFails ==
  /\ Fault
  /\ Enters(1, "build", "after")
  /\ suiteTempDir' = [suiteTempDir EXCEPT ![1] = suite # "volman"]
  /\ files' \in {files \cup Built, files \cup (Built \ {Archive})}
  /\ payload' = "failed"
  /\ broken' = broken \cup {1}
  /\ UNCHANGED <<driver, sqlVars, failed, spec, suite, maker, ignored, specVars>>

\* Mutant: the payload tells the other processes the suite directory too.
ReceiveSuiteDir(p) ==
  /\ payload = "built"
  /\ Enters(p, "wait", "depot")
  /\ suiteTempDir' = [suiteTempDir EXCEPT ![p] = suite # "volman"]
  /\ UNCHANGED <<driver, sqlVars, failed, spec, faults, suite, files, payload, maker,
                 broken, ignored, specVars>>

ReceivePayload(p) ==
  /\ payload = "built"
  /\ Enters(p, "wait", "depot")
  /\ UNCHANGED <<driver, sqlVars, failed, spec, faults, suite, files, payload,
                 suiteTempDir, maker, broken, ignored, specVars>>

ReceiveFailure(p) ==
  /\ payload = "failed"
  /\ Enters(p, "wait", "after")
  /\ broken' = broken \cup {p}
  /\ UNCHANGED <<driver, sqlVars, failed, spec, faults, suite, files, payload,
                 suiteTempDir, maker, ignored, specVars>>

\* The cert depot and NewCertAuthority; makeCommonComponentMaker, which
\* makes its temporary directory first and then checks the environment and
\* generates keys; then GrootFSInitStore twice.
Prepare(p, from, to, made) ==
  /\ Enters(p, from, to)
  /\ files' = files \cup made
  /\ UNCHANGED <<driver, sqlVars, failed, spec, faults, suite, payload, suiteTempDir,
                 broken, ignored, specVars>>

MakeDepot(p) ==
  /\ Prepare(p, "depot", "maker", {Depot(p)})
  /\ UNCHANGED maker

MakeMaker(p) ==
  /\ Prepare(p, "maker", "unprivileged", {MakerDir(p)})
  /\ maker' = [maker EXCEPT ![p] = TRUE]

InitUnprivileged(p) ==
  /\ Prepare(p, "unprivileged", "privileged", {Unprivileged(p), ConfigFiles(p)})
  /\ UNCHANGED maker

InitPrivileged(p) ==
  /\ Prepare(p, "privileged", "specs", {Privileged(p)})
  /\ UNCHANGED maker

\* An Expect of one of these steps fails; AfterSuite still runs.
PrepareFails(p) ==
  /\ Fault
  /\ phase[p] \in {"depot", "maker", "unprivileged", "privileged"}
  /\ phase' = [phase EXCEPT ![p] = "after"]
  /\ files' = files \cup
       CASE phase[p] = "depot" -> {Depot(p)}
         [] phase[p] = "maker" -> {MakerDir(p)}
         [] OTHER -> {ConfigFiles(p)}
  /\ broken' = broken \cup {p}
  /\ UNCHANGED <<driver, sqlVars, failed, spec, suite, payload, suiteTempDir, maker,
                 ignored, specVars>>

-----------------------------------------------------------------------------
\* The specs.  SQL is the first member of plumbing; locket and bbs use its
\* database.  The executor suite, and some specs of the others, use none.

InSpecs(p, from, to) ==
  /\ phase[p] = "specs"
  /\ stage[p] = from
  /\ stage' = [stage EXCEPT ![p] = to]

BeginSpec(p) ==
  /\ spec[p] < MaxSpecs
  /\ spec' = [spec EXCEPT ![p] = @ + 1]
  /\ \/ /\ suite # "executor"
        /\ InSpecs(p, "none", "starting")
        /\ runner' = [runner EXCEPT ![p][spec[p] + 1] = "started"]
     \/ /\ suite # "cell"
        /\ InSpecs(p, "none", "after")
        /\ UNCHANGED runner
  /\ UNCHANGED <<driver, database, sessions, pools, failed, faults, suite, suiteVars,
                 plumbing, up, served>>

\* Mutant: the locket of an earlier spec is not in the way.
PlumbingUpAnyway(p) ==
  /\ InSpecs(p, "starting", "body")
  /\ runner[p][spec[p]] = "ready"
  /\ up' = [up EXCEPT ![p] = @ \cup {spec[p]}]
  /\ sessions' = [sessions EXCEPT ![p] = @ \cup {<<"diego", spec[p]>>}]
  /\ plumbing' = [plumbing EXCEPT ![p] = spec[p]]
  /\ UNCHANGED <<driver, database, runner, pools, failed, spec, faults, suite, suiteVars,
                 served>>

\* The database is ready, locket and bbs come up and connect to it, and the
\* file server copies the lifecycle archive if it finds one.
PlumbingUp(p) ==
  /\ InSpecs(p, "starting", "body")
  /\ runner[p][spec[p]] = "ready"
  /\ up[p] = {}
  /\ up' = [up EXCEPT ![p] = {spec[p]}]
  /\ sessions' = [sessions EXCEPT ![p] = @ \cup {<<"diego", spec[p]>>}]
  /\ plumbing' = [plumbing EXCEPT ![p] = spec[p]]
  /\ served' = [served EXCEPT ![p] = (suite = "cell" => Archive \in files)]
  /\ UNCHANGED <<driver, database, runner, pools, failed, spec, faults, suite, suiteVars>>

\* The locket of an earlier spec still has the port: the group stops, and Invoke
\* fails, when the runner has returned.
PlumbingRefused(p) ==
  /\ InSpecs(p, "starting", "failing")
  /\ runner[p][spec[p]] = "ready"
  /\ up[p] # {}
  /\ runner' = [runner EXCEPT ![p][spec[p]] = "signalled"]
  /\ UNCHANGED <<driver, database, sessions, pools, failed, spec, faults, suite,
                 suiteVars, plumbing, up, served>>

\* Mutant: the failed runner is not noticed.
PlumbingFailsUnnoticed(p) ==
  /\ stage[p] = "failing"
  /\ InSpecs(p, stage[p], "after")
  /\ runner[p][spec[p]] = "exited"
  /\ Fails(p)
  /\ UNCHANGED <<driver, sqlVars, spec, faults, suite, suiteVars, plumbing, up, served>>

PlumbingFails(p) ==
  /\ stage[p] \in {"starting", "failing"}
  /\ InSpecs(p, stage[p], "after")
  /\ runner[p][spec[p]] = "exited"
  /\ Fails(p)
  /\ UNCHANGED <<driver, sqlVars, spec, faults, suite, suiteVars, plumbing, up, served>>

BodyEnds(p) ==
  /\ InSpecs(p, "body", "after")
  /\ UNCHANGED <<driver, sqlVars, failed, spec, faults, suite, suiteVars, plumbing, up,
                 served>>

\* AfterEach: bbs and locket are stopped, then the runner gets its signal.
\* After a failed Invoke the variable still holds an earlier spec's plumbing.
StopPlumbing(p) ==
  /\ InSpecs(p, "after", "stopping")
  /\ up' = [up EXCEPT ![p] = @ \ {plumbing[p]}]
  /\ sessions' = [sessions EXCEPT ![p] = @ \ {<<"diego", plumbing[p]>>}]
  /\ IF plumbing[p] # 0 /\ runner[p][plumbing[p]] = "ready"
     THEN runner' = [runner EXCEPT ![p][plumbing[p]] = "signalled"]
     ELSE UNCHANGED runner
  /\ UNCHANGED <<driver, database, pools, failed, spec, faults, suite, suiteVars,
                 plumbing, served>>

\* The AfterEach is aborted before it gets there (module Suite says how).
TeardownAborts(p) ==
  /\ Fault
  /\ InSpecs(p, "after", "none")
  /\ Fails(p)
  /\ UNCHANGED <<driver, sqlVars, spec, suite, suiteVars, plumbing, up, served>>

SpecEnds(p) ==
  /\ InSpecs(p, "stopping", "none")
  /\ plumbing[p] # 0 => runner[p][plumbing[p]] = "exited"
  /\ UNCHANGED <<driver, sqlVars, failed, spec, faults, suite, suiteVars, plumbing, up,
                 served>>

NoMoreSpecs(p) ==
  /\ stage[p] = "none"
  /\ Enters(p, "specs", "after")
  /\ UNCHANGED <<driver, sqlVars, failed, spec, faults, suite, files, payload,
                 suiteTempDir, maker, broken, ignored, specVars>>

-----------------------------------------------------------------------------
\* AfterSuite

Removes(p, from, to, gone) ==
  /\ Enters(p, from, to)
  /\ files' = files \ gone
  /\ UNCHANGED <<driver, sqlVars, failed, spec, faults, suite, payload, suiteTempDir,
                 maker, ignored, specVars>>

\* volman removes its cert depot first; cell skips Teardown without a
\* componentMaker, the others panic.
AfterSuite(p) ==
  LET mine == IF suite = "volman" THEN {Depot(p)} ELSE {} IN
  \/ /\ maker[p]
     /\ Removes(p, "after", "delete-unprivileged", mine)
     /\ UNCHANGED broken
  \/ /\ ~maker[p] /\ suite = "cell"
     /\ Removes(p, "after", "remove-suite-dir", mine)
     /\ UNCHANGED broken
  \/ /\ ~maker[p] /\ suite # "cell"
     /\ Removes(p, "after", "ended", mine)
     /\ broken' = broken \cup {p}

\* Teardown: GrootFSDeleteStore, then the temporary directory
DeleteUnprivileged(p) ==
  /\ Removes(p, "delete-unprivileged", "delete-privileged", {Unprivileged(p)})
  /\ UNCHANGED broken

DeletePrivileged(p) ==
  /\ Removes(p, "delete-privileged", "remove-maker-dir", {Privileged(p)})
  /\ UNCHANGED broken

RemoveMakerDir(p) ==
  /\ Removes(p, "remove-maker-dir", IF suite = "volman" THEN "ended" ELSE "remove-suite-dir",
             {MakerDir(p)})
  /\ UNCHANGED broken

RemoveTempDir(p) ==
  /\ Removes(p, "remove-suite-dir", "ended", RemoveSuiteDir(p))
  /\ UNCHANGED broken

\* An Expect or an Eventually of these steps fails: what was to be removed
\* stays, and so does all that comes after it.
CleanupFails(p, from) ==
  /\ Fault
  /\ Enters(p, from, "ended")
  /\ broken' = broken \cup {p}
  /\ UNCHANGED <<driver, sqlVars, failed, spec, suite, payload, suiteTempDir, maker,
                 ignored, specVars>>

RemoveDepotFails(p) ==
  /\ suite = "volman" /\ Depot(p) \in files
  /\ CleanupFails(p, "after")
  /\ UNCHANGED files

DeleteStoreFails(p) ==
  /\ \E from \in {"delete-unprivileged", "delete-privileged"} : CleanupFails(p, from)
  /\ UNCHANGED files

RemoveMakerDirFails(p) ==
  /\ CleanupFails(p, "remove-maker-dir")
  /\ UNCHANGED files

\* os.RemoveAll removes what it can, and the directory stays.  The executor
\* suite asserts on the error; the cell suite drops it.
RemoveTempDirFails(p) ==
  /\ suiteTempDir[p]
  /\ \E gone \in SUBSET InSuiteDir : files' = files \ gone
  /\ \/ /\ suite = "executor"
        /\ CleanupFails(p, "remove-suite-dir")
     \/ /\ suite = "cell"
        /\ Fault
        /\ Enters(p, "remove-suite-dir", "ended")
        /\ ignored' = ignored \cup {p}
        /\ UNCHANGED <<driver, sqlVars, failed, spec, suite, payload, suiteTempDir, maker,
                       broken, specVars>>

-----------------------------------------------------------------------------
BeforeSuite(p) ==
  \/ p = 1 /\ BuildArtifacts
  \/ ReceivePayload(p) \/ ReceiveFailure(p)
  \/ MakeDepot(p) \/ MakeMaker(p) \/ InitUnprivileged(p) \/ InitPrivileged(p)

SpecStep(p) ==
  \/ BeginSpec(p) \/ PlumbingUp(p) \/ PlumbingRefused(p) \/ PlumbingFails(p)
  \/ BodyEnds(p) \/ StopPlumbing(p) \/ SpecEnds(p) \/ NoMoreSpecs(p)

AfterSuiteStep(p) ==
  \/ AfterSuite(p) \/ DeleteUnprivileged(p) \/ DeletePrivileged(p) \/ RemoveMakerDir(p)
  \/ RemoveTempDir(p)

SomethingFails(p) ==
  \/ p = 1 /\ BuildFails
  \/ PrepareFails(p) \/ TeardownAborts(p)
  \/ RemoveDepotFails(p) \/ DeleteStoreFails(p) \/ RemoveMakerDirFails(p)
  \/ RemoveTempDirFails(p)

Runners(p) ==
  /\ \E s \in 1 .. MaxSpecs : RunnerStep(p, s) \/ RunnerFails(p, s)
  /\ UNCHANGED <<driver, spec, suite, suiteVars, specVars>>

Steps(p) == BeforeSuite(p) \/ SpecStep(p) \/ AfterSuiteStep(p)

Next == \E p \in Procs : Steps(p) \/ SomethingFails(p) \/ Runners(p)

Spec == Init /\ [][Next]_vars

\* Every step of a process and of a runner is a call that returns or times out.
FairSpec == Spec /\ \A p \in Procs : WF_vars(Steps(p)) /\ WF_vars(Runners(p))

-----------------------------------------------------------------------------
\* The types; at most one locket of a process has the port.
TypeOK ==
  /\ driver \in {"mysql", "postgres"} /\ suite \in Suites
  /\ database \in [Procs -> 0 .. MaxSpecs]
  /\ sessions \in [Procs -> SUBSET ({"runner", "diego"} \X (1 .. MaxSpecs))]
  /\ runner \in [Procs -> [1 .. MaxSpecs -> RunnerStates]]
  /\ pools \in [Procs -> SUBSET ((1 .. MaxSpecs) \X (1 .. 3))]
  /\ failed \in [Procs -> SUBSET (0 .. MaxSpecs)]
  /\ spec \in [Procs -> 0 .. MaxSpecs] /\ faults \in 0 .. MaxFaults
  /\ files \subseteq Files /\ payload \in {"none", "built", "failed"}
  /\ suiteTempDir \in [Procs -> BOOLEAN] /\ maker \in [Procs -> BOOLEAN]
  /\ plumbing \in [Procs -> 0 .. MaxSpecs]
  /\ \A p \in Procs : up[p] \subseteq 1 .. MaxSpecs /\ Cardinality(up[p]) <= 1
  /\ served \in [Procs -> BOOLEAN] /\ broken \subseteq Procs
  /\ ignored \subseteq Procs

BeforeAfterSuite == {"build", "wait", "depot", "maker", "unprivileged", "privileged", "specs"}

\* The certificates a process hands to its components exist as long as it runs
\* specs, although process 1 may remove the suite directory at any time after
\* its own last spec: suiteTempDir is not set in the other processes, and so
\* their cert depots are not in that directory.
CertsOutliveSpecs ==
  \A p \in Procs : phase[p] \in {"maker", "unprivileged", "privileged", "specs"} => Depot(p) \in files

\* FileServer silently serves no lifecycle when the archive is missing.  That
\* happens only once process 1 is through with its specs (its AfterSuite
\* removes the archive that all processes use), never because another process
\* has ended.
ArchiveServedWhileProcess1Runs ==
  \A p \in Procs : ~served[p] => phase[1] \notin BeforeAfterSuite

\* components.go: "we just want a clean slate".  The body of a spec never runs
\* on the database of an earlier spec, although the error of the first DROP is
\* ignored and earlier runners and clients may be left.
CleanSlate == \A p \in Procs : stage[p] = "body" => database[p] = spec[p]

\* What is left behind in silence, by a process that ends without a failure of
\* a spec or of the suite although directories, stores and databases may refuse
\* to go: gexec's build directory and config files, which nothing removes; the
\* cert depots of the processes after the first in the cell and executor
\* suites; and, where the cell suite's unchecked os.RemoveAll(suiteTempDir) has
\* failed, the suite directory with process 1's depot and the archive.  Every
\* other directory, store, session and database is gone.
LeftoversReported ==
  \A p \in Procs :
    phase[p] = "ended" /\ p \notin broken /\ failed[p] = {} =>
      /\ {MakerDir(p), Unprivileged(p), Privileged(p)} \cap files = {}
      /\ Depot(p) \in files => suite # "volman" /\ (p # 1 \/ p \in ignored)
      /\ p = 1 /\ {SuiteDir, Archive} \cap files # {} => p \in ignored
      /\ p \in ignored => p = 1 /\ suite = "cell"
      /\ database[p] = 0 /\ sessions[p] = {}

\* Where nothing goes wrong nothing is reported: in particular the final DROP
\* never meets a session, of the runner's own or of locket or bbs.
NoFaultNoFailure == faults = 0 => broken = {} /\ \A p \in Procs : failed[p] = {}

\* A process loses at most one connection to the database server per spec (the
\* third one of its runner), plus one while a runner works.
ConnectionsBounded == \A p \in Procs : Cardinality(pools[p]) <= spec[p] + 1

\* Every process comes to the end of its AfterSuite, also when process 1 fails
\* to build, or a runner dies before it is ready.
RunEnds == \A p \in Procs : <>(phase[p] = "ended")
=============================================================================
