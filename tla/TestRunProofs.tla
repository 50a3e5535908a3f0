--------------------------- MODULE TestRunProofs ---------------------------
(***************************************************************************)
(* Whole runs of a suite for any number of processes, specs and faults.    *)
(* The inductive invariant has a part about the files, which relates       *)
(* process 1 to the others, and parts about each process's own specs and   *)
(* database, which the steps of the other processes leave alone.           *)
(***************************************************************************)
EXTENDS TestRun, FiniteSetTheorems, TLAPS

Phases ==
  {"build", "wait", "depot", "maker", "unprivileged", "privileged", "specs", "after",
   "delete-unprivileged", "delete-privileged", "remove-maker-dir", "remove-suite-dir", "ended"}
Stages == {"none", "starting", "failing", "body", "after", "stopping"}

\* Only process 1 knows the suite directory, and it is there, in the cell suite
\* with the archive, until that process's AfterSuite; nobody goes on before
\* process 1 has built.
SuiteDirOwned ==
  /\ \A p \in Procs : suiteTempDir[p] => p = 1
  /\ phase[1] # "build" /\ suite # "volman" => suiteTempDir[1]
  /\ phase[1] # "wait"
  /\ \A p \in Procs \ {1} : phase[p] # "build"
  /\ payload = "none" <=> phase[1] = "build"
  /\ payload = "none" => \A p \in Procs \ {1} : phase[p] = "wait"
  /\ phase[1] \in BeforeAfterSuite \ {"build"} /\ suite = "cell" => Archive \in files
  /\ {SuiteDir, Archive} \cap files # {} => suite # "volman"

\* How far a process is tells what it has made; one that is not reported as
\* broken goes through its AfterSuite with a component maker.
Made(p) ==
  /\ phase[p] \in {"unprivileged", "privileged", "specs", "delete-unprivileged",
                   "delete-privileged", "remove-maker-dir"} => maker[p]
  /\ phase[p] = "after" /\ p \notin broken => maker[p]

\* ... and what it has removed again; only process 1 has a suite directory that
\* may refuse to go.
Removed(p) ==
  /\ suite = "volman" /\ phase[p] \in {"delete-unprivileged", "delete-privileged",
       "remove-maker-dir"} => Depot(p) \notin files
  /\ phase[p] = "remove-suite-dir" => suite # "volman"
  /\ p \in ignored => p = 1 /\ suite = "cell" /\ phase[p] = "ended"
  /\ p \notin broken =>
       /\ suite = "volman" /\ phase[p] = "ended" => Depot(p) \notin files
       /\ phase[p] \in {"delete-privileged", "remove-maker-dir", "remove-suite-dir", "ended"}
            => Unprivileged(p) \notin files
       /\ phase[p] \in {"remove-maker-dir", "remove-suite-dir", "ended"} => Privileged(p) \notin files
       /\ phase[p] \in {"remove-suite-dir", "ended"} => MakerDir(p) \notin files
       /\ p = 1 /\ phase[p] = "ended" /\ p \notin ignored =>
            {SuiteDir, Archive, Depot(p)} \cap files = {}

FilesInv ==
  /\ SuiteDirOwned /\ CertsOutliveSpecs /\ ArchiveServedWhileProcess1Runs
  /\ \A p \in Procs : Made(p) /\ Removed(p)

Working == {"started", "connected", "dropped", "created", "opened"}
Leaving == {"signalled", "reconnected"}

\* Runners that are at work belong to the current spec, or to the plumbing that
\* is being stopped; one that is left over sits at its signal with its locket up.
RunnersInv(p) ==
  /\ stage[p] # "none" => phase[p] = "specs" /\ spec[p] > 0
  /\ plumbing[p] <= spec[p]
  /\ stage[p] \in {"starting", "failing"} => plumbing[p] < spec[p]
  /\ up[p] # {} =>
       plumbing[p] > 0 /\ up[p] = {plumbing[p]} /\ runner[p][plumbing[p]] = "ready"
  /\ \A s \in 1 .. MaxSpecs :
       /\ runner[p][s] # "off" => s <= spec[p]
       /\ runner[p][s] = "ready" =>
            \/ s = spec[p] /\ stage[p] = "starting"
            \/ s = plumbing[p] /\ up[p] = {s} /\ stage[p] # "stopping"
       /\ runner[p][s] \in Working => s = spec[p] /\ stage[p] = "starting"
       /\ runner[p][s] \in Leaving =>
            \/ s = spec[p] /\ stage[p] = "failing"
            \/ s = plumbing[p] /\ stage[p] = "stopping"
  /\ stage[p] = "starting" => runner[p][spec[p]] \in Working \cup {"ready", "exited"}
  /\ stage[p] = "failing" => runner[p][spec[p]] \in Leaving \cup {"exited"}
  /\ stage[p] = "body" => runner[p][spec[p]] = "ready" /\ plumbing[p] = spec[p]

\* The database of the current spec.
DatabaseInv(p) ==
  /\ stage[p] = "starting" /\ runner[p][spec[p]] \in {"created", "opened", "ready"} =>
       database[p] = spec[p]
  /\ stage[p] = "body" => database[p] = spec[p]

\* While no spec of the process has failed, nothing is left between its specs.
CleanInv(p) ==
  failed[p] = {} =>
    /\ stage[p] # "failing"
    /\ stage[p] = "none" => database[p] = 0 /\ sessions[p] = {} /\ up[p] = {}
    /\ stage[p] = "starting" =>
         /\ up[p] = {} /\ runner[p][spec[p]] # "exited"
         /\ sessions[p] = IF runner[p][spec[p]] = "opened" THEN {<<"runner", spec[p]>>} ELSE {}
         /\ runner[p][spec[p]] \in {"started", "connected", "dropped"} => database[p] = 0
    /\ stage[p] \in {"body", "after"} =>
         IF up[p] = {} THEN sessions[p] = {} /\ database[p] = 0
         ELSE sessions[p] = {<<"diego", plumbing[p]>>} /\ database[p] = plumbing[p]
    /\ stage[p] = "stopping" =>
         /\ up[p] = {} /\ sessions[p] = {}
         /\ IF plumbing[p] > 0 /\ runner[p][plumbing[p]] \in Leaving
            THEN database[p] = plumbing[p] ELSE database[p] = 0

\* Which connections a runner has, by where it is.
PoolInv(p) ==
  \A s \in 1 .. MaxSpecs :
    /\ <<s, 1>> \in pools[p] => runner[p][s] \notin {"off", "started", "exited"}
    /\ <<s, 2>> \in pools[p] => runner[p][s] \in {"opened", "exited"}
    /\ <<s, 3>> \in pools[p] => runner[p][s] \in {"reconnected", "exited"}
    /\ ~(<<s, 2>> \in pools[p] /\ <<s, 3>> \in pools[p])

SpecInv(p) == RunnersInv(p) /\ DatabaseInv(p) /\ CleanInv(p) /\ PoolInv(p)

Typed ==
  /\ TypeOK
  /\ phase \in [Procs -> Phases] /\ stage \in [Procs -> Stages]
  /\ up \in [Procs -> SUBSET (1 .. MaxSpecs)]

IInv ==
  /\ Typed /\ FilesInv /\ NoFaultNoFailure
  /\ faults = 0 => payload # "failed"
  /\ \A p \in Procs : SpecInv(p)

-----------------------------------------------------------------------------
\* The steps of a process leave the specs and the database of the others alone.
Local(p) ==
  <<phase[p], stage[p], spec[p], plumbing[p], up[p], runner[p], database[p], sessions[p],
    pools[p], failed[p]>>

StepOf(q) == Steps(q) \/ SomethingFails(q) \/ Runners(q)

\* A step of process q leaves the specs of every other process alone.
LEMMA OthersKeep ==
  ASSUME Typed, NEW q \in Procs, StepOf(q), NEW p \in Procs, p # q
  PROVE  UNCHANGED Local(p)
  <1> USE DEF Typed, TypeOK, Local, sqlVars, suiteVars, specVars, Enters, InSpecs, Runs, Exits, Fails
  <1>1. CASE BeforeSuite(q)
    BY <1>1 DEF BeforeSuite, BuildArtifacts, ReceivePayload, ReceiveFailure, MakeDepot, MakeMaker,
                InitUnprivileged, InitPrivileged, Prepare
  <1>2. CASE SpecStep(q)
    BY <1>2 DEF SpecStep, BeginSpec, PlumbingUp, PlumbingRefused, PlumbingFails, BodyEnds,
                StopPlumbing, SpecEnds, NoMoreSpecs
  <1>3. CASE AfterSuiteStep(q)
    BY <1>3 DEF AfterSuiteStep, AfterSuite, DeleteUnprivileged, DeletePrivileged, RemoveMakerDir,
                RemoveTempDir, Removes
  <1>4. CASE SomethingFails(q)
    BY <1>4 DEF SomethingFails, BuildFails, PrepareFails, TeardownAborts, CleanupFails,
                RemoveDepotFails, DeleteStoreFails, RemoveMakerDirFails, RemoveTempDirFails
  <1>5. CASE Runners(q)
    BY <1>5 DEF Runners, RunnerStep, RunnerFails, Connect, DropOld, Create, Open, Ready, Reconnect, Drop
  <1> QED BY <1>1, <1>2, <1>3, <1>4, <1>5 DEF StepOf, Steps

\* The invariant of a process's specs depends on these variables only.
LEMMA LocalStutter ==
  ASSUME NEW p \in Procs, SpecInv(p), UNCHANGED Local(p)
  PROVE  SpecInv(p)'
  BY DEF SpecInv, RunnersInv, DatabaseInv, CleanInv, PoolInv, Local

\* A process outside its specs.
LEMMA SuiteStepLocal ==
  ASSUME Typed, NEW p \in Procs, SpecInv(p),
         BeforeSuite(p) \/ AfterSuiteStep(p) \/ NoMoreSpecs(p) \/ (p = 1 /\ BuildFails)
           \/ PrepareFails(p) \/ RemoveDepotFails(p) \/ DeleteStoreFails(p)
           \/ RemoveMakerDirFails(p) \/ RemoveTempDirFails(p)
  PROVE  SpecInv(p)'
  <1>1. /\ stage[p] = "none"
        /\ UNCHANGED <<stage, spec, plumbing, up, runner, database, sessions, pools, failed>>
    BY DEF SpecInv, RunnersInv, sqlVars, suiteVars, specVars, Enters, BeforeSuite, AfterSuiteStep,
           BuildArtifacts, ReceivePayload, ReceiveFailure, MakeDepot, MakeMaker, InitUnprivileged,
           InitPrivileged, Prepare, AfterSuite, DeleteUnprivileged, DeletePrivileged,
           RemoveMakerDir, RemoveTempDir, Removes, NoMoreSpecs, BuildFails, PrepareFails,
           CleanupFails, RemoveDepotFails, DeleteStoreFails, RemoveMakerDirFails, RemoveTempDirFails
  <1> QED BY <1>1 DEF SpecInv, RunnersInv, DatabaseInv, CleanInv, PoolInv

\* The steps of a spec.
LEMMA SpecStepLocal ==
  ASSUME Typed, NEW p \in Procs, SpecInv(p),
         BeginSpec(p) \/ PlumbingUp(p) \/ PlumbingRefused(p) \/ PlumbingFails(p)
           \/ BodyEnds(p) \/ StopPlumbing(p) \/ SpecEnds(p) \/ TeardownAborts(p)
  PROVE  SpecInv(p)'
  <1>0. /\ spec[p] \in 0 .. MaxSpecs /\ plumbing[p] \in 0 .. MaxSpecs /\ MaxSpecs \in Nat
        /\ stage[p] \in Stages /\ runner[p] \in [1 .. MaxSpecs -> RunnerStates]
    BY TestRunAssumption DEF Typed, TypeOK
  <1> USE <1>0 DEF SpecInv, Stages
  <1>1. CASE BeginSpec(p) /\ stage'[p] = "starting"
    <2>1. /\ stage[p] = "none" /\ stage'[p] = "starting" /\ phase'[p] = "specs"
          /\ spec'[p] = spec[p] + 1 /\ spec[p] + 1 \in 1 .. MaxSpecs
          /\ runner'[p][spec[p] + 1] = "started"
          /\ \A s \in 1 .. MaxSpecs \ {spec[p] + 1} : runner'[p][s] = runner[p][s]
          /\ UNCHANGED <<database[p], sessions[p], pools[p], failed[p], plumbing[p], up[p]>>
      <3>1. stage[p] = "none" /\ phase[p] = "specs" /\ spec[p] < MaxSpecs
        BY <1>1 DEF BeginSpec, InSpecs
      <3>2. runner' = [runner EXCEPT ![p][spec[p] + 1] = "started"]
        BY <1>1 DEF BeginSpec, InSpecs, Typed, TypeOK
      <3>3. UNCHANGED <<phase, database, sessions, pools, failed, plumbing, up>>
        BY <1>1 DEF BeginSpec, suiteVars
      <3>4. spec'[p] = spec[p] + 1 /\ spec[p] + 1 \in 1 .. MaxSpecs
        BY <1>1, <3>1 DEF BeginSpec, Typed, TypeOK
      <3> QED BY <1>1, <3>1, <3>2, <3>3, <3>4 DEF Typed, TypeOK
    <2>2. RunnersInv(p)'
      BY <2>1, SMTT(90) DEF RunnersInv, Working, Leaving
    <2>3. DatabaseInv(p)'
      BY <2>1 DEF RunnersInv, Working, Leaving, DatabaseInv
    <2>4. CleanInv(p)'
      BY <2>1 DEF RunnersInv, Working, Leaving, DatabaseInv, CleanInv
    <2>5. PoolInv(p)'
      <3>1. runner[p][spec[p] + 1] = "off"
        BY <2>1 DEF RunnersInv
      <3> SUFFICES ASSUME NEW s \in 1 .. MaxSpecs
                   PROVE  /\ <<s, 1>> \in pools[p] => runner'[p][s] \notin {"off", "started", "exited"}
                          /\ <<s, 2>> \in pools[p] => runner'[p][s] \in {"opened", "exited"}
                          /\ <<s, 3>> \in pools[p] => runner'[p][s] \in {"reconnected", "exited"}
                          /\ ~(<<s, 2>> \in pools[p] /\ <<s, 3>> \in pools[p])
        BY <2>1 DEF PoolInv
      <3>2. CASE s = spec[p] + 1
        BY <3>1, <3>2 DEF PoolInv
      <3>3. CASE s # spec[p] + 1
        BY <2>1, <3>3 DEF PoolInv
      <3> QED BY <3>2, <3>3
    <2> QED BY <2>2, <2>3, <2>4, <2>5
  <1>2. CASE BeginSpec(p) /\ stage'[p] # "starting"
    <2>1. /\ stage[p] = "none" /\ stage'[p] = "after" /\ phase'[p] = "specs"
          /\ spec'[p] = spec[p] + 1
          /\ UNCHANGED <<runner[p], database[p], sessions[p], pools[p], failed[p], plumbing[p], up[p]>>
      BY <1>2 DEF BeginSpec, InSpecs, Typed, TypeOK, suiteVars
    <2>2. RunnersInv(p)'
      BY <2>1 DEF RunnersInv, Working, Leaving
    <2>3. DatabaseInv(p)'
      BY <2>1 DEF RunnersInv, Working, Leaving, DatabaseInv
    <2>4. CleanInv(p)'
      BY <2>1 DEF RunnersInv, Working, Leaving, DatabaseInv, CleanInv
    <2>5. PoolInv(p)'
      BY <2>1 DEF PoolInv, RunnersInv
    <2> QED BY <2>2, <2>3, <2>4, <2>5
  <1>3. CASE PlumbingUp(p)
    <2>1. /\ stage[p] = "starting" /\ stage'[p] = "body" /\ runner[p][spec[p]] = "ready"
          /\ up[p] = {} /\ up'[p] = {spec[p]} /\ plumbing'[p] = spec[p]
          /\ sessions'[p] = sessions[p] \cup {<<"diego", spec[p]>>}
          /\ UNCHANGED <<phase[p], spec[p], runner[p], database[p], pools[p], failed[p]>>
      BY <1>3 DEF PlumbingUp, InSpecs, Typed, TypeOK, suiteVars
    <2>2. RunnersInv(p)'
      BY <2>1, SMTT(30) DEF RunnersInv, Working, Leaving
    <2>3. DatabaseInv(p)'
      BY <2>1 DEF RunnersInv, Working, Leaving, DatabaseInv
    <2>4. CleanInv(p)'
      BY <2>1 DEF RunnersInv, Working, Leaving, DatabaseInv, CleanInv
    <2>5. PoolInv(p)'
      BY <2>1 DEF PoolInv, RunnersInv
    <2> QED BY <2>2, <2>3, <2>4, <2>5
  <1>4. CASE PlumbingRefused(p)
    <2>1. /\ stage[p] = "starting" /\ stage'[p] = "failing" /\ runner[p][spec[p]] = "ready"
          /\ up[p] # {} /\ runner'[p] = [runner[p] EXCEPT ![spec[p]] = "signalled"]
          /\ UNCHANGED <<phase[p], spec[p], plumbing[p], up[p], sessions[p], database[p], pools[p],
                         failed[p]>>
      BY <1>4 DEF PlumbingRefused, InSpecs, Typed, TypeOK, suiteVars
    <2>2. RunnersInv(p)'
      BY <2>1 DEF RunnersInv, Working, Leaving
    <2>3. DatabaseInv(p)'
      BY <2>1 DEF RunnersInv, Working, Leaving, DatabaseInv
    <2>4. CleanInv(p)'
      BY <2>1 DEF RunnersInv, Working, Leaving, DatabaseInv, CleanInv
    <2>5. PoolInv(p)'
      BY <2>1 DEF PoolInv, RunnersInv
    <2> QED BY <2>2, <2>3, <2>4, <2>5
  <1>5. CASE PlumbingFails(p)
    <2>1. /\ stage[p] \in {"starting", "failing"} /\ stage'[p] = "after"
          /\ runner[p][spec[p]] = "exited" /\ failed'[p] # {}
          /\ UNCHANGED <<phase[p], spec[p], plumbing[p], up[p], runner[p], sessions[p], database[p],
                         pools[p]>>
      BY <1>5 DEF PlumbingFails, Fails, InSpecs, Typed, TypeOK, suiteVars, sqlVars
    <2>2. RunnersInv(p)'
      BY <2>1 DEF RunnersInv, Working, Leaving
    <2>3. DatabaseInv(p)'
      BY <2>1 DEF RunnersInv, Working, Leaving, DatabaseInv
    <2>4. CleanInv(p)'
      BY <2>1 DEF RunnersInv, Working, Leaving, DatabaseInv, CleanInv
    <2>5. PoolInv(p)'
      BY <2>1 DEF PoolInv, RunnersInv
    <2> QED BY <2>2, <2>3, <2>4, <2>5
  <1>6. CASE BodyEnds(p)
    <2>1. /\ stage[p] = "body" /\ stage'[p] = "after"
          /\ UNCHANGED <<phase[p], spec[p], plumbing[p], up[p], runner[p], sessions[p], database[p],
                         pools[p], failed[p]>>
      BY <1>6 DEF BodyEnds, InSpecs, Typed, TypeOK, suiteVars, sqlVars
    <2>2. RunnersInv(p)'
      BY <2>1 DEF RunnersInv, Working, Leaving
    <2>3. DatabaseInv(p)'
      BY <2>1 DEF RunnersInv, Working, Leaving, DatabaseInv
    <2>4. CleanInv(p)'
      BY <2>1 DEF RunnersInv, Working, Leaving, DatabaseInv, CleanInv
    <2>5. PoolInv(p)'
      BY <2>1 DEF PoolInv, RunnersInv
    <2> QED BY <2>2, <2>3, <2>4, <2>5
  <1>7. CASE StopPlumbing(p)
    <2>1. /\ stage[p] = "after" /\ stage'[p] = "stopping"
          /\ up'[p] = up[p] \ {plumbing[p]}
          /\ sessions'[p] = sessions[p] \ {<<"diego", plumbing[p]>>}
          /\ IF plumbing[p] # 0 /\ runner[p][plumbing[p]] = "ready"
             THEN runner'[p] = [runner[p] EXCEPT ![plumbing[p]] = "signalled"]
             ELSE runner'[p] = runner[p]
          /\ UNCHANGED <<phase[p], spec[p], plumbing[p], database[p], pools[p], failed[p]>>
      BY <1>7 DEF StopPlumbing, InSpecs, Typed, TypeOK, suiteVars
    <2>2. RunnersInv(p)'
      BY <2>1 DEF RunnersInv, Working, Leaving
    <2>3. DatabaseInv(p)'
      BY <2>1 DEF RunnersInv, Working, Leaving, DatabaseInv
    <2>4. CleanInv(p)'
      <3> SUFFICES ASSUME failed[p] = {} PROVE CleanInv(p)'
        BY <2>1 DEF CleanInv
      <3>1. CASE up[p] = {}
        <4>1. ~(plumbing[p] # 0 /\ runner[p][plumbing[p]] = "ready")
          BY <2>1, <3>1 DEF RunnersInv
        <4>2. runner'[p] = runner[p] /\ ~(plumbing[p] > 0 /\ runner[p][plumbing[p]] \in Leaving)
          BY <2>1, <4>1 DEF RunnersInv
        <4> QED BY <2>1, <3>1, <4>2 DEF CleanInv
      <3>2. CASE up[p] # {}
        <4>1. /\ plumbing[p] > 0 /\ up[p] = {plumbing[p]} /\ runner[p][plumbing[p]] = "ready"
              /\ sessions[p] = {<<"diego", plumbing[p]>>} /\ database[p] = plumbing[p]
          BY <2>1, <3>2 DEF RunnersInv, CleanInv
        <4>2. runner'[p][plumbing[p]] = "signalled"
          BY <2>1, <4>1
        <4> QED BY <2>1, <4>1, <4>2 DEF CleanInv, Leaving
      <3> QED BY <3>1, <3>2
    <2>5. PoolInv(p)'
      BY <2>1 DEF PoolInv, RunnersInv
    <2> QED BY <2>2, <2>3, <2>4, <2>5
  <1>8. CASE SpecEnds(p)
    <2>1. /\ stage[p] = "stopping" /\ stage'[p] = "none"
          /\ plumbing[p] # 0 => runner[p][plumbing[p]] = "exited"
          /\ UNCHANGED <<phase[p], spec[p], plumbing[p], up[p], runner[p], sessions[p], database[p],
                         pools[p], failed[p]>>
      BY <1>8 DEF SpecEnds, InSpecs, Typed, TypeOK, suiteVars, sqlVars
    <2>2. RunnersInv(p)'
      BY <2>1 DEF RunnersInv, Working, Leaving
    <2>3. DatabaseInv(p)'
      BY <2>1 DEF RunnersInv, Working, Leaving, DatabaseInv
    <2>4. CleanInv(p)'
      BY <2>1 DEF RunnersInv, Working, Leaving, DatabaseInv, CleanInv
    <2>5. PoolInv(p)'
      BY <2>1 DEF PoolInv, RunnersInv
    <2> QED BY <2>2, <2>3, <2>4, <2>5
  <1>9. CASE TeardownAborts(p)
    <2>1. /\ stage[p] = "after" /\ stage'[p] = "none" /\ failed'[p] # {}
          /\ UNCHANGED <<phase[p], spec[p], plumbing[p], up[p], runner[p], sessions[p], database[p],
                         pools[p]>>
      BY <1>9 DEF TeardownAborts, Fails, InSpecs, Typed, TypeOK, suiteVars, sqlVars
    <2>2. RunnersInv(p)'
      BY <2>1 DEF RunnersInv, Working, Leaving
    <2>3. DatabaseInv(p)'
      BY <2>1 DEF RunnersInv, Working, Leaving, DatabaseInv
    <2>4. CleanInv(p)'
      BY <2>1 DEF RunnersInv, Working, Leaving, DatabaseInv, CleanInv
    <2>5. PoolInv(p)'
      BY <2>1 DEF PoolInv, RunnersInv
    <2> QED BY <2>2, <2>3, <2>4, <2>5
  <1> QED BY <1>1, <1>2, <1>3, <1>4, <1>5, <1>6, <1>7, <1>8, <1>9

\* A step of runner s of process p moves that runner only.
LEMMA RunsEffect ==
  ASSUME Typed, NEW p \in Procs, NEW s \in 1 .. MaxSpecs, NEW from, NEW to, Runs(p, s, from, to)
  PROVE  /\ runner[p][s] = from /\ runner'[p][s] = to
         /\ \A t \in 1 .. MaxSpecs \ {s} : runner'[p][t] = runner[p][t]
  BY DEF Typed, TypeOK, Runs

\* The steps of a runner.
LEMMA RunnerStepLocal ==
  ASSUME Typed, NEW p \in Procs, SpecInv(p), NEW s \in 1 .. MaxSpecs,
         UNCHANGED <<driver, spec, suite, suiteVars, specVars>>,
         RunnerStep(p, s) \/ RunnerFails(p, s)
  PROVE  SpecInv(p)'
  <1> DEFINE Moves(from, to) ==
               /\ runner[p][s] = from /\ runner'[p][s] = to
               /\ \A t \in 1 .. MaxSpecs \ {s} : runner'[p][t] = runner[p][t]
  <1>0. /\ phase' = phase /\ stage' = stage /\ spec' = spec /\ plumbing' = plumbing /\ up' = up
        /\ spec[p] \in 0 .. MaxSpecs /\ plumbing[p] \in 0 .. MaxSpecs /\ MaxSpecs \in Nat
        /\ s \in Nat
    BY TestRunAssumption DEF suiteVars, specVars, Typed, TypeOK
  <1> USE <1>0 DEF SpecInv
  <1>1. CASE Connect(p, s)
    <2>1. /\ Moves("started", "connected")
          /\ pools'[p] = pools[p] \cup {<<s, 1>>}
          /\ UNCHANGED <<database[p], sessions[p], failed[p]>>
      BY <1>1, RunsEffect DEF Connect, Typed, TypeOK
    <2>2. RunnersInv(p)'
      BY <2>1 DEF RunnersInv, Working, Leaving
    <2>3. DatabaseInv(p)'
      BY <2>1 DEF RunnersInv, Working, Leaving, DatabaseInv
    <2>4. CleanInv(p)'
      BY <2>1 DEF RunnersInv, Working, Leaving, CleanInv
    <2>5. PoolInv(p)'
      <3>1. \A t \in 1 .. MaxSpecs :
              /\ <<t, 1>> \in pools'[p] <=> <<t, 1>> \in pools[p] \/ t = s
              /\ <<t, 2>> \in pools'[p] <=> <<t, 2>> \in pools[p]
              /\ <<t, 3>> \in pools'[p] <=> <<t, 3>> \in pools[p]
        BY <2>1
      <3> QED BY <2>1, <3>1 DEF PoolInv
    <2> QED BY <2>2, <2>3, <2>4, <2>5
  <1>2. CASE DropOld(p, s)
    <2>1. /\ Moves("connected", "dropped")
          /\ database'[p] = IF CanDrop(p) THEN 0 ELSE database[p]
          /\ UNCHANGED <<sessions[p], pools[p], failed[p]>>
      BY <1>2, RunsEffect DEF DropOld, Typed, TypeOK
    <2>2. RunnersInv(p)'
      BY <2>1 DEF RunnersInv, Working, Leaving
    <2>3. DatabaseInv(p)'
      BY <2>1 DEF RunnersInv, Working, Leaving, DatabaseInv
    <2>4. CleanInv(p)'
      BY <2>1 DEF RunnersInv, Working, Leaving, CleanInv
    <2>5. PoolInv(p)'
      BY <2>1 DEF PoolInv
    <2> QED BY <2>2, <2>3, <2>4, <2>5
  <1>3. CASE Open(p, s)
    <2>1. /\ Moves("created", "opened")
          /\ pools'[p] = pools[p] \cup {<<s, 2>>}
          /\ sessions'[p] = sessions[p] \cup {<<"runner", s>>}
          /\ UNCHANGED <<database[p], failed[p]>>
      BY <1>3, RunsEffect DEF Open, Typed, TypeOK
    <2>2. RunnersInv(p)'
      BY <2>1 DEF RunnersInv, Working, Leaving
    <2>3. DatabaseInv(p)'
      BY <2>1 DEF RunnersInv, Working, Leaving, DatabaseInv
    <2>4. CleanInv(p)'
      BY <2>1 DEF RunnersInv, Working, Leaving, CleanInv
    <2>5. PoolInv(p)'
      <3>1. \A t \in 1 .. MaxSpecs :
              /\ <<t, 1>> \in pools'[p] <=> <<t, 1>> \in pools[p]
              /\ <<t, 2>> \in pools'[p] <=> <<t, 2>> \in pools[p] \/ t = s
              /\ <<t, 3>> \in pools'[p] <=> <<t, 3>> \in pools[p]
        BY <2>1
      <3> QED BY <2>1, <3>1 DEF PoolInv
    <2> QED BY <2>2, <2>3, <2>4, <2>5
  <1>4. CASE Ready(p, s)
    <2>1. /\ Moves("opened", "ready")
          /\ pools'[p] = pools[p] \ {<<s, 2>>}
          /\ sessions'[p] = sessions[p] \ {<<"runner", s>>}
          /\ UNCHANGED <<database[p], failed[p]>>
      <3>1. Runs(p, s, "opened", "ready")
        BY <1>4 DEF Ready
      <3>2. Moves("opened", "ready")
        BY <3>1, RunsEffect
      <3>3. /\ pools'[p] = pools[p] \ {<<s, 2>>}
            /\ sessions'[p] = sessions[p] \ {<<"runner", s>>}
        BY <1>4 DEF Ready, Typed, TypeOK
      <3>4. UNCHANGED <<database[p], failed[p]>>
        BY <1>4 DEF Ready
      <3> QED BY <3>2, <3>3, <3>4
    <2>2. RunnersInv(p)'
      BY <2>1 DEF RunnersInv, Working, Leaving
    <2>3. DatabaseInv(p)'
      BY <2>1 DEF RunnersInv, Working, Leaving, DatabaseInv
    <2>4. CleanInv(p)'
      BY <2>1 DEF RunnersInv, Working, Leaving, CleanInv
    <2>5. PoolInv(p)'
      BY <2>1 DEF PoolInv
    <2> QED BY <2>2, <2>3, <2>4, <2>5
  <1>5. CASE Reconnect(p, s)
    <2>1. /\ Moves("signalled", "reconnected")
          /\ pools'[p] = pools[p] \cup {<<s, 3>>}
          /\ UNCHANGED <<database[p], sessions[p], failed[p]>>
      BY <1>5, RunsEffect DEF Reconnect, Typed, TypeOK
    <2>2. RunnersInv(p)'
      BY <2>1 DEF RunnersInv, Working, Leaving
    <2>3. DatabaseInv(p)'
      BY <2>1 DEF RunnersInv, Working, Leaving, DatabaseInv
    <2>4. CleanInv(p)'
      BY <2>1 DEF RunnersInv, Working, Leaving, CleanInv
    <2>5. PoolInv(p)'
      <3>1. \A t \in 1 .. MaxSpecs :
              /\ <<t, 1>> \in pools'[p] <=> <<t, 1>> \in pools[p]
              /\ <<t, 2>> \in pools'[p] <=> <<t, 2>> \in pools[p]
              /\ <<t, 3>> \in pools'[p] <=> <<t, 3>> \in pools[p] \/ t = s
        BY <2>1
      <3> QED BY <2>1, <3>1 DEF PoolInv
    <2> QED BY <2>2, <2>3, <2>4, <2>5
  <1>6. CASE Create(p, s) /\ database[p] = 0
    <2>1. /\ Moves("dropped", "created")
          /\ database'[p] = s
          /\ UNCHANGED <<sessions[p], pools[p], failed[p]>>
      BY <1>6, RunsEffect DEF Create, Typed, TypeOK
    <2>2. RunnersInv(p)'
      BY <2>1 DEF RunnersInv, Working, Leaving
    <2>3. DatabaseInv(p)'
      BY <2>1 DEF RunnersInv, Working, Leaving, DatabaseInv
    <2>4. CleanInv(p)'
      BY <2>1 DEF RunnersInv, Working, Leaving, CleanInv
    <2>5. PoolInv(p)'
      BY <2>1 DEF PoolInv
    <2> QED BY <2>2, <2>3, <2>4, <2>5
  <1>7. CASE Create(p, s) /\ database[p] # 0
    <2>1. /\ Moves("dropped", "exited")
          /\ pools'[p] = pools[p] \ {<<s, 1>>}
          /\ failed'[p] # {}
          /\ UNCHANGED <<sessions[p], database[p]>>
      <3>1. Moves("dropped", "exited")
        BY <1>7, RunsEffect DEF Create, Exits
      <3>2. failed'[p] = failed[p] \cup {spec[p]}
        BY <1>7 DEF Create, Fails, Typed, TypeOK
      <3> QED BY <1>7, <3>1, <3>2 DEF Create, Exits, Typed, TypeOK
    <2>2. RunnersInv(p)'
      BY <2>1 DEF RunnersInv, Working, Leaving
    <2>3. DatabaseInv(p)'
      BY <2>1 DEF RunnersInv, Working, Leaving, DatabaseInv
    <2>4. CleanInv(p)'
      BY <2>1 DEF RunnersInv, Working, Leaving, CleanInv
    <2>5. PoolInv(p)'
      BY <2>1 DEF PoolInv
    <2> QED BY <2>2, <2>3, <2>4, <2>5
  <1>8. CASE Drop(p, s)
    <2>1. /\ Moves("reconnected", "exited")
          /\ pools'[p] = pools[p] \ {<<s, 1>>}
          /\ IF CanDrop(p) THEN database'[p] = 0 /\ UNCHANGED failed[p]
             ELSE database'[p] = database[p] /\ failed'[p] # {}
          /\ UNCHANGED sessions[p]
      <3>1. Moves("reconnected", "exited")
        BY <1>8, RunsEffect DEF Drop, Exits
      <3>2. CASE CanDrop(p)
        BY <1>8, <3>1, <3>2 DEF Drop, Exits, Typed, TypeOK
      <3>3. CASE ~CanDrop(p)
        <4>1. failed'[p] = failed[p] \cup {spec[p]}
          BY <1>8, <3>3 DEF Drop, Fails, Typed, TypeOK
        <4> QED BY <1>8, <3>1, <3>3, <4>1 DEF Drop, Exits, Typed, TypeOK
      <3> QED BY <3>2, <3>3
    <2>2. RunnersInv(p)'
      BY <2>1 DEF RunnersInv, Working, Leaving
    <2>3. DatabaseInv(p)'
      BY <2>1 DEF RunnersInv, Working, Leaving, DatabaseInv
    <2>4. CleanInv(p)'
      BY <2>1 DEF RunnersInv, Working, Leaving, CleanInv, CanDrop
    <2>5. PoolInv(p)'
      BY <2>1 DEF PoolInv
    <2> QED BY <2>2, <2>3, <2>4, <2>5
  <1>9. CASE RunnerFails(p, s)
    <2>1. /\ \E from \in {"started", "dropped", "created", "opened", "signalled", "reconnected"} :
               Moves(from, "exited")
          /\ pools'[p] = pools[p] \ {<<s, 1>>}
          /\ failed'[p] # {}
          /\ UNCHANGED <<sessions[p], database[p]>>
      <3>1. PICK from \in {"started", "dropped", "created", "opened", "signalled", "reconnected"} :
              Exits(p, s, from)
        BY <1>9 DEF RunnerFails
      <3>2. Moves(from, "exited")
        BY <3>1, RunsEffect DEF Exits
      <3> QED BY <1>9, <3>1, <3>2 DEF RunnerFails, Exits, Fails, Typed, TypeOK
    <2>2. RunnersInv(p)'
      BY <2>1 DEF RunnersInv, Working, Leaving
    <2>3. DatabaseInv(p)'
      BY <2>1 DEF RunnersInv, Working, Leaving, DatabaseInv
    <2>4. CleanInv(p)'
      BY <2>1 DEF RunnersInv, Working, Leaving, CleanInv
    <2>5. PoolInv(p)'
      BY <2>1 DEF PoolInv
    <2> QED BY <2>2, <2>3, <2>4, <2>5
  <1> QED BY <1>1, <1>2, <1>3, <1>4, <1>5, <1>6, <1>7, <1>8, <1>9 DEF RunnerStep

-----------------------------------------------------------------------------
\* The files of different kinds and processes are different.
LEMMA FilesDiffer ==
  ASSUME NEW p, NEW q
  PROVE  /\ \A f \in {SuiteDir, Archive, BuildDir} :
              f \notin {Depot(p), MakerDir(p), Unprivileged(p), Privileged(p), ConfigFiles(p)}
         /\ SuiteDir # Archive /\ SuiteDir # BuildDir /\ Archive # BuildDir
         /\ Depot(p) \notin {MakerDir(q), Unprivileged(q), Privileged(q), ConfigFiles(q)}
         /\ MakerDir(p) \notin {Unprivileged(q), Privileged(q), ConfigFiles(q)}
         /\ Unprivileged(p) \notin {Privileged(q), ConfigFiles(q)}
         /\ Privileged(p) # ConfigFiles(q)
         /\ p # q => /\ Depot(p) # Depot(q) /\ MakerDir(p) # MakerDir(q)
                     /\ Unprivileged(p) # Unprivileged(q) /\ Privileged(p) # Privileged(q)
  BY DEF SuiteDir, Archive, BuildDir, Depot, MakerDir, Unprivileged, Privileged, ConfigFiles

\* Steps that leave the suite's variables alone; a file server that finds no
\* archive has come too late.
LEMMA SpecStepFiles ==
  ASSUME Typed, FilesInv, NEW q \in Procs, SpecInv(q),
         UNCHANGED <<suite, suiteVars>>,
         UNCHANGED served \/ PlumbingUp(q)
  PROVE  FilesInv'
  <1>1. ArchiveServedWhileProcess1Runs'
    <2>1. CASE UNCHANGED served
      BY <2>1 DEF FilesInv, ArchiveServedWhileProcess1Runs, suiteVars
    <2>2. CASE PlumbingUp(q)
      <3>1. phase[q] = "specs"
        BY <2>2 DEF PlumbingUp, InSpecs
      <3>2. phase[1] # "build"
        BY <3>1 DEF FilesInv, SuiteDirOwned
      <3> QED BY <2>2, <3>2 DEF PlumbingUp, FilesInv, ArchiveServedWhileProcess1Runs, suiteVars, SuiteDirOwned, Typed, TypeOK
    <2> QED BY <2>1, <2>2
  <1> QED BY <1>1 DEF FilesInv, SuiteDirOwned, CertsOutliveSpecs, Made, Removed, suiteVars

\* The steps of SynchronizedBeforeSuite and AfterSuite.
LEMMA SuiteStepFiles ==
  ASSUME Typed, FilesInv, NEW q \in Procs,
         BeforeSuite(q) \/ AfterSuiteStep(q) \/ NoMoreSpecs(q) \/ (q = 1 /\ BuildFails)
           \/ PrepareFails(q) \/ RemoveDepotFails(q) \/ DeleteStoreFails(q)
           \/ RemoveMakerDirFails(q) \/ RemoveTempDirFails(q)
  PROVE  FilesInv'
  <1>0. /\ 1 \in Procs /\ suite' = suite /\ served' = served
        /\ phase \in [Procs -> Phases] /\ broken \subseteq Procs
        /\ suiteTempDir \in [Procs -> BOOLEAN] /\ maker \in [Procs -> BOOLEAN]
    BY TestRunAssumption
    DEF Typed, TypeOK, BeforeSuite, AfterSuiteStep, BuildArtifacts, ReceivePayload, ReceiveFailure,
        MakeDepot, MakeMaker, InitUnprivileged, InitPrivileged, Prepare, AfterSuite,
        DeleteUnprivileged, DeletePrivileged, RemoveMakerDir, RemoveTempDir, Removes, NoMoreSpecs,
        BuildFails, PrepareFails, CleanupFails, RemoveDepotFails, DeleteStoreFails,
        RemoveMakerDirFails, RemoveTempDirFails, specVars
  <1> USE <1>0, FilesDiffer DEF FilesInv, Enters
  <1>1. CASE q = 1 /\ BuildArtifacts
    <2>1. SuiteDirOwned'
      BY <1>1 DEF BuildArtifacts, Built, SuiteDirOwned, BeforeAfterSuite
    <2>2. CertsOutliveSpecs'
      BY <1>1 DEF BuildArtifacts, Built, CertsOutliveSpecs, SuiteDirOwned
    <2>3. ArchiveServedWhileProcess1Runs'
      BY <1>1 DEF BuildArtifacts, Built, ArchiveServedWhileProcess1Runs, BeforeAfterSuite
    <2>4. \A p \in Procs : Made(p)'
      BY <1>1 DEF BuildArtifacts, Built, Made
    <2>5. \A p \in Procs : Removed(p)'
      BY <1>1 DEF BuildArtifacts, Built, Made, Removed, SuiteDirOwned
    <2> QED BY <2>1, <2>2, <2>3, <2>4, <2>5
  <1>2. CASE ReceivePayload(q)
    <2>1. SuiteDirOwned'
      BY <1>2 DEF ReceivePayload, SuiteDirOwned, BeforeAfterSuite
    <2>2. CertsOutliveSpecs'
      BY <1>2 DEF ReceivePayload, CertsOutliveSpecs, SuiteDirOwned
    <2>3. ArchiveServedWhileProcess1Runs'
      BY <1>2 DEF ReceivePayload, ArchiveServedWhileProcess1Runs, BeforeAfterSuite
    <2>4. \A p \in Procs : Made(p)'
      BY <1>2 DEF ReceivePayload, Made
    <2>5. \A p \in Procs : Removed(p)'
      BY <1>2 DEF ReceivePayload, Made, Removed, SuiteDirOwned
    <2> QED BY <2>1, <2>2, <2>3, <2>4, <2>5
  <1>3. CASE ReceiveFailure(q)
    <2>1. SuiteDirOwned'
      BY <1>3 DEF ReceiveFailure, SuiteDirOwned, BeforeAfterSuite
    <2>2. CertsOutliveSpecs'
      BY <1>3 DEF ReceiveFailure, CertsOutliveSpecs, SuiteDirOwned
    <2>3. ArchiveServedWhileProcess1Runs'
      BY <1>3 DEF ReceiveFailure, ArchiveServedWhileProcess1Runs, BeforeAfterSuite
    <2>4. \A p \in Procs : Made(p)'
      BY <1>3 DEF ReceiveFailure, Made
    <2>5. \A p \in Procs : Removed(p)'
      BY <1>3 DEF ReceiveFailure, Made, Removed, SuiteDirOwned
    <2> QED BY <2>1, <2>2, <2>3, <2>4, <2>5
  <1>4. CASE MakeDepot(q)
    <2>1. SuiteDirOwned'
      BY <1>4 DEF MakeDepot, Prepare, SuiteDirOwned, BeforeAfterSuite
    <2>2. CertsOutliveSpecs'
      BY <1>4 DEF MakeDepot, Prepare, CertsOutliveSpecs, SuiteDirOwned
    <2>3. ArchiveServedWhileProcess1Runs'
      BY <1>4 DEF MakeDepot, Prepare, ArchiveServedWhileProcess1Runs, BeforeAfterSuite
    <2>4. \A p \in Procs : Made(p)'
      BY <1>4 DEF MakeDepot, Prepare, Made
    <2>5. \A p \in Procs : Removed(p)'
      BY <1>4 DEF MakeDepot, Prepare, Made, Removed, SuiteDirOwned
    <2> QED BY <2>1, <2>2, <2>3, <2>4, <2>5
  <1>5. CASE MakeMaker(q)
    <2>1. SuiteDirOwned'
      BY <1>5 DEF MakeMaker, Prepare, SuiteDirOwned, BeforeAfterSuite
    <2>2. CertsOutliveSpecs'
      BY <1>5 DEF MakeMaker, Prepare, CertsOutliveSpecs, SuiteDirOwned
    <2>3. ArchiveServedWhileProcess1Runs'
      BY <1>5 DEF MakeMaker, Prepare, ArchiveServedWhileProcess1Runs, BeforeAfterSuite
    <2>4. \A p \in Procs : Made(p)'
      BY <1>5 DEF MakeMaker, Prepare, Made
    <2>5. \A p \in Procs : Removed(p)'
      <3>1. /\ files' = files \cup {MakerDir(q)} /\ phase[q] = "maker"
            /\ phase' = [phase EXCEPT ![q] = "unprivileged"]
            /\ UNCHANGED <<broken, ignored>>
        BY <1>5 DEF MakeMaker, Prepare
      <3>2. Removed(q)'
        BY <3>1 DEF Removed
      <3>3. ASSUME NEW p \in Procs, p # q PROVE Removed(p)'
        BY <3>1, <3>3 DEF Removed
      <3> QED BY <3>2, <3>3
    <2> QED BY <2>1, <2>2, <2>3, <2>4, <2>5
  <1>6. CASE InitUnprivileged(q)
    <2>1. SuiteDirOwned'
      BY <1>6 DEF InitUnprivileged, Prepare, SuiteDirOwned, BeforeAfterSuite
    <2>2. CertsOutliveSpecs'
      BY <1>6 DEF InitUnprivileged, Prepare, CertsOutliveSpecs, SuiteDirOwned
    <2>3. ArchiveServedWhileProcess1Runs'
      BY <1>6 DEF InitUnprivileged, Prepare, ArchiveServedWhileProcess1Runs, BeforeAfterSuite
    <2>4. \A p \in Procs : Made(p)'
      BY <1>6 DEF InitUnprivileged, Prepare, Made
    <2>5. \A p \in Procs : Removed(p)'
      BY <1>6 DEF InitUnprivileged, Prepare, Made, Removed, SuiteDirOwned
    <2> QED BY <2>1, <2>2, <2>3, <2>4, <2>5
  <1>7. CASE InitPrivileged(q)
    <2>1. SuiteDirOwned'
      BY <1>7 DEF InitPrivileged, Prepare, SuiteDirOwned, BeforeAfterSuite
    <2>2. CertsOutliveSpecs'
      BY <1>7 DEF InitPrivileged, Prepare, CertsOutliveSpecs, SuiteDirOwned
    <2>3. ArchiveServedWhileProcess1Runs'
      BY <1>7 DEF InitPrivileged, Prepare, ArchiveServedWhileProcess1Runs, BeforeAfterSuite
    <2>4. \A p \in Procs : Made(p)'
      BY <1>7 DEF InitPrivileged, Prepare, Made
    <2>5. \A p \in Procs : Removed(p)'
      BY <1>7 DEF InitPrivileged, Prepare, Made, Removed, SuiteDirOwned
    <2> QED BY <2>1, <2>2, <2>3, <2>4, <2>5
  <1>8. CASE NoMoreSpecs(q)
    <2>1. SuiteDirOwned'
      BY <1>8 DEF NoMoreSpecs, SuiteDirOwned, BeforeAfterSuite
    <2>2. CertsOutliveSpecs'
      BY <1>8 DEF NoMoreSpecs, CertsOutliveSpecs, SuiteDirOwned
    <2>3. ArchiveServedWhileProcess1Runs'
      BY <1>8 DEF NoMoreSpecs, ArchiveServedWhileProcess1Runs, BeforeAfterSuite
    <2>4. \A p \in Procs : Made(p)'
      BY <1>8 DEF NoMoreSpecs, Made
    <2>5. \A p \in Procs : Removed(p)'
      BY <1>8 DEF NoMoreSpecs, Made, Removed, SuiteDirOwned
    <2> QED BY <2>1, <2>2, <2>3, <2>4, <2>5
  <1>9. CASE AfterSuite(q)
    <2>1. SuiteDirOwned'
      BY <1>9 DEF AfterSuite, Removes, SuiteDirOwned, BeforeAfterSuite
    <2>2. CertsOutliveSpecs'
      BY <1>9 DEF AfterSuite, Removes, CertsOutliveSpecs, SuiteDirOwned
    <2>3. ArchiveServedWhileProcess1Runs'
      BY <1>9 DEF AfterSuite, Removes, ArchiveServedWhileProcess1Runs, BeforeAfterSuite
    <2>4. \A p \in Procs : Made(p)'
      BY <1>9 DEF AfterSuite, Removes, Made
    <2>5. \A p \in Procs : Removed(p)'
      BY <1>9 DEF AfterSuite, Removes, Made, Removed, SuiteDirOwned
    <2> QED BY <2>1, <2>2, <2>3, <2>4, <2>5
  <1>10. CASE DeleteUnprivileged(q)
    <2>1. SuiteDirOwned'
      BY <1>10 DEF DeleteUnprivileged, Removes, SuiteDirOwned, BeforeAfterSuite
    <2>2. CertsOutliveSpecs'
      BY <1>10 DEF DeleteUnprivileged, Removes, CertsOutliveSpecs, SuiteDirOwned
    <2>3. ArchiveServedWhileProcess1Runs'
      BY <1>10 DEF DeleteUnprivileged, Removes, ArchiveServedWhileProcess1Runs, BeforeAfterSuite
    <2>4. \A p \in Procs : Made(p)'
      BY <1>10 DEF DeleteUnprivileged, Removes, Made
    <2>5. \A p \in Procs : Removed(p)'
      BY <1>10 DEF DeleteUnprivileged, Removes, Made, Removed, SuiteDirOwned
    <2> QED BY <2>1, <2>2, <2>3, <2>4, <2>5
  <1>11. CASE DeletePrivileged(q)
    <2>1. SuiteDirOwned'
      BY <1>11 DEF DeletePrivileged, Removes, SuiteDirOwned, BeforeAfterSuite
    <2>2. CertsOutliveSpecs'
      BY <1>11 DEF DeletePrivileged, Removes, CertsOutliveSpecs, SuiteDirOwned
    <2>3. ArchiveServedWhileProcess1Runs'
      BY <1>11 DEF DeletePrivileged, Removes, ArchiveServedWhileProcess1Runs, BeforeAfterSuite
    <2>4. \A p \in Procs : Made(p)'
      BY <1>11 DEF DeletePrivileged, Removes, Made
    <2>5. \A p \in Procs : Removed(p)'
      BY <1>11 DEF DeletePrivileged, Removes, Made, Removed, SuiteDirOwned
    <2> QED BY <2>1, <2>2, <2>3, <2>4, <2>5
  <1>12. CASE RemoveMakerDir(q)
    <2>1. SuiteDirOwned'
      BY <1>12 DEF RemoveMakerDir, Removes, SuiteDirOwned, BeforeAfterSuite
    <2>2. CertsOutliveSpecs'
      BY <1>12 DEF RemoveMakerDir, Removes, CertsOutliveSpecs, SuiteDirOwned
    <2>3. ArchiveServedWhileProcess1Runs'
      BY <1>12 DEF RemoveMakerDir, Removes, ArchiveServedWhileProcess1Runs, BeforeAfterSuite
    <2>4. \A p \in Procs : Made(p)'
      BY <1>12 DEF RemoveMakerDir, Removes, Made
    <2>5. \A p \in Procs : Removed(p)'
      BY <1>12 DEF RemoveMakerDir, Removes, Made, Removed, SuiteDirOwned
    <2> QED BY <2>1, <2>2, <2>3, <2>4, <2>5
  <1>13. CASE RemoveTempDir(q)
    <2>1. SuiteDirOwned'
      BY <1>13 DEF RemoveTempDir, Removes, RemoveSuiteDir, InSuiteDir, SuiteDirOwned, BeforeAfterSuite
    <2>2. CertsOutliveSpecs'
      BY <1>13 DEF RemoveTempDir, Removes, RemoveSuiteDir, InSuiteDir, CertsOutliveSpecs, SuiteDirOwned
    <2>3. ArchiveServedWhileProcess1Runs'
      BY <1>13 DEF RemoveTempDir, Removes, RemoveSuiteDir, InSuiteDir, ArchiveServedWhileProcess1Runs, BeforeAfterSuite
    <2>4. \A p \in Procs : Made(p)'
      BY <1>13 DEF RemoveTempDir, Removes, RemoveSuiteDir, InSuiteDir, Made
    <2>5. \A p \in Procs : Removed(p)'
      BY <1>13 DEF RemoveTempDir, Removes, RemoveSuiteDir, InSuiteDir, Made, Removed, SuiteDirOwned
    <2> QED BY <2>1, <2>2, <2>3, <2>4, <2>5
  <1>14. CASE q = 1 /\ BuildFails
    <2>1. SuiteDirOwned'
      BY <1>14 DEF BuildFails, Built, SuiteDirOwned, BeforeAfterSuite
    <2>2. CertsOutliveSpecs'
      BY <1>14 DEF BuildFails, Built, CertsOutliveSpecs, SuiteDirOwned
    <2>3. ArchiveServedWhileProcess1Runs'
      BY <1>14 DEF BuildFails, Built, ArchiveServedWhileProcess1Runs, BeforeAfterSuite
    <2>4. \A p \in Procs : Made(p)'
      BY <1>14 DEF BuildFails, Built, Made
    <2>5. \A p \in Procs : Removed(p)'
      BY <1>14 DEF BuildFails, Built, Made, Removed, SuiteDirOwned
    <2> QED BY <2>1, <2>2, <2>3, <2>4, <2>5
  <1>15. CASE PrepareFails(q)
    <2>1. SuiteDirOwned'
      BY <1>15 DEF PrepareFails, SuiteDirOwned, BeforeAfterSuite
    <2>2. CertsOutliveSpecs'
      BY <1>15 DEF PrepareFails, CertsOutliveSpecs, SuiteDirOwned
    <2>3. ArchiveServedWhileProcess1Runs'
      BY <1>15 DEF PrepareFails, ArchiveServedWhileProcess1Runs, BeforeAfterSuite
    <2>4. \A p \in Procs : Made(p)'
      BY <1>15 DEF PrepareFails, Made
    <2>5. \A p \in Procs : Removed(p)'
      <3>1. files' \subseteq files \cup {Depot(q), MakerDir(q), ConfigFiles(q)}
        BY <1>15 DEF PrepareFails
      <3>2. /\ phase' = [phase EXCEPT ![q] = "after"] /\ broken' = broken \cup {q}
            /\ ignored' = ignored /\ phase[q] # "ended"
        BY <1>15 DEF PrepareFails
      <3>3. Removed(q)'
        BY <3>2 DEF Removed
      <3>4. ASSUME NEW p \in Procs, p # q PROVE Removed(p)'
        <4>1. {SuiteDir, Archive, Depot(p), MakerDir(p), Unprivileged(p), Privileged(p)} \cap files' \subseteq files
          BY <3>1, <3>4
        <4> QED BY <3>2, <3>4, <4>1 DEF Removed
      <3> QED BY <3>3, <3>4
    <2> QED BY <2>1, <2>2, <2>3, <2>4, <2>5
  <1>16. CASE DeleteStoreFails(q)
    <2>1. SuiteDirOwned'
      BY <1>16 DEF DeleteStoreFails, CleanupFails, SuiteDirOwned, BeforeAfterSuite
    <2>2. CertsOutliveSpecs'
      BY <1>16 DEF DeleteStoreFails, CleanupFails, CertsOutliveSpecs, SuiteDirOwned
    <2>3. ArchiveServedWhileProcess1Runs'
      BY <1>16 DEF DeleteStoreFails, CleanupFails, ArchiveServedWhileProcess1Runs, BeforeAfterSuite
    <2>4. \A p \in Procs : Made(p)'
      BY <1>16 DEF DeleteStoreFails, CleanupFails, Made
    <2>5. \A p \in Procs : Removed(p)'
      BY <1>16 DEF DeleteStoreFails, CleanupFails, Made, Removed, SuiteDirOwned
    <2> QED BY <2>1, <2>2, <2>3, <2>4, <2>5
  <1>17. CASE RemoveDepotFails(q)
    <2>1. SuiteDirOwned'
      BY <1>17 DEF RemoveDepotFails, CleanupFails, SuiteDirOwned, BeforeAfterSuite
    <2>2. CertsOutliveSpecs'
      BY <1>17 DEF RemoveDepotFails, CleanupFails, CertsOutliveSpecs, SuiteDirOwned
    <2>3. ArchiveServedWhileProcess1Runs'
      BY <1>17 DEF RemoveDepotFails, CleanupFails, ArchiveServedWhileProcess1Runs, BeforeAfterSuite
    <2>4. \A p \in Procs : Made(p)'
      BY <1>17 DEF RemoveDepotFails, CleanupFails, Made
    <2>5. \A p \in Procs : Removed(p)'
      BY <1>17 DEF RemoveDepotFails, CleanupFails, Made, Removed, SuiteDirOwned
    <2> QED BY <2>1, <2>2, <2>3, <2>4, <2>5
  <1>18. CASE RemoveMakerDirFails(q)
    <2>1. SuiteDirOwned'
      BY <1>18 DEF RemoveMakerDirFails, CleanupFails, SuiteDirOwned, BeforeAfterSuite
    <2>2. CertsOutliveSpecs'
      BY <1>18 DEF RemoveMakerDirFails, CleanupFails, CertsOutliveSpecs, SuiteDirOwned
    <2>3. ArchiveServedWhileProcess1Runs'
      BY <1>18 DEF RemoveMakerDirFails, CleanupFails, ArchiveServedWhileProcess1Runs, BeforeAfterSuite
    <2>4. \A p \in Procs : Made(p)'
      BY <1>18 DEF RemoveMakerDirFails, CleanupFails, Made
    <2>5. \A p \in Procs : Removed(p)'
      BY <1>18 DEF RemoveMakerDirFails, CleanupFails, Made, Removed, SuiteDirOwned
    <2> QED BY <2>1, <2>2, <2>3, <2>4, <2>5
  <1>19. CASE RemoveTempDirFails(q)
    <2>1. SuiteDirOwned'
      BY <1>19 DEF RemoveTempDirFails, CleanupFails, InSuiteDir, SuiteDirOwned, BeforeAfterSuite
    <2>2. CertsOutliveSpecs'
      BY <1>19 DEF RemoveTempDirFails, CleanupFails, InSuiteDir, CertsOutliveSpecs, SuiteDirOwned
    <2>3. ArchiveServedWhileProcess1Runs'
      BY <1>19 DEF RemoveTempDirFails, CleanupFails, InSuiteDir, ArchiveServedWhileProcess1Runs, BeforeAfterSuite
    <2>4. \A p \in Procs : Made(p)'
      BY <1>19 DEF RemoveTempDirFails, CleanupFails, InSuiteDir, Made
    <2>5. \A p \in Procs : Removed(p)'
      BY <1>19 DEF RemoveTempDirFails, CleanupFails, InSuiteDir, Made, Removed, SuiteDirOwned
    <2> QED BY <2>1, <2>2, <2>3, <2>4, <2>5
  <1> QED BY <1>1, <1>2, <1>3, <1>4, <1>5, <1>6, <1>7, <1>8, <1>9, <1>10, <1>11, <1>12, <1>13, <1>14, <1>15, <1>16, <1>17,
      <1>18, <1>19 DEF BeforeSuite, AfterSuiteStep

-----------------------------------------------------------------------------
\* Types.
LEMMA SmallSets ==
  ASSUME NEW x
  PROVE  Cardinality({x}) <= 1 /\ Cardinality({}) <= 1
  <1>1. Cardinality({x}) = 1
    BY FS_Singleton
  <1>2. Cardinality({}) = 0
    BY FS_EmptySet
  <1> QED BY <1>1, <1>2

\* The directories, stores and depots of a process are files of the model.
LEMMA FilesOf ==
  ASSUME NEW q \in Procs
  PROVE  /\ {SuiteDir, Archive, BuildDir} \subseteq Files
         /\ {Depot(q), MakerDir(q), Unprivileged(q), Privileged(q), ConfigFiles(q)} \subseteq Files
  BY DEF Files

\* A runner that moves to one of its states keeps the type of runner.
LEMMA RunsTyped ==
  ASSUME Typed, NEW q \in Procs, NEW s \in 1 .. MaxSpecs, NEW from, NEW to \in RunnerStates,
         Runs(q, s, from, to)
  PROVE  runner' \in [Procs -> [1 .. MaxSpecs -> RunnerStates]]
  BY DEF Typed, TypeOK, Runs

\* A failure is recorded for a spec of the run.
LEMMA FailsTyped ==
  ASSUME Typed, NEW q \in Procs, Fails(q)
  PROVE  failed' \in [Procs -> SUBSET (0 .. MaxSpecs)]
  BY DEF Typed, TypeOK, Fails

\* Faults stay within their bound.
LEMMA FaultTyped ==
  ASSUME Typed, Fault
  PROVE  faults' \in 0 .. MaxFaults
  BY TestRunAssumption DEF Typed, TypeOK, Fault

\* The variables that a step of process q's suite, of its specs and of its
\* runners changes, and that these keep their types.
LEMMA TypesKept ==
  ASSUME Typed, NEW q \in Procs, SpecInv(q), StepOf(q)
  PROVE  Typed'
  <1> USE TestRunAssumption
      DEF Typed, TypeOK, sqlVars, suiteVars, specVars, Enters, InSpecs, Phases, Stages
  <1>1. CASE BeforeSuite(q)
    <2> USE DEF Prepare
    <2>1. CASE q = 1 /\ BuildArtifacts
      BY <2>1, FilesOf DEF BuildArtifacts, Built
    <2>2. CASE ReceivePayload(q) \/ ReceiveFailure(q)
      BY <2>2 DEF ReceivePayload, ReceiveFailure
    <2>3. CASE MakeDepot(q)
      BY <2>3, FilesOf DEF MakeDepot
    <2>4. CASE MakeMaker(q)
      BY <2>4, FilesOf DEF MakeMaker
    <2>5. CASE InitUnprivileged(q)
      BY <2>5, FilesOf DEF InitUnprivileged
    <2>6. CASE InitPrivileged(q)
      BY <2>6, FilesOf DEF InitPrivileged
    <2> QED BY <1>1, <2>1, <2>2, <2>3, <2>4, <2>5, <2>6 DEF BeforeSuite
  <1>2. CASE SpecStep(q)
    <2>1. CASE BeginSpec(q)
      <3>1. runner' \in [Procs -> [1 .. MaxSpecs -> RunnerStates]]
        <4>1. "started" \in RunnerStates /\ spec[q] + 1 \in 1 .. MaxSpecs
          BY <2>1 DEF BeginSpec, RunnerStates
        <4>2. CASE runner' = runner
          BY <4>2
        <4>3. CASE runner' = [runner EXCEPT ![q][spec[q] + 1] = "started"]
          BY <4>1, <4>3
        <4> QED BY <2>1, <4>2, <4>3 DEF BeginSpec
      <3>2. spec' \in [Procs -> 0 .. MaxSpecs] /\ stage' \in [Procs -> Stages]
        BY <2>1, SMTT(30) DEF BeginSpec
      <3> QED BY <2>1, <3>1, <3>2 DEF BeginSpec
    <2>2. CASE PlumbingUp(q)
      <3>1. spec[q] \in 1 .. MaxSpecs
        BY <2>2 DEF PlumbingUp, SpecInv, RunnersInv
      <3>2. sessions' \in [Procs -> SUBSET ({"runner", "diego"} \X (1 .. MaxSpecs))]
        BY <2>2, <3>1 DEF PlumbingUp
      <3>3. up' \in [Procs -> SUBSET (1 .. MaxSpecs)]
        BY <2>2, <3>1 DEF PlumbingUp
      <3>4. \A p \in Procs : up'[p] \subseteq 1 .. MaxSpecs /\ Cardinality(up'[p]) <= 1
        BY <2>2, <3>1, <3>3, SmallSets DEF PlumbingUp
      <3>5. /\ plumbing' \in [Procs -> 0 .. MaxSpecs] /\ stage' \in [Procs -> Stages]
            /\ served' \in [Procs -> BOOLEAN]
        BY <2>2 DEF PlumbingUp
      <3> QED BY <2>2, <3>2, <3>3, <3>4, <3>5 DEF PlumbingUp
    <2>3. CASE PlumbingRefused(q)
      BY <2>3 DEF PlumbingRefused, RunnerStates
    <2>4. CASE PlumbingFails(q)
      BY <2>4, FailsTyped DEF PlumbingFails
    <2>5. CASE BodyEnds(q) \/ SpecEnds(q)
      BY <2>5 DEF BodyEnds, SpecEnds
    <2>6. CASE StopPlumbing(q)
      <3>1. up' \in [Procs -> SUBSET (1 .. MaxSpecs)]
        BY <2>6 DEF StopPlumbing
      <3>2. ASSUME NEW p \in Procs PROVE Cardinality(up'[p]) <= 1
        <4>1. up'[q] = {}
          BY <2>6 DEF StopPlumbing, SpecInv, RunnersInv
        <4>2. p # q => up'[p] = up[p]
          BY <2>6 DEF StopPlumbing
        <4> QED BY <4>1, <4>2, SmallSets
      <3>3. runner' \in [Procs -> [1 .. MaxSpecs -> RunnerStates]]
        <4>1. "signalled" \in RunnerStates
          BY DEF RunnerStates
        <4>2. CASE runner' = runner
          BY <4>2
        <4>3. CASE runner' = [runner EXCEPT ![q][plumbing[q]] = "signalled"]
          BY <4>1, <4>3
        <4> QED BY <2>6, <4>2, <4>3 DEF StopPlumbing
      <3>4. /\ sessions' \in [Procs -> SUBSET ({"runner", "diego"} \X (1 .. MaxSpecs))]
            /\ stage' \in [Procs -> Stages]
        BY <2>6 DEF StopPlumbing
      <3> QED BY <2>6, <3>1, <3>2, <3>3, <3>4 DEF StopPlumbing
    <2>7. CASE NoMoreSpecs(q)
      BY <2>7 DEF NoMoreSpecs
    <2> QED BY <1>2, <2>1, <2>2, <2>3, <2>4, <2>5, <2>6, <2>7 DEF SpecStep
  <1>3. CASE AfterSuiteStep(q)
    BY <1>3 DEF AfterSuiteStep, AfterSuite, DeleteUnprivileged, DeletePrivileged, RemoveMakerDir,
                RemoveTempDir, Removes
  <1>4. CASE SomethingFails(q)
    <2>1. CASE q = 1 /\ BuildFails
      BY <2>1, FilesOf, FaultTyped DEF BuildFails, Built
    <2>2. CASE PrepareFails(q)
      <3>1. files' \subseteq Files
        BY <2>2, FilesOf DEF PrepareFails
      <3> QED BY <2>2, <3>1, FaultTyped DEF PrepareFails
    <2>3. CASE TeardownAborts(q)
      BY <2>3, FailsTyped, FaultTyped DEF TeardownAborts
    <2>4. CASE RemoveDepotFails(q) \/ DeleteStoreFails(q) \/ RemoveMakerDirFails(q)
      BY <2>4, FaultTyped DEF RemoveDepotFails, DeleteStoreFails, RemoveMakerDirFails, CleanupFails
    <2>5. CASE RemoveTempDirFails(q)
      BY <2>5, FaultTyped DEF RemoveTempDirFails, CleanupFails
    <2> QED BY <1>4, <2>1, <2>2, <2>3, <2>4, <2>5 DEF SomethingFails
  <1>5. CASE Runners(q)
    <2>0. PICK s \in 1 .. MaxSpecs : RunnerStep(q, s) \/ RunnerFails(q, s)
      BY <1>5 DEF Runners
    <2>1. UNCHANGED <<driver, spec, suite, suiteVars, specVars>>
      BY <1>5 DEF Runners
    <2>2. runner' \in [Procs -> [1 .. MaxSpecs -> RunnerStates]]
      BY <2>0, RunsTyped
      DEF RunnerStep, RunnerFails, Connect, DropOld, Create, Open, Ready, Reconnect, Drop, Exits,
          RunnerStates
    <2>3. database' \in [Procs -> 0 .. MaxSpecs]
      <3>1. database' \in {database, [database EXCEPT ![q] = 0], [database EXCEPT ![q] = s]}
        BY <2>0
        DEF RunnerStep, RunnerFails, Connect, DropOld, Create, Open, Ready, Reconnect, Drop
      <3> QED BY <3>1, SMTT(30)
    <2>4. sessions' \in [Procs -> SUBSET ({"runner", "diego"} \X (1 .. MaxSpecs))]
      BY <2>0, SMTT(30)
      DEF RunnerStep, RunnerFails, Connect, DropOld, Create, Open, Ready, Reconnect, Drop
    <2>5. pools' \in [Procs -> SUBSET ((1 .. MaxSpecs) \X (1 .. 3))]
      <3>1. {<<s, 1>>, <<s, 2>>, <<s, 3>>} \subseteq (1 .. MaxSpecs) \X (1 .. 3)
        OBVIOUS
      <3>2. \/ pools' = pools
            \/ \E x \in {<<s, 1>>, <<s, 2>>, <<s, 3>>} :
                 \/ pools' = [pools EXCEPT ![q] = @ \cup {x}]
                 \/ pools' = [pools EXCEPT ![q] = @ \ {x}]
        <4>1. CASE Connect(q, s) \/ DropOld(q, s) \/ Open(q, s) \/ Ready(q, s) \/ Reconnect(q, s)
          BY <4>1 DEF Connect, DropOld, Open, Ready, Reconnect
        <4>2. CASE Create(q, s) \/ Drop(q, s) \/ RunnerFails(q, s)
          BY <4>2 DEF Create, Drop, RunnerFails, Exits
        <4> QED BY <2>0, <4>1, <4>2 DEF RunnerStep
      <3>3. CASE pools' = pools
        BY <3>3
      <3>4. ASSUME NEW x \in {<<s, 1>>, <<s, 2>>, <<s, 3>>}, pools' = [pools EXCEPT ![q] = @ \cup {x}]
            PROVE  pools' \in [Procs -> SUBSET ((1 .. MaxSpecs) \X (1 .. 3))]
        BY <3>1, <3>4, SMTT(30)
      <3>5. ASSUME NEW x, pools' = [pools EXCEPT ![q] = @ \ {x}]
            PROVE  pools' \in [Procs -> SUBSET ((1 .. MaxSpecs) \X (1 .. 3))]
        BY <3>5
      <3> QED BY <3>2, <3>3, <3>4, <3>5
    <2>6. failed' \in [Procs -> SUBSET (0 .. MaxSpecs)]
      BY <2>0, FailsTyped
      DEF RunnerStep, RunnerFails, Connect, DropOld, Create, Open, Ready, Reconnect, Drop
    <2>7. faults' \in 0 .. MaxFaults
      BY <2>0, FaultTyped
      DEF RunnerStep, RunnerFails, Connect, DropOld, Create, Open, Ready, Reconnect, Drop
    <2> QED BY <2>1, <2>2, <2>3, <2>4, <2>5, <2>6, <2>7
  <1> QED BY <1>1, <1>2, <1>3, <1>4, <1>5 DEF StepOf, Steps

-----------------------------------------------------------------------------
\* Without a fault nothing fails: every CREATE finds no database, and every
\* final DROP one that nobody uses.
LEMMA FaultlessKept ==
  ASSUME IInv, NEW q \in Procs, StepOf(q), faults' = 0
  PROVE  broken' = {} /\ (\A p \in Procs : failed'[p] = {}) /\ payload' # "failed"
  <1>1. faults \in 0 .. MaxFaults /\ MaxFaults \in Nat
    BY TestRunAssumption DEF IInv, Typed, TypeOK
  <1>2. ~Fault
    BY <1>1 DEF Fault
  <1>3. faults = 0
    <2>1. faults' = faults
      BY <1>2
      DEF StepOf, Steps, SomethingFails, Runners, BeforeSuite, SpecStep, AfterSuiteStep,
          BuildArtifacts, BuildFails, ReceivePayload, ReceiveFailure, MakeDepot, MakeMaker,
          InitUnprivileged, InitPrivileged, Prepare, PrepareFails, BeginSpec, PlumbingUp,
          PlumbingRefused, PlumbingFails, BodyEnds, StopPlumbing, TeardownAborts, SpecEnds,
          NoMoreSpecs, AfterSuite, DeleteUnprivileged, DeletePrivileged, RemoveMakerDir,
          RemoveTempDir, Removes, CleanupFails, RemoveDepotFails, DeleteStoreFails,
          RemoveMakerDirFails, RemoveTempDirFails, RunnerStep, RunnerFails, Connect, DropOld,
          Create, Open, Ready, Reconnect, Drop
    <2> QED BY <2>1
  <1>4. broken = {} /\ payload # "failed" /\ \A p \in Procs : failed[p] = {}
    BY <1>3 DEF IInv, NoFaultNoFailure
  <1>5. SpecInv(q) /\ Made(q) /\ failed[q] = {}
    BY <1>4 DEF IInv, FilesInv
  <1>6. CASE BeforeSuite(q)
    BY <1>4, <1>6 DEF BeforeSuite, BuildArtifacts, ReceivePayload, ReceiveFailure, MakeDepot,
       MakeMaker, InitUnprivileged, InitPrivileged, Prepare
  <1>7. CASE SpecStep(q)
    <2>1. ~PlumbingFails(q)
      BY <1>5 DEF PlumbingFails, InSpecs, SpecInv, CleanInv
    <2>2. UNCHANGED <<failed, broken, payload>>
      BY <1>7, <2>1 DEF SpecStep, BeginSpec, PlumbingUp, PlumbingRefused, BodyEnds, StopPlumbing,
         SpecEnds, NoMoreSpecs, suiteVars
    <2> QED BY <1>4, <2>2
  <1>8. CASE AfterSuiteStep(q)
    <2>1. phase[q] = "after" => maker[q]
      BY <1>4, <1>5 DEF Made
    <2>2. UNCHANGED <<failed, broken, payload>>
      BY <1>8, <2>1 DEF AfterSuiteStep, AfterSuite, DeleteUnprivileged, DeletePrivileged,
         RemoveMakerDir, RemoveTempDir, Removes, Enters
    <2> QED BY <1>4, <2>2
  <1>9. CASE SomethingFails(q)
    BY <1>2, <1>9 DEF SomethingFails, BuildFails, PrepareFails, TeardownAborts, CleanupFails,
       RemoveDepotFails, DeleteStoreFails, RemoveMakerDirFails, RemoveTempDirFails
  <1>10. CASE Runners(q)
    <2>0. PICK s \in 1 .. MaxSpecs : RunnerStep(q, s)
      BY <1>2, <1>10 DEF Runners, RunnerFails
    <2>1. Create(q, s) => database[q] = 0
      <3> SUFFICES ASSUME Create(q, s), database[q] # 0 PROVE FALSE
        OBVIOUS
      <3>1. runner[q][s] = "dropped"
        BY DEF Create, Exits, Runs
      <3>2. s = spec[q] /\ stage[q] = "starting"
        BY <1>5, <3>1 DEF SpecInv, RunnersInv, Working
      <3> QED BY <1>5, <3>1, <3>2 DEF SpecInv, CleanInv
    <2>2. Drop(q, s) => CanDrop(q)
      <3> SUFFICES ASSUME Drop(q, s) PROVE CanDrop(q)
        OBVIOUS
      <3>1. runner[q][s] = "reconnected"
        BY DEF Drop, Exits, Runs
      <3>2. s = plumbing[q] /\ stage[q] = "stopping"
        BY <1>5, <3>1 DEF SpecInv, RunnersInv, CleanInv, Leaving
      <3>3. s > 0
        BY TestRunAssumption
      <3> QED BY <1>5, <3>1, <3>2, <3>3 DEF SpecInv, CleanInv, Leaving, CanDrop
    <2>3. UNCHANGED failed
      BY <2>0, <2>1, <2>2 DEF RunnerStep, Connect, DropOld, Create, Open, Ready, Reconnect, Drop
    <2> QED BY <1>4, <1>10, <2>3 DEF Runners, suiteVars
  <1> QED BY <1>6, <1>7, <1>8, <1>9, <1>10 DEF StepOf, Steps

\* Every step keeps the invariant.
LEMMA Inductive == IInv /\ [Next]_vars => IInv'
  <1> SUFFICES ASSUME IInv, [Next]_vars PROVE IInv'
    OBVIOUS
  <1>1. ASSUME NEW q \in Procs, StepOf(q) PROVE IInv'
    <2>1. Typed /\ FilesInv /\ \A p \in Procs : SpecInv(p)
      BY DEF IInv
    <2>2. Typed'
      BY <1>1, <2>1, TypesKept
    <2>3. SpecInv(q)'
      <3>1. CASE Runners(q)
        BY <2>1, <3>1, RunnerStepLocal DEF Runners
      <3>2. CASE ~Runners(q)
        BY <1>1, <2>1, <3>2, SpecStepLocal, SuiteStepLocal
        DEF StepOf, Steps, SomethingFails, SpecStep
      <3> QED BY <3>1, <3>2
    <2>4. ASSUME NEW p \in Procs, p # q PROVE SpecInv(p)'
      BY <1>1, <2>1, <2>4, OthersKeep, LocalStutter
    <2>5. FilesInv'
      <3>1. CASE Runners(q)
        <4>1. UNCHANGED <<suite, suiteVars>> /\ UNCHANGED served
          BY <3>1 DEF Runners, specVars
        <4> QED BY <2>1, <4>1, SpecStepFiles
      <3>2. CASE \/ BeforeSuite(q) \/ AfterSuiteStep(q) \/ NoMoreSpecs(q) \/ (q = 1 /\ BuildFails)
                 \/ PrepareFails(q) \/ RemoveDepotFails(q) \/ DeleteStoreFails(q)
                 \/ RemoveMakerDirFails(q) \/ RemoveTempDirFails(q)
        BY <2>1, <3>2, SuiteStepFiles
      <3>3. CASE \/ BeginSpec(q) \/ PlumbingUp(q) \/ PlumbingRefused(q) \/ PlumbingFails(q)
                 \/ BodyEnds(q) \/ StopPlumbing(q) \/ SpecEnds(q) \/ TeardownAborts(q)
        <4>1. UNCHANGED <<suite, suiteVars>> /\ (UNCHANGED served \/ PlumbingUp(q))
          BY <3>3 DEF BeginSpec, PlumbingUp, PlumbingRefused, PlumbingFails, BodyEnds,
             StopPlumbing, SpecEnds, TeardownAborts
        <4> QED BY <2>1, <4>1, SpecStepFiles
      <3> QED BY <1>1, <3>1, <3>2, <3>3 DEF StepOf, Steps, SomethingFails, SpecStep
    <2>6. NoFaultNoFailure' /\ (faults' = 0 => payload' # "failed")
      BY <1>1, FaultlessKept DEF NoFaultNoFailure
    <2> QED BY <2>2, <2>3, <2>4, <2>5, <2>6 DEF IInv
  <1>2. CASE UNCHANGED vars
    <2> USE <1>2 DEF vars, sqlVars, suiteVars, specVars
    <2>1. Typed' /\ NoFaultNoFailure' /\ (faults' = 0 => payload' # "failed")
      BY DEF IInv, Typed, TypeOK, NoFaultNoFailure
    <2>2. FilesInv'
      BY DEF IInv, FilesInv, SuiteDirOwned, CertsOutliveSpecs, ArchiveServedWhileProcess1Runs, Made,
             Removed
    <2>3. ASSUME NEW p \in Procs PROVE SpecInv(p)'
      BY LocalStutter DEF IInv, Local
    <2> QED BY <2>1, <2>2, <2>3 DEF IInv
  <1> QED BY <1>1, <1>2 DEF Next, StepOf

\* The invariant holds in every state.
LEMMA Invariance == Spec => []IInv
  <1>1. Init => IInv
    <2> SUFFICES ASSUME Init PROVE IInv
      OBVIOUS
    <2> USE TestRunAssumption DEF Init, SQLInit
    <2>1. /\ runner \in [Procs -> [1 .. MaxSpecs -> RunnerStates]]
          /\ phase \in [Procs -> Phases] /\ stage \in [Procs -> Stages]
      BY DEF RunnerStates, Phases, Stages
    <2>2. \A p \in Procs : up[p] \subseteq 1 .. MaxSpecs /\ Cardinality(up[p]) <= 1
      BY SmallSets
    <2>3. /\ up \in [Procs -> SUBSET (1 .. MaxSpecs)]
          /\ sessions \in [Procs -> SUBSET ({"runner", "diego"} \X (1 .. MaxSpecs))]
          /\ pools \in [Procs -> SUBSET ((1 .. MaxSpecs) \X (1 .. 3))]
          /\ failed \in [Procs -> SUBSET (0 .. MaxSpecs)]
      OBVIOUS
    <2>4. Typed
      BY <2>1, <2>2, <2>3 DEF Typed, TypeOK
    <2>5. FilesInv /\ NoFaultNoFailure
      BY DEF FilesInv, SuiteDirOwned, CertsOutliveSpecs, ArchiveServedWhileProcess1Runs, Made,
             Removed, NoFaultNoFailure, BeforeAfterSuite
    <2>6. \A p \in Procs : SpecInv(p)
      BY DEF SpecInv, RunnersInv, DatabaseInv, CleanInv, PoolInv, Working, Leaving
    <2> QED BY <2>4, <2>5, <2>6 DEF IInv
  <1> QED BY <1>1, Inductive, PTL DEF Spec

-----------------------------------------------------------------------------
\* The types, for any number of processes and specs.
THEOREM TypeCorrect == Spec => []TypeOK
  <1>1. IInv => TypeOK
    BY DEF IInv, Typed
  <1> QED BY <1>1, Invariance, PTL

\* No process loses its certificates while it runs specs, whenever process 1
\* removes the suite directory.
THEOREM CertsSafe == Spec => []CertsOutliveSpecs
  <1>1. IInv => CertsOutliveSpecs
    BY DEF IInv, FilesInv
  <1> QED BY <1>1, Invariance, PTL

\* A file server misses the lifecycle archive only when process 1 has ended its
\* specs.
THEOREM ArchiveSafe == Spec => []ArchiveServedWhileProcess1Runs
  <1>1. IInv => ArchiveServedWhileProcess1Runs
    BY DEF IInv, FilesInv
  <1> QED BY <1>1, Invariance, PTL

\* The body of a spec runs on the database that its own runner has created.
THEOREM FreshDatabase == Spec => []CleanSlate
  <1>1. IInv => CleanSlate
    BY DEF IInv, SpecInv, DatabaseInv, CleanSlate
  <1> QED BY <1>1, Invariance, PTL

\* Although every removal of the AfterSuites may fail, what a process leaves
\* behind without a reported failure is what nothing removes, and process 1's
\* suite directory where the cell suite drops the error of os.RemoveAll.
THEOREM NothingLeftInSilence == Spec => []LeftoversReported
  <1>1. IInv => LeftoversReported
    <2> SUFFICES ASSUME IInv, NEW p \in Procs, phase[p] = "ended", p \notin broken, failed[p] = {}
                 PROVE  /\ {MakerDir(p), Unprivileged(p), Privileged(p)} \cap files = {}
                        /\ Depot(p) \in files => suite # "volman" /\ (p # 1 \/ p \in ignored)
                        /\ p = 1 /\ {SuiteDir, Archive} \cap files # {} => p \in ignored
                        /\ p \in ignored => p = 1 /\ suite = "cell"
                        /\ database[p] = 0 /\ sessions[p] = {}
      BY DEF LeftoversReported
    <2>1. Removed(p)
      BY DEF IInv, FilesInv
    <2>2. stage[p] = "none"
      BY DEF IInv, SpecInv, RunnersInv
    <2>3. database[p] = 0 /\ sessions[p] = {}
      BY <2>2 DEF IInv, SpecInv, CleanInv
    <2> QED BY <2>1, <2>3 DEF Removed
  <1> QED BY <1>1, Invariance, PTL

\* Without a fault no spec fails and no suite is broken.
THEOREM FaultlessRunsPass == Spec => []NoFaultNoFailure
  <1>1. IInv => NoFaultNoFailure
    BY DEF IInv
  <1> QED BY <1>1, Invariance, PTL

\* Connections to the database server are lost at most once per spec.
THEOREM FewConnectionsLost == Spec => []ConnectionsBounded
  <1>1. IInv => ConnectionsBounded
    <2> SUFFICES ASSUME IInv, NEW p \in Procs
                 PROVE  Cardinality(pools[p]) <= spec[p] + 1
      BY DEF ConnectionsBounded
    <2> DEFINE busy == IF stage[p] \in {"starting", "failing"} THEN spec[p] ELSE plumbing[p]
               kept == pools[p] \ {<<busy, 1>>}
               first == [x \in kept |-> x[1]]
    <2>1. /\ pools[p] \subseteq (1 .. MaxSpecs) \X (1 .. 3) /\ spec[p] \in Nat
          /\ RunnersInv(p) /\ PoolInv(p) /\ MaxSpecs \in Nat
      BY TestRunAssumption DEF IInv, Typed, TypeOK, SpecInv
    <2>2. ASSUME NEW s \in 1 .. MaxSpecs, <<s, 1>> \in pools[p], s # busy
          PROVE  <<s, 2>> \notin pools[p] /\ <<s, 3>> \notin pools[p]
      BY <2>1, <2>2 DEF RunnersInv, PoolInv, Working, Leaving
    <2>3. ASSUME NEW x \in kept, NEW y \in kept, x[1] = y[1] PROVE x = y
      <3>1. PICK s \in 1 .. MaxSpecs, i \in 1 .. 3 : x = <<s, i>>
        BY <2>1
      <3>2. PICK j \in 1 .. 3 : y = <<s, j>>
        BY <2>1, <2>3, <3>1
      <3>3. <<s, i>> \in pools[p] /\ <<s, j>> \in pools[p]
        BY <3>1, <3>2
      <3>4. i = 1 \/ j = 1 => s # busy
        BY <3>1, <3>2
      <3>5. ASSUME i = 1 PROVE j = 1
        <4>1. <<s, 1>> \in pools[p] /\ s # busy
          BY <3>3, <3>4, <3>5
        <4>2. <<s, 2>> \notin pools[p] /\ <<s, 3>> \notin pools[p]
          BY <2>2, <4>1
        <4>3. j # 2 /\ j # 3
          BY <3>3, <4>2
        <4> QED BY <4>3
      <3>6. ASSUME j = 1 PROVE i = 1
        <4>1. <<s, 1>> \in pools[p] /\ s # busy
          BY <3>3, <3>4, <3>6
        <4>2. <<s, 2>> \notin pools[p] /\ <<s, 3>> \notin pools[p]
          BY <2>2, <4>1
        <4>3. i # 2 /\ i # 3
          BY <3>3, <4>2
        <4> QED BY <4>3
      <3>7. ~(i = 2 /\ j = 3) /\ ~(i = 3 /\ j = 2)
        BY <2>1, <3>3 DEF PoolInv
      <3>8. i = j
        BY <3>5, <3>6, <3>7
      <3> QED BY <3>1, <3>2, <3>8
    <2>4. first \in [kept -> 1 .. spec[p]]
      <3> SUFFICES ASSUME NEW x \in kept PROVE x[1] \in 1 .. spec[p]
        OBVIOUS
      <3>1. PICK s \in 1 .. MaxSpecs, i \in 1 .. 3 : x = <<s, i>>
        BY <2>1
      <3>2. runner[p][s] # "off"
        <4>1. <<s, i>> \in pools[p]
          BY <3>1
        <4>2. CASE i = 1
          BY <2>1, <4>1, <4>2 DEF PoolInv
        <4>3. CASE i = 2
          BY <2>1, <4>1, <4>3 DEF PoolInv
        <4>4. CASE i = 3
          BY <2>1, <4>1, <4>4 DEF PoolInv
        <4> QED BY <4>2, <4>3, <4>4
      <3> QED BY <2>1, <3>1, <3>2 DEF RunnersInv
    <2>5. first \in Injection(kept, 1 .. spec[p])
      BY <2>3, <2>4 DEF Injection, IsInjective
    <2>6. IsFiniteSet(1 .. spec[p]) /\ Cardinality(1 .. spec[p]) = spec[p]
      <3>1. 1 \in Int /\ spec[p] \in Int
        BY <2>1
      <3>2. /\ IsFiniteSet(1 .. spec[p])
            /\ Cardinality(1 .. spec[p]) = IF 1 > spec[p] THEN 0 ELSE spec[p] - 1 + 1
        BY <3>1, FS_Interval
      <3> QED BY <2>1, <3>2
    <2> HIDE DEF first
    <2>7. IsFiniteSet(kept) /\ Cardinality(kept) <= spec[p]
      BY <2>5, <2>6, FS_Injection
    <2> HIDE DEF busy
    <2>8. /\ IsFiniteSet(kept \cup {<<busy, 1>>})
          /\ Cardinality(kept \cup {<<busy, 1>>}) <= spec[p] + 1
      <3>1. Cardinality(kept) \in Nat
        BY <2>7, FS_CardinalityType
      <3> HIDE DEF kept
      <3>2. /\ IsFiniteSet(kept \cup {<<busy, 1>>})
            /\ Cardinality(kept \cup {<<busy, 1>>}) =
                 IF <<busy, 1>> \in kept THEN Cardinality(kept) ELSE Cardinality(kept) + 1
        BY <2>7, FS_AddElement
      <3> QED BY <2>1, <2>7, <3>1, <3>2
    <2>9. pools[p] \subseteq kept \cup {<<busy, 1>>}
      OBVIOUS
    <2>10. Cardinality(pools[p]) <= Cardinality(kept \cup {<<busy, 1>>}) /\ IsFiniteSet(pools[p])
      BY <2>8, <2>9, FS_Subset
    <2>11. Cardinality(pools[p]) \in Nat /\ Cardinality(kept \cup {<<busy, 1>>}) \in Nat
      BY <2>8, <2>10, FS_CardinalityType
    <2> QED BY <2>1, <2>8, <2>10, <2>11
  <1> QED BY <1>1, Invariance, PTL
=============================================================================
